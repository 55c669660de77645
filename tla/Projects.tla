------------------------------ MODULE Projects ------------------------------
(***************************************************************************)
(* The world the daemon serves: the configured repositories and the GitHub *)
(* issues in them.  A dependency ("depends: #11" in an issue body) is a    *)
(* number that the code always looks up in the repository of the issue     *)
(* that names it, so a dependency is an issue of the same repository.      *)
(***************************************************************************)
EXTENDS Naturals, FiniteSets

CONSTANTS Repos,      (* config.projects[].repo                            *)
          NoRepo,     (* null: no repository                               *)
          Issues,     (* GitHub issues, one element per (number, repo)     *)
          RepoOf,     (* repository of an issue                            *)
          NumberOf,   (* issue number: the same number may occur in two    *)
                      (* repositories                                      *)
          DependsOn   (* parseDependencies(body) minus self-references     *)

ASSUME ProjectsAssumption ==
  /\ NoRepo \notin Repos
  /\ RepoOf \in [Issues -> Repos]
  /\ NumberOf \in [Issues -> Nat]
  /\ DependsOn \in [Issues -> SUBSET Issues]
  /\ \A i \in Issues : \A d \in DependsOn[i] : d # i /\ RepoOf[d] = RepoOf[i]
  /\ \A i, j \in Issues :
       NumberOf[i] = NumberOf[j] /\ RepoOf[i] = RepoOf[j] => i = j
=============================================================================
