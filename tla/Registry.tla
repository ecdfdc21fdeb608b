------------------------------ MODULE Registry ------------------------------
(***************************************************************************)
(* The directory of users and the catalog of lists and rules in one store: *)
(* the deletion of a user by src/app/admin/routes.py is a single script on *)
(* both (users.delete_with_memberships, delete_user_data of redis.py).     *)
(***************************************************************************)
EXTENDS Directory, Catalog

ASSUME RegistryAssumption == Users = Accounts

registryVars == <<directoryVars, catalogVars>>

-----------------------------------------------------------------------------
\* Mutant: the profile and its alias go, as with users.delete.
DeleteProfileOnly(u) ==
  /\ Delete(u) \/ (~Known(u) /\ UNCHANGED directoryVars)
  /\ UNCHANGED catalogVars

\* The profile with its alias, if there is one, and in any case what the
\* lists in the index have of the user.
DeleteUserData(u) ==
  /\ Delete(u) \/ (~Known(u) /\ UNCHANGED directoryVars)
  /\ ForgetUser(u)

RegistryInit == DirectoryInit /\ CatalogInit

RegistryNext ==
  \/ ObserveStep /\ UNCHANGED catalogVars
  \/ PanelStep /\ UNCHANGED directoryVars
  \/ \E u \in Users : DeleteUserData(u)

RegistrySpec == RegistryInit /\ [][RegistryNext]_registryVars

-----------------------------------------------------------------------------
(* Properties.                                                             *)

\* Whoever loses the profile is in no list from the same step on, whatever
\* was renamed, seeded or added before: the index that the deletion walks
\* leads to every membership.
DeletionIsWhole ==
  [][\A u \in Users : Known(u) /\ ~Known(u)' =>
       \A s \in Slugs : u \notin members'[s]]_registryVars

=============================================================================
