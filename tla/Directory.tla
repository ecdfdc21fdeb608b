----------------------------- MODULE Directory ------------------------------
(***************************************************************************)
(* The directory of observed Telegram users: src/app/store/users.py and    *)
(* the scripts it runs in src/app/store/redis.py (observe_user_json,       *)
(* delete_user_alias, delete_user_data).                                   *)
(*                                                                         *)
(* A name is a normalised username.  An observation carries the order of   *)
(* the update it came with, (last_seen_at, last_update_id), as a number;   *)
(* repeated and overlapping updates make observations arrive in any order. *)
(***************************************************************************)
EXTENDS Integers

CONSTANTS
  Accounts,  \* of users
  Names,
  MaxOrder,  \* bound on the orders of observations
  NoUser,
  NoName     \* a user without a username

ASSUME DirectoryAssumption ==
  /\ NoUser \notin Accounts
  /\ NoName \notin Names
  /\ MaxOrder \in Nat

VARIABLES
  profile,  \* user:<id>: name and order; order -1 when there is none
  alias     \* username:<name>

directoryVars == <<profile, alias>>

NoProfile == [name |-> NoName, order |-> -1]

Known(u) == profile[u].order >= 0

-----------------------------------------------------------------------------
\* Mutant: a name goes to whoever was observed with it last.
DesiredAlways(u, n, o) == n

\* The name an observation gets: none if its alias belongs to another user
\* who was observed with at least that order.
Desired(u, n, o) ==
  LET owner == IF n = NoName THEN NoUser ELSE alias[n] IN
  IF owner \in Accounts \ {u} /\ Known(owner) /\ profile[owner].order >= o
  THEN NoName ELSE n

\* Mutant: the alias of the former name is left behind.
AliasKept(u, desired) ==
  [x \in Names |-> IF x = desired THEN u ELSE alias[x]]

\* The alias of the former name goes, if it is still the user's.
AliasAfter(u, desired) ==
  [x \in Names |->
     CASE x = desired -> u
       [] x # desired /\ x = profile[u].name /\ alias[x] = u -> NoUser
       [] OTHER -> alias[x]]

\* Whoever had the name loses it.
ProfileAfter(u, desired, o) ==
  [v \in Accounts |->
     CASE v = u -> [name |-> desired, order |-> o]
       [] v # u /\ desired # NoName /\ alias[desired] = v /\ profile[v].name = desired ->
            [profile[v] EXCEPT !.name = NoName]
       [] OTHER -> profile[v]]

\* observe_user_json: an observation older than the profile changes nothing.
Observe(u, n, o) ==
  LET desired == Desired(u, n, o) IN
  IF profile[u].order > o
  THEN UNCHANGED directoryVars
  ELSE /\ alias' = AliasAfter(u, desired)
       /\ profile' = ProfileAfter(u, desired, o)

\* The profile and, if it is the user's, its alias; list memberships are
\* in the module Catalog.
Delete(u) ==
  /\ Known(u)
  /\ alias' = [x \in Names |-> IF x = profile[u].name /\ alias[x] = u
                               THEN NoUser ELSE alias[x]]
  /\ profile' = [profile EXCEPT ![u] = NoProfile]

DirectoryInit ==
  /\ profile = [u \in Accounts |-> NoProfile]
  /\ alias = [n \in Names |-> NoUser]

ObserveStep ==
  \E u \in Accounts, n \in Names \cup {NoName}, o \in 0..MaxOrder : Observe(u, n, o)

DirectoryNext == ObserveStep \/ \E u \in Accounts : Delete(u)

DirectorySpec == DirectoryInit /\ [][DirectoryNext]_directoryVars

-----------------------------------------------------------------------------
(* Properties.                                                             *)

\* Profiles and aliases have their types.
DirectoryTypeOK ==
  /\ profile \in [Accounts -> [name : Names \cup {NoName}, order : -1..MaxOrder]]
  /\ alias \in [Names -> Accounts \cup {NoUser}]

\* Aliases and profiles are two keys that always agree: a name leads to the
\* one user whose profile bears it, and every named profile can be found.
\* Hence no name is ever shared, and resolving needs no second look.
OneOwnerPerName ==
  \A n \in Names, u \in Accounts : alias[n] = u <=> profile[u].name = n

\* A profile that is not deleted never goes back to an older observation.
ProfileNeverOlder ==
  [][\A u \in Accounts : Known(u)' => profile'[u].order >= profile[u].order]_directoryVars

\* A name moves from one user to another only with a newer observation than
\* the one its owner had it by: a late repetition steals no name.
NamesMoveForward ==
  [][\A n \in Names, u, v \in Accounts :
       u # v /\ alias[n] = u /\ alias'[n] = v =>
         profile'[v].order > profile[u].order]_directoryVars

=============================================================================
