------------------------------ MODULE Catalog -------------------------------
(***************************************************************************)
(* The lists and the rules that administrators keep: src/app/store/lists.py*)
(* and rules.py, the scripts they run in src/app/store/redis.py, and the   *)
(* handlers of src/app/admin/routes.py that call them.                     *)
(*                                                                         *)
(* A list is three keys (its entry in the index, its description and its   *)
(* members), a rule is two.  A script changes all of them at once, but an  *)
(* update reads before it writes, and a reader fetches the index and the   *)
(* descriptions in two round trips: other administrators come in between.  *)
(* A body is the description of a list or a rule.                          *)
(***************************************************************************)
EXTENDS Integers, FiniteSets

CONSTANTS
  Slugs,     \* of lists
  Ignore,    \* the reserved list
  RuleIds,
  Bodies,
  NoBody,
  Users,
  Admins,    \* handlers that may overlap
  NoUpdate,
  MaxItems   \* MAX_LISTS and MAX_RULES

ASSUME CatalogAssumption ==
  /\ Ignore \in Slugs
  /\ Slugs \cap RuleIds = {}
  /\ NoBody \notin Bodies
  /\ IsFiniteSet(Slugs) /\ IsFiniteSet(RuleIds)
  /\ MaxItems \in Nat \ {0}
  /\ NoUpdate \notin [id : Slugs \cup RuleIds, new : Slugs \cup RuleIds, body : Bodies]

VARIABLES
  listIndex,  \* lists:index
  ruleIndex,  \* rules:index
  item,       \* list:<slug>:meta and rule:<id>
  members,    \* list:<slug>:members, no key when it is empty
  update,     \* an administrator's update between its read and its write
  read,       \* a read of the lists or of the rules under way
  gone,       \* history variable: deleted, and not created since
  forgotten   \* history variable: users deleted, and not added to a list since

catalogVars == <<listIndex, ruleIndex, item, members, update, read, gone, forgotten>>

Ids == Slugs \cup RuleIds

Updates == [id : Ids, new : Ids, body : Bodies]

\* What is read, how far it is, and the ids that are still to be looked up.
Reads == [of : {"lists", "rules", "page"},
          stage : {"none", "items", "page", "corrupt", "missing"},
          ids : SUBSET Ids]

NoRead == [of |-> "rules", stage |-> "none", ids |-> {}]

Exists(id) == item[id] # NoBody

-----------------------------------------------------------------------------
(* The scripts.                                                            *)

\* indexed_json_put's answer is not "limit".
HasRoom(index, id) ==
  id \in index \/ Cardinality(index) < MaxItems

\* rename_indexed_set of redis.py's MemoryKV, for the members.
RenamedInMemory(old, new) ==
  [s \in Slugs |->
     CASE s = new /\ old # new /\ members[old] # {} -> members[old]
       [] s = old /\ old # new -> {}
       [] OTHER -> members[s]]

\* Mutant: the members are copied, their old key is not deleted.
RenamedByCopy(old, new) ==
  [s \in Slugs |-> IF s = new /\ old # new THEN members[new] \cup members[old] ELSE members[s]]

\* The same in the Lua script: the members are added to those of the new key.
RenamedMembers(old, new) ==
  [s \in Slugs |->
     CASE s = new /\ old # new -> members[new] \cup members[old]
       [] s = old /\ old # new -> {}
       [] OTHER -> members[s]]

-----------------------------------------------------------------------------
(* Lists.                                                                  *)

\* lists.create of the panel and, for any list, of scripts/seed.py.
CreateList(s, b) ==
  /\ s # Ignore /\ ~Exists(s)
  /\ HasRoom(listIndex, s)
  /\ item' = [item EXCEPT ![s] = b]
  /\ listIndex' = listIndex \cup {s}
  /\ gone' = gone \ {s}
  /\ UNCHANGED <<ruleIndex, members, update, read, forgotten>>

\* seed.py creates the ignore list by force, and with --force any list.
SeedList(s, b) ==
  /\ HasRoom(listIndex, s)
  /\ item' = [item EXCEPT ![s] = b]
  /\ listIndex' = listIndex \cup {s}
  /\ gone' = gone \ {s}
  /\ UNCHANGED <<ruleIndex, members, update, read, forgotten>>

\* lists.update has found the list; the panel's body replaces every field.
BeginListUpdate(a, s, new, b) ==
  /\ update[a] = NoUpdate
  /\ Ignore \notin {s, new} /\ Exists(s)
  /\ update' = [update EXCEPT ![a] = [id |-> s, new |-> new, body |-> b]]
  /\ UNCHANGED <<listIndex, ruleIndex, item, members, read, gone, forgotten>>

\* rename_indexed_set answers neither "missing" nor "exists".
MayRename(old, new) == Exists(old) /\ (old = new \/ ~Exists(new))

FinishListUpdate(a) ==
  /\ update[a] # NoUpdate /\ update[a].id \in Slugs
  /\ LET old == update[a].id
         new == update[a].new
     IN IF MayRename(old, new)
        THEN /\ item' = [[item EXCEPT ![old] = NoBody] EXCEPT ![new] = update[a].body]
             /\ listIndex' = (listIndex \ {old}) \cup {new}
             /\ members' = RenamedMembers(old, new)
             /\ gone' = IF old = new THEN gone ELSE (gone \cup {old}) \ {new}
        ELSE UNCHANGED <<item, listIndex, members, gone>>
  /\ update' = [update EXCEPT ![a] = NoUpdate]
  /\ UNCHANGED <<ruleIndex, read, forgotten>>

\* Mutant: the description goes, the entry in the index stays.
DeleteNotIndexed(s) ==
  /\ s # Ignore /\ Exists(s)
  /\ item' = [item EXCEPT ![s] = NoBody]
  /\ members' = [members EXCEPT ![s] = {}]
  /\ gone' = gone \cup {s}
  /\ UNCHANGED <<listIndex, ruleIndex, update, read, forgotten>>

DeleteList(s) ==
  /\ s # Ignore /\ Exists(s)
  /\ item' = [item EXCEPT ![s] = NoBody]
  /\ listIndex' = listIndex \ {s}
  /\ members' = [members EXCEPT ![s] = {}]
  /\ gone' = gone \cup {s}
  /\ UNCHANGED <<ruleIndex, update, read, forgotten>>

AddMember(s, u) ==
  /\ Exists(s) /\ u \notin members[s]
  /\ members' = [members EXCEPT ![s] = @ \cup {u}]
  /\ forgotten' = forgotten \ {u}
  /\ UNCHANGED <<listIndex, ruleIndex, item, update, read, gone>>

RemoveMember(s, u) ==
  /\ u \in members[s]
  /\ members' = [members EXCEPT ![s] = @ \ {u}]
  /\ UNCHANGED <<listIndex, ruleIndex, item, update, read, gone, forgotten>>

\* delete_user_data, for the memberships: it walks the index of the lists.
ForgetUser(u) ==
  /\ members' = [s \in Slugs |-> IF s \in listIndex THEN members[s] \ {u} ELSE members[s]]
  /\ forgotten' = forgotten \cup {u}
  /\ UNCHANGED <<listIndex, ruleIndex, item, update, read, gone>>

-----------------------------------------------------------------------------
(* Rules.                                                                  *)

CreateRule(r, b) ==
  /\ ~Exists(r)
  /\ HasRoom(ruleIndex, r)
  /\ item' = [item EXCEPT ![r] = b]
  /\ ruleIndex' = ruleIndex \cup {r}
  /\ gone' = gone \ {r}
  /\ UNCHANGED <<listIndex, members, update, read, forgotten>>

\* rules.update has found the rule; its id cannot change.
BeginRuleUpdate(a, r, b) ==
  /\ update[a] = NoUpdate
  /\ Exists(r)
  /\ update' = [update EXCEPT ![a] = [id |-> r, new |-> r, body |-> b]]
  /\ UNCHANGED <<listIndex, ruleIndex, item, members, read, gone, forgotten>>

\* The write is create by force: it does not ask whether the rule is there.
FinishRuleUpdate(a) ==
  /\ update[a] # NoUpdate /\ update[a].id \in RuleIds
  /\ LET r == update[a].id
     IN IF HasRoom(ruleIndex, r)
        THEN /\ item' = [item EXCEPT ![r] = update[a].body]
             /\ ruleIndex' = ruleIndex \cup {r}
        ELSE UNCHANGED <<item, ruleIndex>>
  /\ update' = [update EXCEPT ![a] = NoUpdate]
  /\ UNCHANGED <<listIndex, members, read, gone, forgotten>>

DeleteRule(r) ==
  /\ Exists(r)
  /\ item' = [item EXCEPT ![r] = NoBody]
  /\ ruleIndex' = ruleIndex \ {r}
  /\ gone' = gone \cup {r}
  /\ UNCHANGED <<listIndex, members, update, read, forgotten>>

-----------------------------------------------------------------------------
(* A read of all lists or of all rules, by the webhook or by the panel.    *)

\* The index, in a first round trip.
ReadIndex(of) ==
  /\ read.stage = "none"
  /\ read' = [of |-> of, stage |-> "items",
              ids |-> IF of = "rules" THEN ruleIndex ELSE listIndex]
  /\ UNCHANGED <<listIndex, ruleIndex, item, members, update, gone, forgotten>>

\* The descriptions, in a second one.  For a message the memberships are then
\* asked in a single script; the panel goes on list by list.
ReadItems ==
  /\ read.stage = "items"
  /\ read' = CASE \E id \in read.ids : ~Exists(id) -> [read EXCEPT !.stage = "corrupt"]
               [] (\A id \in read.ids : Exists(id)) /\ read.of = "page" ->
                    [read EXCEPT !.stage = "page"]
               [] OTHER -> NoRead
  /\ UNCHANGED <<listIndex, ruleIndex, item, members, update, gone, forgotten>>

\* member_ids looks its list up again; the page ends with an empty set left.
ReadMembers(s) ==
  /\ read.stage = "page" /\ s \in read.ids
  /\ read' = CASE ~Exists(s) -> [read EXCEPT !.stage = "missing"]
               [] Exists(s) /\ read.ids = {s} -> NoRead
               [] OTHER -> [read EXCEPT !.ids = @ \ {s}]
  /\ UNCHANGED <<listIndex, ruleIndex, item, members, update, gone, forgotten>>

\* The error is answered, or there is nothing to show.
ReadEnds ==
  /\ read.stage \in {"corrupt", "missing"} \/ (read.stage = "page" /\ read.ids = {})
  /\ read' = NoRead
  /\ UNCHANGED <<listIndex, ruleIndex, item, members, update, gone, forgotten>>

-----------------------------------------------------------------------------

CatalogInit ==
  /\ listIndex = {} /\ ruleIndex = {}
  /\ item = [id \in Ids |-> NoBody]
  /\ members = [s \in Slugs |-> {}]
  /\ update = [a \in Admins |-> NoUpdate]
  /\ read = NoRead
  /\ gone = {} /\ forgotten = {}

ListStep ==
  \/ \E s \in Slugs, b \in Bodies : CreateList(s, b) \/ SeedList(s, b)
  \/ \E a \in Admins, s, new \in Slugs, b \in Bodies : BeginListUpdate(a, s, new, b)
  \/ \E a \in Admins : FinishListUpdate(a)
  \/ \E s \in Slugs : DeleteList(s)
  \/ \E s \in Slugs, u \in Users : AddMember(s, u) \/ RemoveMember(s, u)

RuleStep ==
  \/ \E r \in RuleIds, b \in Bodies : CreateRule(r, b)
  \/ \E a \in Admins, r \in RuleIds, b \in Bodies : BeginRuleUpdate(a, r, b)
  \/ \E a \in Admins : FinishRuleUpdate(a)
  \/ \E r \in RuleIds : DeleteRule(r)

ReadStep ==
  \/ \E of \in {"lists", "rules", "page"} : ReadIndex(of)
  \/ ReadItems
  \/ \E s \in Slugs : ReadMembers(s)
  \/ ReadEnds

PanelStep == ListStep \/ RuleStep \/ ReadStep

CatalogNext == PanelStep \/ \E u \in Users : ForgetUser(u)

CatalogSpec == CatalogInit /\ [][CatalogNext]_catalogVars

-----------------------------------------------------------------------------
(* Properties.                                                             *)

\* Indexes, descriptions and members have their types, and no creation, forced
\* write or rename takes an index past MAX_LISTS or MAX_RULES, however they
\* overlap.
CatalogTypeOK ==
  /\ listIndex \subseteq Slugs /\ ruleIndex \subseteq RuleIds
  /\ item \in [Ids -> Bodies \cup {NoBody}]
  /\ members \in [Slugs -> SUBSET Users]
  /\ update \in [Admins -> Updates \cup {NoUpdate}]
  /\ read \in Reads
  /\ gone \subseteq Ids /\ forgotten \subseteq Users
  /\ Cardinality(listIndex) <= MaxItems /\ Cardinality(ruleIndex) <= MaxItems

\* Index and descriptions always agree: no orphan in either direction.
IndexMatchesItems ==
  /\ \A s \in Slugs : s \in listIndex <=> Exists(s)
  /\ \A r \in RuleIds : r \in ruleIndex <=> Exists(r)

\* Only a list that exists has members, whatever deletion and addition race:
\* a list created under an old slug starts without the old members.
NoOrphanMembers ==
  \A s \in Slugs : members[s] # {} => Exists(s)

\* A deleted user is in no list until added again: walking the index reaches
\* every membership, also of lists renamed or deleted since.
ForgottenIsNoMember ==
  \A u \in forgotten, s \in Slugs : u \notin members[s]

\* Redis adds the members to those of the new slug, the in-memory store
\* replaces them: it makes no difference for any rename that is allowed.
StoresAgree ==
  \A old, new \in Slugs :
    MayRename(old, new) => RenamedMembers(old, new) = RenamedInMemory(old, new)

\* A list that is deleted or renamed stays away until someone creates it: the
\* update of another administrator that began before does not bring it back.
DeletedListStays ==
  \A s \in gone \cap Slugs : ~Exists(s)

\* The reserved list is never deleted, renamed, or taken over by a rename.
IgnoreStays ==
  [][Exists(Ignore) => Exists(Ignore)' /\ Ignore \in listIndex']_catalogVars

=============================================================================
