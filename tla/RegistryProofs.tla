--------------------------- MODULE RegistryProofs ---------------------------
(***************************************************************************)
(* What holds of the directory of users and of the catalog of lists and    *)
(* rules, for any number of users, names, lists, rules, administrators and *)
(* orders of observations.                                                 *)
(*                                                                         *)
(* In the directory the agreement of aliases and profiles is inductive     *)
(* with the types: an observation that gives a name to a user takes it     *)
(* from the one profile that had it, because the alias leads to that       *)
(* profile.                                                                *)
(*                                                                         *)
(* In the catalog CatalogInv is inductive; it needs, beside what TLC       *)
(* checks, that a begun update is one its script can be run with: it       *)
(* renames lists to lists, never the reserved one, and no rule.            *)
(*                                                                         *)
(* The registry is both: what holds of each holds of it.                   *)
(***************************************************************************)
EXTENDS Registry, FiniteSetTheorems, TLAPS

-----------------------------------------------------------------------------
(* The directory.                                                          *)

DirectoryInv == DirectoryTypeOK /\ OneOwnerPerName

-----------------------------------------------------------------------------
(* The two functions an observation writes.                                *)

\* What an observation does to each alias and to each profile.
LEMMA ObservedValues ==
  ASSUME DirectoryTypeOK, NEW u \in Accounts, NEW desired \in Names \cup {NoName}, NEW o \in 0..MaxOrder,
         alias' = AliasAfter(u, desired), profile' = ProfileAfter(u, desired, o)
  PROVE  /\ alias' \in [Names -> Accounts \cup {NoUser}]
         /\ profile' \in [Accounts -> [name : Names \cup {NoName}, order : -1..MaxOrder]]
         /\ \A x \in Names :
              alias'[x] = IF x = desired THEN u
                          ELSE IF x = profile[u].name /\ alias[x] = u THEN NoUser ELSE alias[x]
         /\ profile'[u].name = desired /\ profile'[u].order = o
         /\ \A v \in Accounts \ {u} :
              /\ profile'[v].order = profile[v].order
              /\ profile'[v].name = IF /\ desired # NoName /\ alias[desired] = v
                                       /\ profile[v].name = desired
                                    THEN NoName ELSE profile[v].name
<1> USE DirectoryAssumption DEF DirectoryTypeOK
<1>1. \A x \in Names :
        alias'[x] = IF x = desired THEN u
                    ELSE IF x = profile[u].name /\ alias[x] = u THEN NoUser ELSE alias[x]
  BY DEF AliasAfter
<1>2. alias' \in [Names -> Accounts \cup {NoUser}]
  BY DEF AliasAfter
<1>3. profile'[u] = [name |-> desired, order |-> o]
  BY DEF ProfileAfter
<1>4. \A v \in Accounts \ {u} :
        profile'[v] = IF desired # NoName /\ alias[desired] = v /\ profile[v].name = desired
                      THEN [profile[v] EXCEPT !.name = NoName] ELSE profile[v]
  BY DEF ProfileAfter
<1>5. \A v \in Accounts : profile'[v] \in [name : Names \cup {NoName}, order : -1..MaxOrder]
  <2>1. profile'[u] \in [name : Names \cup {NoName}, order : -1..MaxOrder]
    BY <1>3
  <2>2. ASSUME NEW v \in Accounts \ {u}
        PROVE  profile'[v] \in [name : Names \cup {NoName}, order : -1..MaxOrder]
    <3>1. profile'[v] = profile[v] \/ profile'[v] = [profile[v] EXCEPT !.name = NoName]
      BY <1>4
    <3>2. profile[v] \in [name : Names \cup {NoName}, order : -1..MaxOrder]
      OBVIOUS
    <3>3. [profile[v] EXCEPT !.name = NoName] \in [name : Names \cup {NoName}, order : -1..MaxOrder]
      BY <3>2
    <3> QED BY <3>1, <3>2, <3>3
  <2> QED BY <2>1, <2>2
<1>6. profile' \in [Accounts -> [name : Names \cup {NoName}, order : -1..MaxOrder]]
  BY <1>5 DEF ProfileAfter
<1>7. \A v \in Accounts \ {u} :
        /\ profile'[v].order = profile[v].order
        /\ profile'[v].name = IF desired # NoName /\ alias[desired] = v /\ profile[v].name = desired
                              THEN NoName ELSE profile[v].name
  BY <1>4
<1> QED BY <1>1, <1>2, <1>3, <1>6, <1>7

\* The name an observation gets is its own or none, and one that was another
\* user's was had by an older observation.
LEMMA DesiredIsFree ==
  ASSUME DirectoryTypeOK, NEW u \in Accounts, NEW n \in Names \cup {NoName}, NEW o \in 0..MaxOrder
  PROVE  /\ Desired(u, n, o) \in {n, NoName}
         /\ \A v \in Accounts \ {u} :
              Desired(u, n, o) # NoName /\ alias[Desired(u, n, o)] = v => profile[v].order < o
BY DirectoryAssumption DEF Desired, Known, DirectoryTypeOK

-----------------------------------------------------------------------------
LEMMA InitHasDirectoryInv == DirectoryInit => DirectoryInv
BY DirectoryAssumption
DEF DirectoryInit, DirectoryInv, DirectoryTypeOK, OneOwnerPerName, NoProfile

LEMMA ObserveKeeps ==
  ASSUME DirectoryInv, NEW u \in Accounts, NEW n \in Names \cup {NoName}, NEW o \in 0..MaxOrder,
         Observe(u, n, o)
  PROVE  DirectoryInv'
<1> DEFINE desired == Desired(u, n, o)
<1>1. CASE profile[u].order > o
  BY <1>1 DEF Observe, directoryVars, DirectoryInv, DirectoryTypeOK, OneOwnerPerName
<1>2. CASE ~(profile[u].order > o)
  <2>1. /\ alias' = AliasAfter(u, desired) /\ profile' = ProfileAfter(u, desired, o)
    BY <1>2 DEF Observe
  <2>2. desired \in Names \cup {NoName}
    BY DesiredIsFree DEF DirectoryInv
  <2> HIDE DEF desired
  <2>3. DirectoryTypeOK'
    BY <2>1, <2>2, ObservedValues DEF DirectoryInv, DirectoryTypeOK
  <2>4. OneOwnerPerName'
    <3> SUFFICES ASSUME NEW x \in Names, NEW v \in Accounts
                 PROVE  alias'[x] = v <=> profile'[v].name = x
      BY DEF OneOwnerPerName
    <3>1. alias[x] = v <=> profile[v].name = x
      BY DEF DirectoryInv, OneOwnerPerName
    <3>2. alias'[x] = IF x = desired THEN u
                      ELSE IF x = profile[u].name /\ alias[x] = u THEN NoUser ELSE alias[x]
      BY <2>1, <2>2, ObservedValues DEF DirectoryInv
    <3>3. CASE v = u
      <4>1. profile'[v].name = desired
        BY <2>1, <2>2, <3>3, ObservedValues DEF DirectoryInv
      <4> QED BY <3>1, <3>2, <3>3, <4>1, DirectoryAssumption
    <3>4. CASE v # u
      <4>1. profile'[v].name = IF desired # NoName /\ alias[desired] = v /\ profile[v].name = desired
                               THEN NoName ELSE profile[v].name
        BY <2>1, <2>2, <3>4, ObservedValues DEF DirectoryInv
      <4> QED BY <3>1, <3>2, <3>4, <4>1, DirectoryAssumption
    <3> QED BY <3>3, <3>4
  <2> QED BY <2>3, <2>4 DEF DirectoryInv
<1> QED BY <1>1, <1>2

LEMMA DeleteKeeps ==
  ASSUME DirectoryInv, NEW u \in Accounts, Delete(u)
  PROVE  DirectoryInv'
<1>1. DirectoryTypeOK'
  BY DirectoryAssumption
  DEF Delete, DirectoryInv, DirectoryTypeOK, NoProfile
<1>2. OneOwnerPerName'
  BY DirectoryAssumption DEF Delete, DirectoryInv, DirectoryTypeOK, OneOwnerPerName, NoProfile
<1> QED BY <1>1, <1>2 DEF DirectoryInv

\* The invariant of the directory.
THEOREM DirectoryInvariance == DirectorySpec => []DirectoryInv
<1>1. DirectoryInv /\ [DirectoryNext]_directoryVars => DirectoryInv'
  <2>1. CASE UNCHANGED directoryVars
    BY <2>1 DEF directoryVars, DirectoryInv, DirectoryTypeOK, OneOwnerPerName
  <2> QED BY <2>1, ObserveKeeps, DeleteKeeps DEF DirectoryNext, ObserveStep
<1> QED BY <1>1, InitHasDirectoryInv, PTL DEF DirectorySpec

-----------------------------------------------------------------------------
(* The properties.                                                         *)

\* Profiles and aliases keep their types.
THEOREM DirectoryTypes == DirectorySpec => []DirectoryTypeOK
BY DirectoryInvariance, PTL DEF DirectoryInv

\* Whatever order observations come in and whoever is deleted between them,
\* alias and profile of a name agree.
THEOREM NamesHaveOneOwner == DirectorySpec => []OneOwnerPerName
BY DirectoryInvariance, PTL DEF DirectoryInv

\* No observation takes a profile back to an older one, or away.
LEMMA ObservedOrder ==
  ASSUME DirectoryInv, NEW u \in Accounts, NEW n \in Names \cup {NoName}, NEW o \in 0..MaxOrder,
         Observe(u, n, o), NEW v \in Accounts
  PROVE  profile'[v].order >= profile[v].order
<1>0. profile[v].order \in -1..MaxOrder
  BY DEF DirectoryInv, DirectoryTypeOK
<1>1. CASE profile[u].order > o
  BY <1>0, <1>1 DEF Observe, directoryVars
<1>2. CASE ~(profile[u].order > o)
  <2> DEFINE desired == Desired(u, n, o)
  <2>1. desired \in Names \cup {NoName}
    BY DesiredIsFree DEF DirectoryInv
  <2>2. alias' = AliasAfter(u, desired) /\ profile' = ProfileAfter(u, desired, o)
    BY <1>2 DEF Observe
  <2> HIDE DEF desired
  <2>3. profile'[v].order = IF v = u THEN o ELSE profile[v].order
    BY <2>1, <2>2, ObservedValues DEF DirectoryInv
  <2> QED BY <1>0, <1>2, <2>3
<1> QED BY <1>1, <1>2

\* No repetition of an old update takes a profile back.
THEOREM ProfilesGetNewer == DirectorySpec => ProfileNeverOlder
<1>1. DirectoryInv /\ [DirectoryNext]_directoryVars
        => [\A u \in Accounts : Known(u)' => profile'[u].order >= profile[u].order]_directoryVars
  <2> SUFFICES ASSUME DirectoryInv, DirectoryNext, NEW v \in Accounts, Known(v)'
               PROVE  profile'[v].order >= profile[v].order
    BY DEF directoryVars
  <2>1. profile[v].order \in -1..MaxOrder
    BY DEF DirectoryInv, DirectoryTypeOK
  <2>2. ASSUME NEW u \in Accounts, Delete(u)
        PROVE  profile'[v].order >= profile[v].order
    BY <2>1, <2>2 DEF Delete, Known, NoProfile, DirectoryInv, DirectoryTypeOK
  <2> QED BY <2>2, ObservedOrder DEF DirectoryNext, ObserveStep
<1> QED BY <1>1, DirectoryInvariance, PTL DEF DirectorySpec, ProfileNeverOlder

\* A name changes hands only with a newer observation than its owner's.
THEOREM NamesGoForward == DirectorySpec => NamesMoveForward
<1>1. DirectoryInv /\ [DirectoryNext]_directoryVars
        => [\A n \in Names, u, v \in Accounts :
              u # v /\ alias[n] = u /\ alias'[n] = v =>
                profile'[v].order > profile[u].order]_directoryVars
  <2> SUFFICES ASSUME DirectoryInv, DirectoryNext, NEW x \in Names,
                      NEW w \in Accounts, NEW v \in Accounts, w # v, alias[x] = w, alias'[x] = v
               PROVE  profile'[v].order > profile[w].order
    BY DEF directoryVars
  <2>1. ASSUME NEW u \in Accounts, NEW n \in Names \cup {NoName}, NEW o \in 0..MaxOrder,
               Observe(u, n, o)
        PROVE  profile'[v].order > profile[w].order
    <3> DEFINE desired == Desired(u, n, o)
    <3>1. desired \in Names \cup {NoName}
      BY DesiredIsFree DEF DirectoryInv
    <3>2. alias' = AliasAfter(u, desired) /\ profile' = ProfileAfter(u, desired, o)
      BY <2>1 DEF Observe, directoryVars
    <3>3. \A y \in Accounts \ {u} :
            desired # NoName /\ alias[desired] = y => profile[y].order < o
      BY DesiredIsFree DEF DirectoryInv
    <3> HIDE DEF desired
    <3>4. /\ alias'[x] = IF x = desired THEN u
                         ELSE IF x = profile[u].name /\ alias[x] = u THEN NoUser ELSE alias[x]
          /\ profile'[u].order = o
      BY <3>1, <3>2, ObservedValues DEF DirectoryInv
    <3>5. x = desired /\ v = u
      BY <3>4, DirectoryAssumption
    <3> QED BY <3>3, <3>4, <3>5, DirectoryAssumption DEF DirectoryInv, DirectoryTypeOK
  <2>2. ASSUME NEW u \in Accounts, Delete(u)
        PROVE  FALSE
    BY <2>2, DirectoryAssumption DEF Delete, DirectoryInv, DirectoryTypeOK
  <2> QED BY <2>1, <2>2 DEF DirectoryNext, ObserveStep
<1> QED BY <1>1, DirectoryInvariance, PTL DEF DirectorySpec, NamesMoveForward

-----------------------------------------------------------------------------
(* The catalog.                                                            *)


\* What BeginListUpdate and BeginRuleUpdate looked at and no one can change
\* before the write.
UpdatesAreAllowed ==
  \A a \in Admins :
    update[a] # NoUpdate =>
      /\ update[a].id \in Slugs =>
           update[a].new \in Slugs /\ Ignore \notin {update[a].id, update[a].new}
      /\ update[a].id \in RuleIds => update[a].new = update[a].id

CatalogInv ==
  /\ CatalogTypeOK
  /\ IndexMatchesItems
  /\ NoOrphanMembers
  /\ ForgottenIsNoMember
  /\ DeletedListStays
  /\ UpdatesAreAllowed

-----------------------------------------------------------------------------
(* Sizes of an index.                                                      *)

\* Adding what there is room for stays within the limit.
LEMMA AddingFits ==
  ASSUME NEW S, IsFiniteSet(S), NEW index \in SUBSET S, NEW id \in S,
         Cardinality(index) <= MaxItems, HasRoom(index, id)
  PROVE  Cardinality(index \cup {id}) <= MaxItems
<1>1. IsFiniteSet(index)
  BY FS_Subset
<1>2. Cardinality(index) \in Nat
  BY <1>1, FS_CardinalityType
<1>3. CASE id \in index
  <2>1. index \cup {id} = index
    BY <1>3
  <2> QED BY <2>1
<1>4. CASE id \notin index
  <2>1. Cardinality(index \cup {id}) = Cardinality(index) + 1
    BY <1>1, <1>4, FS_AddElement
  <2>2. Cardinality(index) < MaxItems
    BY <1>4 DEF HasRoom
  <2> QED BY <1>2, <2>1, <2>2, CatalogAssumption
<1> QED BY <1>3, <1>4

\* Taking one out stays within the limit.
LEMMA RemovingFits ==
  ASSUME NEW S, IsFiniteSet(S), NEW index \in SUBSET S, NEW id,
         Cardinality(index) <= MaxItems
  PROVE  Cardinality(index \ {id}) <= MaxItems
<1>1. IsFiniteSet(index)
  BY FS_Subset
<1>2. IsFiniteSet(index \ {id}) /\ Cardinality(index \ {id}) <= Cardinality(index)
  BY <1>1, FS_Subset
<1>3. Cardinality(index) \in Nat /\ Cardinality(index \ {id}) \in Nat
  BY <1>1, <1>2, FS_CardinalityType
<1> QED BY <1>2, <1>3, CatalogAssumption

\* Exchanging one for another stays within the limit.
LEMMA ExchangingFits ==
  ASSUME NEW S, IsFiniteSet(S), NEW index \in SUBSET S, NEW old \in index, NEW new \in S,
         Cardinality(index) <= MaxItems
  PROVE  Cardinality((index \ {old}) \cup {new}) <= MaxItems
<1>1. IsFiniteSet(index)
  BY FS_Subset
<1>2. IsFiniteSet(index \ {old}) /\ Cardinality(index \ {old}) = Cardinality(index) - 1
  BY <1>1, FS_RemoveElement
<1>3. Cardinality(index) \in Nat /\ Cardinality(index \ {old}) \in Nat
  BY <1>1, <1>2, FS_CardinalityType
<1>4. Cardinality((index \ {old}) \cup {new}) <= Cardinality(index \ {old}) + 1
  <2>1. Cardinality((index \ {old}) \cup {new})
          = IF new \in index \ {old} THEN Cardinality(index \ {old})
            ELSE Cardinality(index \ {old}) + 1
    BY <1>2, FS_AddElement
  <2> QED BY <1>3, <2>1
<1>5. Cardinality((index \ {old}) \cup {new}) \in Nat
  BY <1>2, FS_AddElement, FS_CardinalityType
<1> QED BY <1>2, <1>3, <1>4, <1>5, CatalogAssumption

-----------------------------------------------------------------------------
LEMMA InitHasCatalogInv == CatalogInit => CatalogInv
<1> SUFFICES ASSUME CatalogInit PROVE CatalogInv
  OBVIOUS
<1>1. Cardinality(listIndex) <= MaxItems /\ Cardinality(ruleIndex) <= MaxItems
  BY FS_EmptySet, CatalogAssumption DEF CatalogInit
<1>2. CatalogTypeOK
  BY <1>1 DEF CatalogInit, CatalogTypeOK, Ids, Reads, NoRead
<1>3. IndexMatchesItems /\ NoOrphanMembers /\ ForgottenIsNoMember /\ DeletedListStays
  BY DEF CatalogInit, IndexMatchesItems, NoOrphanMembers, ForgottenIsNoMember,
         DeletedListStays, Exists, Ids
<1>4. UpdatesAreAllowed
  BY DEF CatalogInit, UpdatesAreAllowed
<1> QED BY <1>2, <1>3, <1>4 DEF CatalogInv

\* Writing a description and its entry in the index, for a creation, a forced
\* write and the write of a rule's update alike.
LEMMA CreateListKeeps ==
  ASSUME CatalogInv, NEW s \in Slugs, NEW b \in Bodies, CreateList(s, b) \/ SeedList(s, b)
  PROVE  CatalogInv'
<1> USE DEF CatalogInv
<1>0. /\ item' = [item EXCEPT ![s] = b] /\ HasRoom(listIndex, s)
      /\ listIndex' = listIndex \cup {s} /\ gone' = gone \ {s}
      /\ UNCHANGED <<ruleIndex, members, update, read, forgotten>>
  BY DEF CreateList, SeedList
<1>1. Cardinality(listIndex') <= MaxItems
  BY <1>0, AddingFits, CatalogAssumption DEF CatalogTypeOK
<1>2. CatalogTypeOK'
  BY <1>0, <1>1 DEF CatalogTypeOK, Ids
<1>3. IndexMatchesItems' /\ NoOrphanMembers' /\ DeletedListStays'
  BY <1>0, CatalogAssumption DEF IndexMatchesItems, NoOrphanMembers, DeletedListStays, Exists,
       CatalogTypeOK, Ids
<1>4. ForgottenIsNoMember' /\ UpdatesAreAllowed'
  BY <1>0 DEF ForgottenIsNoMember, UpdatesAreAllowed
<1> QED BY <1>2, <1>3, <1>4

\* An update that begins is only remembered.
LEMMA BeginKeeps ==
  ASSUME CatalogInv, NEW a \in Admins, NEW b \in Bodies,
         \/ \E s, new \in Slugs : BeginListUpdate(a, s, new, b)
         \/ \E r \in RuleIds : BeginRuleUpdate(a, r, b)
  PROVE  CatalogInv'
<1> USE DEF CatalogInv
<1>0. PICK id \in Ids, new \in Ids :
        /\ update' = [update EXCEPT ![a] = [id |-> id, new |-> new, body |-> b]]
        /\ id \in Slugs => new \in Slugs /\ Ignore \notin {id, new}
        /\ id \in RuleIds => new = id
  BY CatalogAssumption DEF BeginListUpdate, BeginRuleUpdate, Ids
<1>1. UNCHANGED <<listIndex, ruleIndex, item, members, read, gone, forgotten>>
  BY DEF BeginListUpdate, BeginRuleUpdate
<1>2. CatalogTypeOK'
  BY <1>0, <1>1 DEF CatalogTypeOK, Updates
<1>3. IndexMatchesItems' /\ NoOrphanMembers' /\ ForgottenIsNoMember' /\ DeletedListStays'
  BY <1>1 DEF IndexMatchesItems, NoOrphanMembers, ForgottenIsNoMember, DeletedListStays, Exists
<1>4. UpdatesAreAllowed'
  BY <1>0 DEF UpdatesAreAllowed, CatalogTypeOK
<1> QED BY <1>2, <1>3, <1>4

\* A rename that the script allows: the slug that is taken was free, so its
\* entry replaces the old one, and no members were there before.
LEMMA FinishListUpdateKeeps ==
  ASSUME CatalogInv, NEW a \in Admins, FinishListUpdate(a)
  PROVE  CatalogInv'
<1> USE DEF CatalogInv
<1> DEFINE old == update[a].id
           new == update[a].new
           b == update[a].body
<1>1. /\ old \in Slugs /\ new \in Slugs /\ b \in Bodies /\ Ignore \notin {old, new}
      /\ update' = [update EXCEPT ![a] = NoUpdate]
      /\ UNCHANGED <<ruleIndex, read, forgotten>>
  BY DEF FinishListUpdate, UpdatesAreAllowed, CatalogTypeOK, Updates
<1>2. UpdatesAreAllowed'
  BY <1>1 DEF UpdatesAreAllowed, CatalogTypeOK
<1>3. CASE ~MayRename(old, new)
  <2>1. UNCHANGED <<item, listIndex, members, gone>>
    BY <1>3 DEF FinishListUpdate
  <2>2. CatalogTypeOK'
    BY <1>1, <2>1 DEF CatalogTypeOK
  <2> QED BY <1>1, <1>2, <2>1, <2>2
          DEF IndexMatchesItems, NoOrphanMembers, ForgottenIsNoMember, DeletedListStays, Exists
<1>4. CASE MayRename(old, new)
  <2>1. /\ item' = [[item EXCEPT ![old] = NoBody] EXCEPT ![new] = b]
        /\ listIndex' = (listIndex \ {old}) \cup {new}
        /\ members' = RenamedMembers(old, new)
        /\ gone' = IF old = new THEN gone ELSE (gone \cup {old}) \ {new}
    BY <1>4 DEF FinishListUpdate
  <2>2. Exists(old) /\ (old = new \/ ~Exists(new)) /\ old \in listIndex
    BY <1>1, <1>4 DEF MayRename, IndexMatchesItems
  <2>3. \A s \in Slugs : members'[s] = CASE s = new /\ old # new -> members[new] \cup members[old]
                                         [] s = old /\ old # new -> {}
                                         [] OTHER -> members[s]
    BY <2>1 DEF RenamedMembers
  <2>4. members' \in [Slugs -> SUBSET Users]
    BY <1>1, <2>1 DEF RenamedMembers, CatalogTypeOK
  <2>5. Cardinality(listIndex') <= MaxItems
    BY <1>1, <2>1, <2>2, ExchangingFits, CatalogAssumption DEF CatalogTypeOK
  <2>6. item' \in [Ids -> Bodies \cup {NoBody}]
    BY <1>1, <2>1 DEF CatalogTypeOK, Ids
  <2>7. CatalogTypeOK'
    BY <1>1, <2>1, <2>4, <2>5, <2>6 DEF CatalogTypeOK, Ids
  <2>8. \A id \in Ids : item'[id] = IF id = new THEN b ELSE IF id = old THEN NoBody ELSE item[id]
    BY <1>1, <2>1 DEF CatalogTypeOK, Ids
  <2>9. IndexMatchesItems' /\ DeletedListStays'
    BY <1>1, <2>1, <2>2, <2>8, CatalogAssumption
    DEF IndexMatchesItems, DeletedListStays, Exists, CatalogTypeOK, Ids
  <2>10. NoOrphanMembers'
    BY <1>1, <2>2, <2>3, <2>8, CatalogAssumption DEF NoOrphanMembers, Exists, Ids
  <2>11. ForgottenIsNoMember'
    BY <1>1, <2>3 DEF ForgottenIsNoMember
  <2> QED BY <1>2, <2>7, <2>9, <2>10, <2>11
<1> QED BY <1>3, <1>4

LEMMA DeleteListKeeps ==
  ASSUME CatalogInv, NEW s \in Slugs, DeleteList(s)
  PROVE  CatalogInv'
<1> USE DEF CatalogInv, DeleteList
<1>1. Cardinality(listIndex') <= MaxItems
  BY RemovingFits, CatalogAssumption DEF CatalogTypeOK
<1>2. CatalogTypeOK'
  BY <1>1 DEF CatalogTypeOK, Ids
<1>3. IndexMatchesItems' /\ NoOrphanMembers' /\ DeletedListStays'
  BY CatalogAssumption DEF IndexMatchesItems, NoOrphanMembers, DeletedListStays, Exists,
       CatalogTypeOK, Ids
<1>4. ForgottenIsNoMember' /\ UpdatesAreAllowed'
  BY DEF ForgottenIsNoMember, UpdatesAreAllowed, CatalogTypeOK
<1> QED BY <1>2, <1>3, <1>4

\* What changes members only.
LEMMA MembershipKeeps ==
  ASSUME CatalogInv, NEW u \in Users,
         (\E s \in Slugs : AddMember(s, u) \/ RemoveMember(s, u)) \/ ForgetUser(u)
  PROVE  CatalogInv'
<1> USE DEF CatalogInv
<1>0. UNCHANGED <<listIndex, ruleIndex, item, update, read, gone>>
  BY DEF AddMember, RemoveMember, ForgetUser
<1>1. members' \in [Slugs -> SUBSET Users] /\ forgotten' \subseteq Users
  BY DEF AddMember, RemoveMember, ForgetUser, CatalogTypeOK
<1>2. CatalogTypeOK' /\ IndexMatchesItems' /\ DeletedListStays' /\ UpdatesAreAllowed'
  BY <1>0, <1>1
  DEF CatalogTypeOK, IndexMatchesItems, DeletedListStays, UpdatesAreAllowed, Exists
<1>3. NoOrphanMembers' /\ ForgottenIsNoMember'
  <2>1. CASE \E s \in Slugs : AddMember(s, u)
    BY <1>0, <2>1 DEF AddMember, NoOrphanMembers, ForgottenIsNoMember, Exists, CatalogTypeOK
  <2>2. CASE \E s \in Slugs : RemoveMember(s, u)
    BY <1>0, <2>2 DEF RemoveMember, NoOrphanMembers, ForgottenIsNoMember, Exists, CatalogTypeOK
  <2>3. CASE ForgetUser(u)
    <3>1. \A s \in Slugs : u \notin members'[s] /\ members'[s] \subseteq members[s]
      BY <2>3 DEF ForgetUser, IndexMatchesItems, NoOrphanMembers
    <3> QED BY <1>0, <2>3, <3>1 DEF ForgetUser, NoOrphanMembers, ForgottenIsNoMember, Exists
  <2> QED BY <2>1, <2>2, <2>3
<1> QED BY <1>2, <1>3

LEMMA WriteRuleKeeps ==
  ASSUME CatalogInv, NEW r \in RuleIds, NEW b \in Bodies,
         HasRoom(ruleIndex, r), item' = [item EXCEPT ![r] = b],
         ruleIndex' = ruleIndex \cup {r}, gone' = gone \/ gone' = gone \ {r},
         update' = update \/ (\E a \in Admins : update' = [update EXCEPT ![a] = NoUpdate]),
         UNCHANGED <<listIndex, members, read, forgotten>>
  PROVE  CatalogInv'
<1> USE DEF CatalogInv
<1>1. Cardinality(ruleIndex') <= MaxItems
  BY AddingFits, CatalogAssumption DEF CatalogTypeOK
<1>2. CatalogTypeOK'
  BY <1>1 DEF CatalogTypeOK, Ids
<1>3. IndexMatchesItems' /\ NoOrphanMembers' /\ DeletedListStays'
  BY CatalogAssumption DEF IndexMatchesItems, NoOrphanMembers, DeletedListStays, Exists,
       CatalogTypeOK, Ids
<1>4. ForgottenIsNoMember' /\ UpdatesAreAllowed'
  BY DEF ForgottenIsNoMember, UpdatesAreAllowed, CatalogTypeOK
<1> QED BY <1>2, <1>3, <1>4

LEMMA RuleStepKeeps ==
  ASSUME CatalogInv, RuleStep
  PROVE  CatalogInv'
<1>1. CASE \E r \in RuleIds, b \in Bodies : CreateRule(r, b)
  BY <1>1, WriteRuleKeeps DEF CreateRule
<1>2. CASE \E a \in Admins, r \in RuleIds, b \in Bodies : BeginRuleUpdate(a, r, b)
  BY <1>2, BeginKeeps
<1>3. ASSUME NEW a \in Admins, FinishRuleUpdate(a)
      PROVE  CatalogInv'
  <2>1. update[a].body \in Bodies /\ update[a].id \in RuleIds
    BY <1>3 DEF FinishRuleUpdate, CatalogInv, CatalogTypeOK, Updates
  <2>2. CASE HasRoom(ruleIndex, update[a].id)
    BY <1>3, <2>1, <2>2, WriteRuleKeeps DEF FinishRuleUpdate
  <2>3. CASE ~HasRoom(ruleIndex, update[a].id)
    BY <1>3, <2>3
    DEF FinishRuleUpdate, CatalogInv, CatalogTypeOK, IndexMatchesItems, NoOrphanMembers,
        ForgottenIsNoMember, DeletedListStays, UpdatesAreAllowed, Exists
  <2> QED BY <2>2, <2>3
<1>4. ASSUME NEW r \in RuleIds, DeleteRule(r)
      PROVE  CatalogInv'
  <2> USE <1>4 DEF CatalogInv, DeleteRule
  <2>1. Cardinality(ruleIndex') <= MaxItems
    BY RemovingFits, CatalogAssumption DEF CatalogTypeOK
  <2>2. CatalogTypeOK'
    BY <2>1 DEF CatalogTypeOK, Ids
  <2>3. IndexMatchesItems' /\ NoOrphanMembers' /\ DeletedListStays'
    BY CatalogAssumption DEF IndexMatchesItems, NoOrphanMembers, DeletedListStays, Exists,
         CatalogTypeOK, Ids
  <2> QED BY <2>2, <2>3 DEF ForgottenIsNoMember, UpdatesAreAllowed
<1> QED BY <1>1, <1>2, <1>3, <1>4 DEF RuleStep

\* A read changes nothing but itself.
LEMMA ReadStepKeeps ==
  ASSUME CatalogInv, ReadStep
  PROVE  CatalogInv'
<1>1. UNCHANGED <<listIndex, ruleIndex, item, members, update, gone, forgotten>>
  BY DEF ReadStep, ReadIndex, ReadItems, ReadMembers, ReadEnds
<1>2. read' \in Reads
  <2>1. CASE \E of \in {"lists", "rules", "page"} : ReadIndex(of)
    BY <2>1 DEF ReadIndex, Reads, CatalogInv, CatalogTypeOK, Ids
  <2>2. CASE ReadItems
    BY <2>2 DEF ReadItems, Reads, NoRead, CatalogInv, CatalogTypeOK
  <2>3. CASE \E s \in Slugs : ReadMembers(s)
    BY <2>3 DEF ReadMembers, Reads, NoRead, CatalogInv, CatalogTypeOK
  <2>4. CASE ReadEnds
    BY <2>4 DEF ReadEnds, Reads, NoRead, CatalogInv, CatalogTypeOK
  <2> QED BY <2>1, <2>2, <2>3, <2>4 DEF ReadStep
<1> QED BY <1>1, <1>2
        DEF CatalogInv, CatalogTypeOK, IndexMatchesItems, NoOrphanMembers,
            ForgottenIsNoMember, DeletedListStays, UpdatesAreAllowed, Exists

LEMMA CatalogNextKeeps ==
  ASSUME CatalogInv, [CatalogNext]_catalogVars
  PROVE  CatalogInv'
<1>1. CASE ListStep
  BY <1>1, CreateListKeeps, BeginKeeps, FinishListUpdateKeeps, DeleteListKeeps, MembershipKeeps
  DEF ListStep
<1>2. CASE UNCHANGED catalogVars
  BY <1>2 DEF catalogVars, CatalogInv, CatalogTypeOK, IndexMatchesItems, NoOrphanMembers,
              ForgottenIsNoMember, DeletedListStays, UpdatesAreAllowed, Exists
<1> QED BY <1>1, <1>2, RuleStepKeeps, ReadStepKeeps, MembershipKeeps DEF CatalogNext, PanelStep

\* The invariant of the catalogue, for all its parts.
THEOREM CatalogInvariance == CatalogSpec => []CatalogInv
BY InitHasCatalogInv, CatalogNextKeeps, PTL DEF CatalogSpec

-----------------------------------------------------------------------------
(* The properties.                                                         *)

\* The types hold, and no index outgrows its limit, whatever overlaps.
THEOREM CatalogTypes == CatalogSpec => []CatalogTypeOK
BY CatalogInvariance, PTL DEF CatalogInv

\* Neither an entry without its description nor a description without its
\* entry, for lists and for rules.
THEOREM IndexesMatch == CatalogSpec => []IndexMatchesItems
BY CatalogInvariance, PTL DEF CatalogInv

\* Members without a list never appear, so none are inherited by a new one.
THEOREM NoOrphans == CatalogSpec => []NoOrphanMembers
BY CatalogInvariance, PTL DEF CatalogInv

\* No list keeps a user who was deleted and not added again.
THEOREM ForgottenLeaveAllLists == CatalogSpec => []ForgottenIsNoMember
BY CatalogInvariance, PTL DEF CatalogInv

\* No late update brings back a list that was deleted or renamed.
THEOREM DeletedListsStay == CatalogSpec => []DeletedListStays
BY CatalogInvariance, PTL DEF CatalogInv

\* The two implementations of a rename differ in no state in which it is
\* allowed: the new slug has no members then.
THEOREM RenamesAgree == CatalogSpec => []StoresAgree
<1>1. CatalogInv => StoresAgree
  <2> SUFFICES ASSUME CatalogInv, NEW old \in Slugs, NEW new \in Slugs, MayRename(old, new)
               PROVE  RenamedMembers(old, new) = RenamedInMemory(old, new)
    BY DEF StoresAgree
  <2>1. old = new \/ members[new] = {}
    BY DEF CatalogInv, NoOrphanMembers, MayRename
  <2>2. \A s \in Slugs : RenamedMembers(old, new)[s] = RenamedInMemory(old, new)[s]
    BY <2>1 DEF RenamedMembers, RenamedInMemory
  <2> QED BY <2>2 DEF RenamedMembers, RenamedInMemory
<1> QED BY <1>1, CatalogInvariance, PTL

\* Once created, the reserved list is there for good.
THEOREM IgnoreIsKept == CatalogSpec => IgnoreStays
<1>1. CatalogInv /\ CatalogInv' /\ [CatalogNext]_catalogVars
        => [Exists(Ignore) => Exists(Ignore)' /\ Ignore \in listIndex']_catalogVars
  <2> SUFFICES ASSUME CatalogInv, CatalogInv', CatalogNext, Exists(Ignore)
               PROVE  Exists(Ignore)' /\ Ignore \in listIndex'
    BY DEF catalogVars
  <2>0. Ignore \in Ids /\ item \in [Ids -> Bodies \cup {NoBody}]
    BY CatalogAssumption DEF Ids, CatalogInv, CatalogTypeOK
  <2>1. Exists(Ignore)'
    <3>1. CASE ListStep
      <4>1. ASSUME NEW a \in Admins, FinishListUpdate(a)
            PROVE  Exists(Ignore)'
        BY <2>0, <4>1 DEF FinishListUpdate, CatalogInv, UpdatesAreAllowed, Exists
      <4> QED BY <2>0, <3>1, <4>1, CatalogAssumption
              DEF ListStep, CreateList, SeedList, BeginListUpdate, DeleteList, AddMember,
                  RemoveMember, ForgetUser, Exists
    <3>2. CASE RuleStep
      BY <2>0, <3>2, CatalogAssumption
      DEF RuleStep, CreateRule, BeginRuleUpdate, FinishRuleUpdate, DeleteRule, Exists
    <3>3. CASE ReadStep
      BY <3>3 DEF ReadStep, ReadIndex, ReadItems, ReadMembers, ReadEnds, Exists
    <3>4. CASE \E u \in Users : ForgetUser(u)
      BY <3>4 DEF ForgetUser, Exists
    <3> QED BY <3>1, <3>2, <3>3, <3>4 DEF CatalogNext, PanelStep
  <2> QED BY <2>1, CatalogAssumption DEF CatalogInv, IndexMatchesItems
<1> QED BY <1>1, CatalogInvariance, PTL DEF CatalogSpec, IgnoreStays

-----------------------------------------------------------------------------
(* The registry.                                                           *)

\* Every step of the registry is one of the directory, of the catalog, or of
\* both, so that the theorems about either hold of it.
THEOREM RegistryComposes == RegistrySpec => DirectorySpec /\ CatalogSpec
<1>1. [RegistryNext]_registryVars => [DirectoryNext]_directoryVars
  BY RegistryAssumption DEF RegistryNext, registryVars, DirectoryNext, DeleteUserData
<1>2. [RegistryNext]_registryVars => [CatalogNext]_catalogVars
  BY DEF RegistryNext, registryVars, CatalogNext, DeleteUserData
<1> QED BY <1>1, <1>2, PTL DEF RegistrySpec, RegistryInit, DirectorySpec, CatalogSpec

\* A step that takes a user's profile takes the user out of every list: what
\* the index of the lists leads to is all there is.
THEOREM DeletionsAreWhole == RegistrySpec => DeletionIsWhole
<1>1. DirectoryInv /\ DirectoryInv' /\ CatalogInv' /\ [RegistryNext]_registryVars
        => [\A u \in Users : Known(u) /\ ~Known(u)' =>
              \A s \in Slugs : u \notin members'[s]]_registryVars
  <2> SUFFICES ASSUME DirectoryInv, DirectoryInv', CatalogInv', RegistryNext,
                      NEW u \in Users, Known(u), ~Known(u)'
               PROVE  \A s \in Slugs : u \notin members'[s]
    BY DEF registryVars
  <2>0. u \in Accounts
    BY RegistryAssumption
  <2>1. ~ObserveStep
    <3> SUFFICES ASSUME NEW v \in Accounts, NEW n \in Names \cup {NoName},
                        NEW o \in 0..MaxOrder, Observe(v, n, o)
                 PROVE  FALSE
      BY DEF ObserveStep
    <3>1. profile'[u].order >= profile[u].order
      BY <2>0, ObservedOrder
    <3>2. profile[u].order \in Int /\ profile'[u].order \in Int
      BY <2>0 DEF DirectoryInv, DirectoryTypeOK
    <3> QED BY <3>1, <3>2 DEF Known
  <2>2. ~UNCHANGED directoryVars
    BY DEF directoryVars, Known
  <2>3. PICK v \in Users : DeleteUserData(v)
    BY <2>1, <2>2 DEF RegistryNext
  <2>4. v = u
    BY <2>0, <2>2, <2>3, RegistryAssumption
    DEF DeleteUserData, Delete, Known, DirectoryInv, DirectoryTypeOK
  <2>5. u \in forgotten'
    BY <2>3, <2>4 DEF DeleteUserData, ForgetUser
  <2> QED BY <2>5 DEF CatalogInv, ForgottenIsNoMember
<1>2. RegistrySpec => []DirectoryInv /\ []CatalogInv
  BY RegistryComposes, DirectoryInvariance, CatalogInvariance, PTL
<1> QED BY <1>1, <1>2, PTL DEF RegistrySpec, DeletionIsWhole

=============================================================================
