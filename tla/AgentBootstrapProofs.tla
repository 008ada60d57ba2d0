------------------------- MODULE AgentBootstrapProofs -------------------------
(* What merging makes of the files, and that installers that do not overlap *)
(* leave a project wired and the hooks of others alone.                     *)
EXTENDS AgentBootstrap, TLAPS, SequenceTheorems, WellFoundedInduction

-----------------------------------------------------------------------------
(* The lists.  Their places have a least one, so there is room in front.    *)

Hooks == UNION {[D -> Commands] : D \in SUBSET Int}
Entries == [matcher : Matchers, hooks : Hooks]
Bounded(D) == \E n \in Int : \A k \in D : n <= k
Lists == {list \in UNION {[D -> Entries] : D \in SUBSET Int} : Bounded(DOMAIN list)}

LEMMA HooksAre ==
    ASSUME NEW h
    PROVE  h \in Hooks <=> /\ DOMAIN h \subseteq Int
                           /\ h = [j \in DOMAIN h |-> h[j]]
                           /\ \A j \in DOMAIN h : h[j] \in Commands
<1>1. ASSUME h \in Hooks
      PROVE  DOMAIN h \subseteq Int /\ h = [j \in DOMAIN h |-> h[j]] /\ \A j \in DOMAIN h : h[j] \in Commands
  <2>1. PICK D \in SUBSET Int : h \in [D -> Commands]
    BY <1>1 DEF Hooks
  <2> QED  BY <2>1
<1>2. ASSUME DOMAIN h \subseteq Int, h = [j \in DOMAIN h |-> h[j]], \A j \in DOMAIN h : h[j] \in Commands
      PROVE  h \in Hooks
  <2>1. h \in [DOMAIN h -> Commands]
    BY <1>2
  <2> QED  BY <1>2, <2>1 DEF Hooks
<1> QED  BY <1>1, <1>2

LEMMA ListsAre ==
    ASSUME NEW list
    PROVE  list \in Lists <=> /\ DOMAIN list \subseteq Int
                              /\ Bounded(DOMAIN list)
                              /\ list = [i \in DOMAIN list |-> list[i]]
                              /\ \A i \in DOMAIN list : list[i] \in Entries
<1>1. ASSUME list \in Lists
      PROVE  /\ DOMAIN list \subseteq Int /\ Bounded(DOMAIN list)
             /\ list = [i \in DOMAIN list |-> list[i]]
             /\ \A i \in DOMAIN list : list[i] \in Entries
  <2>1. PICK D \in SUBSET Int : list \in [D -> Entries]
    BY <1>1 DEF Lists
  <2> QED  BY <1>1, <2>1 DEF Lists
<1>2. ASSUME DOMAIN list \subseteq Int, Bounded(DOMAIN list), list = [i \in DOMAIN list |-> list[i]],
             \A i \in DOMAIN list : list[i] \in Entries
      PROVE  list \in Lists
  <2>1. list \in [DOMAIN list -> Entries]
    BY <1>2
  <2> QED  BY <1>2, <2>1 DEF Lists
<1> QED  BY <1>1, <1>2

LEMMA LeastNumber ==
    ASSUME NEW N, N \subseteq Nat, N # {}
    PROVE  \E m \in N : \A k \in N : m <= k
<1>1. PICK m \in N : \A k \in N : ~ (<<k, m>> \in OpToRel(<, Nat))
  BY NatLessThanWellFounded, WFMin
<1>2. ASSUME NEW k \in N, k < m PROVE FALSE
  <2>1. <<k, m>> \in Nat \X Nat
    OBVIOUS
  <2>2. <<k, m>> \in OpToRel(<, Nat)
    BY <1>2, <2>1 DEF OpToRel
  <2> QED  BY <1>1, <2>2
<1> QED  BY <1>2

LEMMA LeastPlace ==
    ASSUME NEW D \in SUBSET Int, D # {}, Bounded(D)
    PROVE  Min(D) \in D /\ \A k \in D : Min(D) <= k
<1>1. PICK n \in Int : \A k \in D : n <= k
  BY DEF Bounded
<1> DEFINE N == {k - n : k \in D}
<1>2. N \subseteq Nat /\ N # {}
  <2>1. \A k \in D : k - n \in Nat
    BY <1>1
  <2>2. N \subseteq Nat
    BY <2>1
  <2>3. PICK k \in D : TRUE
    OBVIOUS
  <2>4. k - n \in N
    OBVIOUS
  <2> QED  BY <2>2, <2>4
<1>3. \A k \in D : k - n \in N
  OBVIOUS
<1>4. \A m \in N : \E k \in D : m = k - n
  OBVIOUS
<1> HIDE DEF N
<1>5. PICK m \in N : \A x \in N : m <= x
  BY <1>2, LeastNumber
<1>6. m + n \in D
  BY <1>4
<1>7. ASSUME NEW k \in D PROVE m + n <= k
  <2>1. m <= k - n /\ m \in Nat
    BY <1>2, <1>3, <1>5
  <2> QED  BY <2>1
<1> QED  BY <1>6, <1>7 DEF Min

LEMMA FrontIsFree ==
    ASSUME NEW list \in Lists
    PROVE  Front(list) \in Int /\ \A k \in DOMAIN list : Front(list) < k
<1>1. DOMAIN list \subseteq Int /\ Bounded(DOMAIN list)
  BY ListsAre
<1>2. CASE DOMAIN list = {}
  BY <1>2 DEF Front
<1>3. CASE DOMAIN list # {}
  <2>1. Min(DOMAIN list) \in Int /\ \A k \in DOMAIN list : Min(DOMAIN list) <= k /\ k \in Int
    BY <1>1, <1>3, LeastPlace
  <2>2. Front(list) = Min(DOMAIN list) - 1
    BY <1>3 DEF Front
  <2> HIDE DEF Front, Min
  <2> QED  BY <2>1, <2>2
<1> QED  BY <1>2, <1>3

LEMMA PutIsAList ==
    ASSUME NEW list \in Lists, NEW i \in Int, NEW x \in Entries
    PROVE  /\ Put(list, i, x) \in Lists
           /\ DOMAIN Put(list, i, x) = {i} \cup DOMAIN list
           /\ Put(list, i, x)[i] = x
           /\ \A k \in DOMAIN list \ {i} : Put(list, i, x)[k] = list[k]
<1> DEFINE new == Put(list, i, x)
<1>1. /\ DOMAIN list \subseteq Int /\ Bounded(DOMAIN list)
      /\ \A k \in DOMAIN list : list[k] \in Entries
  BY ListsAre
<1>2. /\ DOMAIN new = {i} \cup DOMAIN list /\ new = [k \in DOMAIN new |-> new[k]]
      /\ new[i] = x /\ \A k \in DOMAIN list \ {i} : new[k] = list[k]
  BY DEF Put
<1>3. Bounded(DOMAIN new)
  <2>1. PICK n \in Int : \A k \in DOMAIN list : n <= k
    BY <1>1 DEF Bounded
  <2>2. CASE n <= i
    BY <1>2, <2>1, <2>2 DEF Bounded
  <2>3. CASE ~(n <= i)
    <3>1. \A k \in DOMAIN list : k \in Int /\ n <= k
      BY <1>1, <2>1
    <3>2. \A k \in DOMAIN new : i <= k
      BY <1>2, <2>3, <3>1
    <3> QED  BY <3>2 DEF Bounded
  <2> QED  BY <2>2, <2>3
<1> HIDE DEF new
<1>4. \A k \in DOMAIN new : new[k] \in Entries
  BY <1>1, <1>2
<1>5. new \in Lists
  BY <1>1, <1>2, <1>3, <1>4, ListsAre
<1> QED  BY <1>2, <1>5 DEF new

-----------------------------------------------------------------------------
(* What _merge_hook_event does to a list.                                   *)

TheirsIn(h) == {j \in DOMAIN h : h[j].name \notin Scripts}

LEMMA NotOursIs ==
    ASSUME NEW entry \in Entries
    PROVE  /\ NotOurs(entry) \in Entries
           /\ NotOurs(entry).matcher = entry.matcher
           /\ DOMAIN NotOurs(entry).hooks = TheirsIn(entry.hooks)
           /\ \A j \in TheirsIn(entry.hooks) : NotOurs(entry).hooks[j] = entry.hooks[j]
<1> DEFINE hooks == [j \in TheirsIn(entry.hooks) |-> entry.hooks[j]]
<1>1. NotOurs(entry) = [entry EXCEPT !.hooks = hooks]
  BY DEF NotOurs, RestrictValues, Restrict, IsOurs, TheirsIn
<1>2. entry.matcher \in Matchers /\ entry.hooks \in Hooks
  BY DEF Entries
<1>3. DOMAIN hooks = TheirsIn(entry.hooks) /\ \A j \in DOMAIN hooks : hooks[j] = entry.hooks[j]
  OBVIOUS
<1>4. hooks \in Hooks
  <2>1. DOMAIN hooks \subseteq Int /\ \A j \in DOMAIN hooks : hooks[j] \in Commands
    BY <1>2, HooksAre DEF TheirsIn
  <2>2. hooks = [j \in DOMAIN hooks |-> hooks[j]]
    OBVIOUS
  <2> HIDE DEF hooks
  <2> QED  BY <2>1, <2>2, HooksAre
<1> HIDE DEF hooks
<1> QED  BY <1>1, <1>2, <1>3, <1>4 DEF Entries

KeptPlaces(list) == {i \in DOMAIN list : TheirsIn(list[i].hooks) # {}}

LEMMA KeptIs ==
    ASSUME NEW list \in Lists
    PROVE  /\ Kept(list) \in Lists
           /\ DOMAIN Kept(list) = KeptPlaces(list)
           /\ \A i \in KeptPlaces(list) : Kept(list)[i] = NotOurs(list[i])
<1>1. /\ DOMAIN list \subseteq Int /\ Bounded(DOMAIN list)
      /\ \A i \in DOMAIN list : list[i] \in Entries
  BY ListsAre
<1>2. Kept(list) = [i \in {k \in DOMAIN list : DOMAIN NotOurs(list[k]).hooks # {}} |-> NotOurs(list[i])]
  BY DEF Kept, RestrictValues, Restrict
<1>3. \A k \in DOMAIN list : DOMAIN NotOurs(list[k]).hooks = TheirsIn(list[k].hooks)
  BY <1>1, NotOursIs
<1>4. {k \in DOMAIN list : DOMAIN NotOurs(list[k]).hooks # {}} = KeptPlaces(list)
  BY <1>3 DEF KeptPlaces
<1>5. Kept(list) = [i \in KeptPlaces(list) |-> NotOurs(list[i])]
  BY <1>2, <1>4
<1>6. KeptPlaces(list) \subseteq DOMAIN list
  BY DEF KeptPlaces
<1>7. /\ DOMAIN Kept(list) \subseteq Int /\ Bounded(DOMAIN Kept(list))
      /\ Kept(list) = [i \in DOMAIN Kept(list) |-> Kept(list)[i]]
      /\ DOMAIN Kept(list) = KeptPlaces(list)
      /\ \A i \in KeptPlaces(list) : Kept(list)[i] = NotOurs(list[i])
  BY <1>1, <1>5, <1>6 DEF Bounded
<1>8. \A i \in DOMAIN Kept(list) : Kept(list)[i] \in Entries
  BY <1>1, <1>6, <1>7, NotOursIs
<1> QED  BY <1>7, <1>8, ListsAre

LEMMA OurEntryIs ==
    ASSUME NEW e \in Events
    PROVE  OurEntry(e) \in Entries /\ TheirsIn(OurEntry(e).hooks) = {}
<1> DEFINE hooks == [i \in DOMAIN Ours[e] |-> Hook(Ours[e][i], "now")]
<1>2. \A i \in DOMAIN Ours[e] : Ours[e][i] \in Scripts
  BY DEF Scripts, Range
<1>3. DOMAIN Ours[e] \subseteq Int
  BY DEF Ours, Events
<1>4. hooks \in Hooks
  <2>1. DOMAIN hooks \subseteq Int /\ hooks = [j \in DOMAIN hooks |-> hooks[j]]
    BY <1>3
  <2>2. \A j \in DOMAIN hooks : hooks[j] \in Commands
    BY <1>2 DEF Hook, Commands
  <2> HIDE DEF hooks
  <2> QED  BY <2>1, <2>2, HooksAre
<1>5. \A j \in DOMAIN hooks : hooks[j].name \in Scripts
  BY <1>2 DEF Hook
<1>6. Matcher(e) \in Matchers
  BY HooksAssumption DEF Matcher
<1>7. OurEntry(e) = [matcher |-> Matcher(e), hooks |-> hooks]
  BY DEF OurEntry
<1> HIDE DEF hooks
<1> QED  BY <1>4, <1>5, <1>6, <1>7 DEF Entries, TheirsIn
\* A place of a list whose hook is another's, with what is there.
LEMMA TheirHooksAre ==
    ASSUME NEW list, NEW x
    PROVE  x \in TheirHooks(list) <=>
             \E i \in DOMAIN list : \E j \in TheirsIn(list[i].hooks) :
                x = <<i, j, list[i].matcher, list[i].hooks[j]>>
  BY DEF TheirHooks, TheirsIn

LEMMA KeptHasTheirs ==
    ASSUME NEW list \in Lists
    PROVE  TheirHooks(Kept(list)) = TheirHooks(list)
<1> DEFINE kept == Kept(list)
<1>1. /\ DOMAIN kept = KeptPlaces(list) /\ KeptPlaces(list) \subseteq DOMAIN list
      /\ \A i \in DOMAIN list : list[i] \in Entries
      /\ \A i \in KeptPlaces(list) : kept[i] = NotOurs(list[i])
  BY KeptIs, ListsAre DEF KeptPlaces
<1> HIDE DEF kept
<1>2. ASSUME NEW i \in KeptPlaces(list)
      PROVE  /\ kept[i].matcher = list[i].matcher
             /\ TheirsIn(kept[i].hooks) = TheirsIn(list[i].hooks)
             /\ \A j \in TheirsIn(list[i].hooks) : kept[i].hooks[j] = list[i].hooks[j]
  <2>1. /\ kept[i].matcher = list[i].matcher
        /\ DOMAIN kept[i].hooks = TheirsIn(list[i].hooks)
        /\ \A j \in TheirsIn(list[i].hooks) : kept[i].hooks[j] = list[i].hooks[j]
    BY <1>1, NotOursIs
  <2> QED  BY <2>1 DEF TheirsIn
<1>3. \A x : x \in TheirHooks(kept) => x \in TheirHooks(list)
  BY <1>1, <1>2, TheirHooksAre
<1>4. \A x : x \in TheirHooks(list) => x \in TheirHooks(kept)
  <2> SUFFICES ASSUME NEW x \in TheirHooks(list) PROVE x \in TheirHooks(kept)
    OBVIOUS
  <2>1. PICK i \in DOMAIN list : \E j \in TheirsIn(list[i].hooks) :
                                    x = <<i, j, list[i].matcher, list[i].hooks[j]>>
    BY TheirHooksAre
  <2>2. i \in KeptPlaces(list)
    BY <2>1 DEF KeptPlaces
  <2> QED  BY <1>1, <1>2, <2>1, <2>2, TheirHooksAre
<1> QED  BY <1>3, <1>4 DEF kept

LEMMA OursIsNotTheirs ==
    ASSUME NEW list \in Lists, NEW e \in Events
    PROVE  /\ WithOurs(e, list) \in Lists
           /\ Front(list) \in DOMAIN WithOurs(e, list) \ DOMAIN list
           /\ DOMAIN WithOurs(e, list) = {Front(list)} \cup DOMAIN list
           /\ WithOurs(e, list)[Front(list)] = OurEntry(e)
           /\ \A k \in DOMAIN list : WithOurs(e, list)[k] = list[k]
           /\ TheirHooks(WithOurs(e, list)) = TheirHooks(list)
<1> DEFINE i == Front(list)  new == WithOurs(e, list)
<1>1. i \in Int /\ i \notin DOMAIN list
  BY FrontIsFree
<1>2. OurEntry(e) \in Entries /\ TheirsIn(OurEntry(e).hooks) = {}
  BY OurEntryIs
<1>3. /\ new \in Lists /\ DOMAIN new = {i} \cup DOMAIN list /\ new[i] = OurEntry(e)
      /\ \A k \in DOMAIN list : new[k] = list[k]
  <2>1. new = Put(list, i, OurEntry(e))
    BY DEF WithOurs
  <2>2. \A k \in DOMAIN list : k # i
    BY <1>1
  <2> DEFINE x == OurEntry(e)
  <2>4. x \in Entries
    BY <1>2
  <2> HIDE DEF i, x
  <2>3. /\ Put(list, i, x) \in Lists
        /\ DOMAIN Put(list, i, x) = {i} \cup DOMAIN list
        /\ Put(list, i, x)[i] = x
        /\ \A k \in DOMAIN list \ {i} : Put(list, i, x)[k] = list[k]
    BY <1>1, <2>4, PutIsAList, ZenonT(30)
  <2> HIDE DEF new
  <2> QED  BY <2>1, <2>2, <2>3 DEF x
<1> HIDE DEF i, new
<1>4. \A x : x \in TheirHooks(new) <=> x \in TheirHooks(list)
  BY <1>1, <1>2, <1>3, TheirHooksAre
<1>5. TheirHooks(new) = TheirHooks(list)
  BY <1>4
<1> QED  BY <1>1, <1>3, <1>5 DEF i, new

\* The hooks of others stay, at their places and with their matchers.
LEMMA MergeKeepsTheirs ==
    ASSUME NEW list \in Lists, NEW e \in Events
    PROVE  Merge(e, list) \in Lists /\ TheirHooks(Merge(e, list)) = TheirHooks(list)
  BY KeptIs, KeptHasTheirs, OursIsNotTheirs DEF Merge

\* Ours are there once.
LEMMA MergeWires ==
    ASSUME NEW list \in Lists, NEW e \in Events
    PROVE  \E i \in DOMAIN Merge(e, list) :
              /\ Merge(e, list)[i] = OurEntry(e)
              /\ \A k \in DOMAIN Merge(e, list) \ {i} : \A h \in Range(Merge(e, list)[k].hooks) :
                    h.name \notin Scripts
<1> DEFINE kept == Kept(list)  new == Merge(e, list)  i == Front(kept)
<1>1. kept \in Lists
  BY KeptIs
<1>2. /\ i \in DOMAIN new /\ DOMAIN new \ {i} \subseteq DOMAIN kept
      /\ new[i] = OurEntry(e) /\ \A k \in DOMAIN kept : new[k] = kept[k]
  <2>1. new = WithOurs(e, kept)
    BY DEF Merge
  <2> HIDE DEF kept, new
  <2>2. /\ WithOurs(e, kept) \in Lists
        /\ Front(kept) \in DOMAIN WithOurs(e, kept) \ DOMAIN kept
        /\ DOMAIN WithOurs(e, kept) = {Front(kept)} \cup DOMAIN kept
        /\ WithOurs(e, kept)[Front(kept)] = OurEntry(e)
        /\ \A k \in DOMAIN kept : WithOurs(e, kept)[k] = kept[k]
    BY <1>1, OursIsNotTheirs
  <2> QED  BY <2>1, <2>2
<1>3. ASSUME NEW k \in DOMAIN kept, NEW h \in Range(kept[k].hooks) PROVE h.name \notin Scripts
  <2>1. k \in DOMAIN list /\ list[k] \in Entries /\ kept[k] = NotOurs(list[k])
    BY KeptIs, ListsAre DEF KeptPlaces
  <2>2. PICK j \in DOMAIN kept[k].hooks : h = kept[k].hooks[j]
    BY DEF Range
  <2>3. j \in TheirsIn(list[k].hooks) /\ h = list[k].hooks[j]
    BY <2>1, <2>2, NotOursIs
  <2> QED  BY <2>3 DEF TheirsIn
<1> HIDE DEF kept, new, i
<1>4. \A k \in DOMAIN new \ {i} : \A h \in Range(new[k].hooks) : h.name \notin Scripts
  BY <1>2, <1>3
<1> QED  BY <1>2, <1>4 DEF new

\* Taking out what is out already.
LEMMA NotOursTwice ==
    ASSUME NEW entry \in Entries, TheirsIn(entry.hooks) = DOMAIN entry.hooks
    PROVE  NotOurs(entry) = entry
<1>1. /\ NotOurs(entry) \in Entries /\ NotOurs(entry).matcher = entry.matcher
      /\ DOMAIN NotOurs(entry).hooks = DOMAIN entry.hooks
      /\ \A j \in DOMAIN entry.hooks : NotOurs(entry).hooks[j] = entry.hooks[j]
  BY NotOursIs
<1>2. NotOurs(entry).hooks \in Hooks /\ entry.hooks \in Hooks
  BY <1>1 DEF Entries
<1>3. NotOurs(entry).hooks = entry.hooks
  <2>1. /\ NotOurs(entry).hooks = [j \in DOMAIN entry.hooks |-> NotOurs(entry).hooks[j]]
        /\ entry.hooks = [j \in DOMAIN entry.hooks |-> entry.hooks[j]]
    BY <1>1, <1>2, HooksAre
  <2>2. [j \in DOMAIN entry.hooks |-> NotOurs(entry).hooks[j]] = [j \in DOMAIN entry.hooks |-> entry.hooks[j]]
    BY <1>1
  <2> QED  BY <2>1, <2>2
<1> QED  BY <1>1, <1>3 DEF Entries

LEMMA MergeTwice ==
    ASSUME NEW list \in Lists, NEW e \in Events
    PROVE  Merge(e, Merge(e, list)) = Merge(e, list)
<1> DEFINE kept == Kept(list)  new == Merge(e, list)
<1>1. kept \in Lists /\ new = WithOurs(e, kept)
  BY KeptIs DEF Merge
<1>2. \A k \in DOMAIN kept : /\ kept[k] \in Entries /\ TheirsIn(kept[k].hooks) = DOMAIN kept[k].hooks
                             /\ DOMAIN kept[k].hooks # {}
  <2> SUFFICES ASSUME NEW k \in DOMAIN kept
               PROVE  /\ kept[k] \in Entries /\ TheirsIn(kept[k].hooks) = DOMAIN kept[k].hooks
                      /\ DOMAIN kept[k].hooks # {}
    OBVIOUS
  <2>1. k \in KeptPlaces(list) /\ list[k] \in Entries /\ kept[k] = NotOurs(list[k])
    BY KeptIs, ListsAre DEF KeptPlaces
  <2>2. /\ kept[k] \in Entries /\ DOMAIN kept[k].hooks = TheirsIn(list[k].hooks)
        /\ \A j \in TheirsIn(list[k].hooks) : kept[k].hooks[j] = list[k].hooks[j]
    BY <2>1, NotOursIs
  <2> QED  BY <2>1, <2>2 DEF TheirsIn, KeptPlaces
<1>3. /\ new \in Lists /\ DOMAIN new = {Front(kept)} \cup DOMAIN kept
      /\ new[Front(kept)] = OurEntry(e) /\ \A k \in DOMAIN kept : new[k] = kept[k]
      /\ Front(kept) \notin DOMAIN kept
  <2> HIDE DEF kept, new
  <2>1. /\ WithOurs(e, kept) \in Lists
        /\ Front(kept) \in DOMAIN WithOurs(e, kept) \ DOMAIN kept
        /\ DOMAIN WithOurs(e, kept) = {Front(kept)} \cup DOMAIN kept
        /\ WithOurs(e, kept)[Front(kept)] = OurEntry(e)
        /\ \A k \in DOMAIN kept : WithOurs(e, kept)[k] = kept[k]
    BY <1>1, OursIsNotTheirs
  <2> QED  BY <1>1, <2>1
<1>4. kept = [k \in DOMAIN kept |-> kept[k]]
  BY <1>1, ListsAre
<1> HIDE DEF kept, new
<1>5. KeptPlaces(new) = DOMAIN kept
  BY <1>2, <1>3, OurEntryIs DEF KeptPlaces
<1>6. /\ DOMAIN Kept(new) = DOMAIN kept /\ Kept(new) = [k \in DOMAIN Kept(new) |-> Kept(new)[k]]
      /\ \A k \in DOMAIN kept : Kept(new)[k] = kept[k]
  <2>1. /\ Kept(new) \in Lists /\ DOMAIN Kept(new) = DOMAIN kept
        /\ \A k \in DOMAIN kept : Kept(new)[k] = NotOurs(new[k])
    BY <1>3, <1>5, KeptIs
  <2>2. \A k \in DOMAIN kept : NotOurs(new[k]) = kept[k]
    BY <1>2, <1>3, NotOursTwice
  <2> QED  BY <2>1, <2>2, ListsAre
<1>7. Kept(new) = kept
  BY <1>4, <1>6
<1> QED  BY <1>1, <1>7 DEF Merge, new
-----------------------------------------------------------------------------
(* The same of a file.                                                      *)

Settings == [Events -> Lists]
Trust == [approved : SUBSET Projects, others : SUBSET Foreign]
ContentOf(f) == IF f[1] = "mcp" THEN Servers ELSE IF f[1] = "settings" THEN Settings ELSE Trust

LEMMA FilesAre ==
    /\ Approvals \in Files /\ Approvals[1] = "approvals"
    /\ \A f \in Files : \/ f[1] \in {"mcp", "settings"} /\ f # Approvals
                        \/ f[1] = "approvals" /\ f = Approvals
    /\ \A p \in Projects : \A k \in 1 .. 3 :
          FileOf(Kinds[k], p) \in Files /\ FileOf(Kinds[k], p)[1] = Kinds[k]
    /\ Kinds[1] = "mcp" /\ Kinds[2] = "settings" /\ Kinds[3] = "approvals"
    /\ Len(Kinds) = 3 /\ DOMAIN Kinds = 1 .. 3
<1>1. /\ Kinds[1] = "mcp" /\ Kinds[2] = "settings" /\ Kinds[3] = "approvals"
      /\ Len(Kinds) = 3 /\ DOMAIN Kinds = 1 .. 3
  BY DEF Kinds
<1>2. Approvals \in Files /\ Approvals[1] = "approvals"
  BY DEF Files, Approvals
<1>3. \A f \in Files : \/ f[1] \in {"mcp", "settings"} /\ f # Approvals
                       \/ f[1] = "approvals" /\ f = Approvals
  BY DEF Files, Approvals
<1>4. ASSUME NEW p \in Projects, NEW k \in 1 .. 3
      PROVE  FileOf(Kinds[k], p) \in Files /\ FileOf(Kinds[k], p)[1] = Kinds[k]
  <2>1. k = 1 \/ k = 2 \/ k = 3
    OBVIOUS
  <2>2. Kinds[k] = "approvals" \/ (Kinds[k] \in {"mcp", "settings"} /\ Kinds[k] # "approvals")
    BY <1>1, <2>1
  <2>3. CASE Kinds[k] = "approvals"
    BY <1>2, <2>3 DEF FileOf
  <2>4. CASE Kinds[k] \in {"mcp", "settings"} /\ Kinds[k] # "approvals"
    <3>1. FileOf(Kinds[k], p) = <<Kinds[k], p>>
      BY <2>4 DEF FileOf
    <3>2. <<Kinds[k], p>> \in {"mcp", "settings"} \X Projects
      BY <2>4
    <3> QED  BY <3>1, <3>2 DEF Files
  <2> QED  BY <2>2, <2>3, <2>4
<1> QED  BY <1>1, <1>2, <1>3, <1>4

LEMMA MergedIs ==
    ASSUME NEW f \in Files, NEW p \in Projects, NEW c \in ContentOf(f)
    PROVE  /\ Merged(f, p, c) \in ContentOf(f)
           /\ Theirs(f, Merged(f, p, c)) = Theirs(f, c)
           /\ WiredIn(f, p, Merged(f, p, c))
           /\ Merged(f, p, Merged(f, p, c)) = Merged(f, p, c)
<1>1. CASE f[1] = "mcp"
  <2>1. c \in Servers /\ Merged(f, p, c) = WithServer(c)
    BY <1>1 DEF ContentOf, Merged
  <2>2. /\ WithServer(c) \in Servers /\ WithServer(c).others = c.others /\ WithServer(c).ours = "now"
        /\ WithServer(WithServer(c)) = WithServer(c)
    BY <2>1 DEF WithServer, Servers
  <2> QED  BY <1>1, <2>1, <2>2 DEF ContentOf, Merged, Theirs, WiredIn
<1>2. CASE f[1] = "settings"
  <2>1. c \in Settings /\ Merged(f, p, c) = WithHooks(c)
    BY <1>2 DEF ContentOf, Merged
  <2>2. \A e \in Events : c[e] \in Lists
    BY <2>1 DEF Settings
  <2>3. WithHooks(c) \in Settings /\ \A e \in Events : WithHooks(c)[e] = Merge(e, c[e])
    BY <2>2, MergeKeepsTheirs DEF WithHooks, Settings
  <2>4. Theirs(f, WithHooks(c)) = Theirs(f, c)
    <3>1. \A e \in Events : TheirHooks(WithHooks(c)[e]) = TheirHooks(c[e])
      BY <2>2, <2>3, MergeKeepsTheirs
    <3>2. [e \in Events |-> TheirHooks(WithHooks(c)[e])] = [e \in Events |-> TheirHooks(c[e])]
      BY <3>1
    <3> QED  BY <1>2, <3>2 DEF Theirs
  <2>5. WiredIn(f, p, WithHooks(c))
    BY <1>2, <2>2, <2>3, MergeWires DEF WiredIn
  <2>6. WithHooks(WithHooks(c)) = WithHooks(c)
    <3>1. \A e \in Events : Merge(e, WithHooks(c)[e]) = Merge(e, c[e])
      BY <2>2, <2>3, MergeTwice
    <3>2. [e \in Events |-> Merge(e, WithHooks(c)[e])] = [e \in Events |-> Merge(e, c[e])]
      BY <3>1
    <3> QED  BY <3>2 DEF WithHooks
  <2>7. Merged(f, p, Merged(f, p, c)) = WithHooks(WithHooks(c))
    BY <1>2, <2>1 DEF Merged
  <2> QED  BY <1>2, <2>1, <2>3, <2>4, <2>5, <2>6, <2>7 DEF ContentOf
<1>3. CASE f[1] = "approvals"
  <2>1. c \in Trust /\ Merged(f, p, c) = WithApproval(c, p)
    BY <1>3 DEF ContentOf, Merged
  <2>2. /\ WithApproval(c, p) \in Trust /\ WithApproval(c, p).others = c.others
        /\ p \in WithApproval(c, p).approved /\ WithApproval(WithApproval(c, p), p) = WithApproval(c, p)
    BY <2>1 DEF WithApproval, Trust
  <2> QED  BY <1>3, <2>1, <2>2 DEF ContentOf, Merged, Theirs, WiredIn
<1> QED  BY <1>1, <1>2, <1>3, FilesAre

LEMMA EmptyListIs == <<>> \in Lists
<1>1. DOMAIN <<>> = {} /\ <<>> = [i \in DOMAIN <<>> |-> <<>>[i]]
  OBVIOUS
<1>2. Bounded(DOMAIN <<>>)
  BY <1>1, 0 \in Int DEF Bounded
<1> QED  BY <1>1, <1>2, ListsAre

LEMMA EmptyIs ==
    ASSUME NEW f \in Files
    PROVE  Empty(f[1]) \in ContentOf(f)
<1>1. CASE f[1] = "mcp"
  BY <1>1 DEF Empty, ContentOf, Servers
<1>2. CASE f[1] = "settings"
  BY <1>2, EmptyListIs DEF Empty, ContentOf, Settings, NoSettings
<1>3. CASE f[1] = "approvals"
  BY <1>3 DEF Empty, ContentOf, Trust
<1> QED  BY <1>1, <1>2, <1>3, FilesAre

LEMMA GivenIs ==
    ASSUME NEW had \in Given
    PROVE  had.mcp \in Servers /\ had.settings \in Settings
<1> DEFINE E == [matcher : Matchers, hooks : Seq(Commands)]
<1>1. had.mcp \in Servers /\ had.settings \in [Events -> Seq(E)]
  BY GivenAssumption
<1>2. ASSUME NEW h \in Seq(Commands) PROVE h \in Hooks
  <2>1. h \in [1 .. Len(h) -> Commands] /\ Len(h) \in Nat
    BY LenProperties
  <2>2. 1 .. Len(h) \subseteq Int
    OBVIOUS
  <2> QED  BY <2>1, <2>2 DEF Hooks
<1>3. E \subseteq Entries
  BY <1>2 DEF Entries
<1> HIDE DEF E
<1>4. ASSUME NEW list \in Seq(E) PROVE list \in Lists
  <2>1. list \in [1 .. Len(list) -> E] /\ Len(list) \in Nat
    BY LenProperties
  <2>2. 1 .. Len(list) \subseteq Int /\ Bounded(1 .. Len(list))
    BY <2>1 DEF Bounded
  <2>3. DOMAIN list = 1 .. Len(list) /\ list = [i \in DOMAIN list |-> list[i]]
        /\ \A i \in DOMAIN list : list[i] \in Entries
    BY <1>3, <2>1
  <2> QED  BY <2>2, <2>3, ListsAre
<1> QED  BY <1>1, <1>4 DEF Settings

\* What others put there is not taken for ours.
LEMMA EditedIs ==
    ASSUME NEW f \in Files, NEW p, NEW c \in ContentOf(f), NEW x \in Foreign, NEW new \in Edited(f, c, x)
    PROVE  new \in ContentOf(f) /\ (WiredIn(f, p, c) => WiredIn(f, p, new))
<1>1. CASE f[1] = "settings"
  <2> DEFINE entry == [matcher |-> "", hooks |-> <<Hook(x, "theirs")>>]
  <2>1. c \in Settings /\ "Stop" \in Events /\ c["Stop"] \in Lists
    BY <1>1 DEF ContentOf, Settings, Events, Ours
  <2>2. PICK i \in Places \ DOMAIN c.Stop : new = [c EXCEPT !.Stop = Put(c.Stop, i, entry)]
    BY <1>1 DEF Edited
  <2>3. /\ DOMAIN entry.hooks \subseteq Int /\ entry.hooks = [j \in DOMAIN entry.hooks |-> entry.hooks[j]]
        /\ \A j \in DOMAIN entry.hooks : entry.hooks[j] = Hook(x, "theirs")
    OBVIOUS
  <2>4. Hook(x, "theirs") \in Commands /\ Hook(x, "theirs").name \notin Scripts
    BY ForeignAssumption DEF Hook, Commands
  <2>5. entry.hooks \in Hooks /\ entry.matcher \in Matchers
    <3>1. \A j \in DOMAIN entry.hooks : entry.hooks[j] \in Commands
      BY <2>3, <2>4
    <3>2. entry.hooks \in Hooks
      <4> DEFINE hooks == entry.hooks
      <4> HIDE DEF hooks
      <4>1. hooks \in Hooks
        BY <2>3, <3>1, HooksAre DEF hooks
      <4> QED  BY <4>1 DEF hooks
    <3> QED  BY <3>2, HooksAssumption
  <2>6. entry \in Entries /\ \A h \in Range(entry.hooks) : h.name \notin Scripts
    BY <2>3, <2>4, <2>5 DEF Entries, Range
  <2> HIDE DEF entry
  <2>7. i \in Int /\ i \notin DOMAIN c["Stop"]
    BY <2>2, HooksAssumption
  <2>8. /\ Put(c["Stop"], i, entry) \in Lists
        /\ DOMAIN Put(c["Stop"], i, entry) = {i} \cup DOMAIN c["Stop"]
        /\ Put(c["Stop"], i, entry)[i] = entry
        /\ \A k \in DOMAIN c["Stop"] \ {i} : Put(c["Stop"], i, entry)[k] = c["Stop"][k]
    BY <2>1, <2>6, <2>7, PutIsAList, ZenonT(30)
  <2>9. /\ new \in Settings /\ new["Stop"] = Put(c["Stop"], i, entry)
        /\ \A e \in Events \ {"Stop"} : new[e] = c[e]
    BY <2>1, <2>2, <2>8 DEF Settings
  <2>10. ASSUME WiredIn(f, p, c) PROVE WiredIn(f, p, new)
    <3>1. \A e \in Events : \E k \in DOMAIN c[e] :
             /\ c[e][k] = OurEntry(e)
             /\ \A l \in DOMAIN c[e] \ {k} : \A h \in Range(c[e][l].hooks) : h.name \notin Scripts
      BY <1>1, <2>10 DEF WiredIn
    <3>2. PICK k \in DOMAIN c["Stop"] :
             /\ c["Stop"][k] = OurEntry("Stop")
             /\ \A l \in DOMAIN c["Stop"] \ {k} : \A h \in Range(c["Stop"][l].hooks) : h.name \notin Scripts
      BY <2>1, <3>1
    <3>3. k \in DOMAIN new["Stop"] /\ new["Stop"][k] = OurEntry("Stop")
      BY <2>7, <2>8, <2>9, <3>2
    <3>4. \A l \in DOMAIN new["Stop"] \ {k} : \A h \in Range(new["Stop"][l].hooks) : h.name \notin Scripts
      BY <2>6, <2>7, <2>8, <2>9, <3>2
    <3>5. \A e \in Events : \E l \in DOMAIN new[e] :
             /\ new[e][l] = OurEntry(e)
             /\ \A m \in DOMAIN new[e] \ {l} : \A h \in Range(new[e][m].hooks) : h.name \notin Scripts
      BY <2>9, <3>1, <3>3, <3>4
    <3> QED  BY <1>1, <3>5 DEF WiredIn
  <2> QED  BY <1>1, <2>9, <2>10 DEF ContentOf
<1>2. CASE f[1] # "settings"
  <2>1. c \in Servers \cup Trust /\ c \in ContentOf(f) /\ ContentOf(f) \in {Servers, Trust}
    BY <1>2 DEF ContentOf
  <2>2. \E o \in SUBSET Foreign : new = [c EXCEPT !.others = o]
    <3>1. c.others \in SUBSET Foreign
      BY <2>1 DEF Servers, Trust
    <3>2. new = [c EXCEPT !.others = c.others \cup {x}] \/ new = [c EXCEPT !.others = c.others \ {x}]
      BY <1>2 DEF Edited
    <3> QED  BY <3>1, <3>2
  <2>3. CASE f[1] = "mcp"
    BY <2>2, <2>3 DEF ContentOf, Servers, WiredIn
  <2>4. CASE f[1] # "mcp"
    BY <1>2, <2>2, <2>4 DEF ContentOf, Trust, WiredIn
  <2> QED  BY <2>3, <2>4
<1> QED  BY <1>1, <1>2
-----------------------------------------------------------------------------
(* The types.  What a process holds of a file is of that file's kind.       *)

Contents == Servers \cup Settings \cup Trust
FileState == [whole : BOOLEAN, data : Contents]
WriterState == [pc : {"idle", "read", "open", "write", "done"}, step : 1 .. 3, todo : Seq(Projects),
                base : FileState, over : BOOLEAN, alone : BOOLEAN, warned : BOOLEAN]

FileSound(f, x) ==
    /\ x \in FileState /\ x.data \in ContentOf(f)
    /\ ~x.whole => x.data = Empty(f[1])

Aim(r) == FileOf(Kinds[r.step], Head(r.todo))

WriterSound(r) ==
    /\ r \in WriterState
    /\ r.pc # "idle" => r.todo # <<>>
    /\ r.pc \in {"open", "write"} => FileSound(Aim(r), r.base)

BootTypeOK ==
    /\ file \in [Files -> FileState]
    /\ \A f \in Files : FileSound(f, file[f])
    /\ writer \in [Writers -> WriterState]
    /\ \A w \in Writers : WriterSound(writer[w])
    /\ DOMAIN theirs = Files

LEMMA AimIs ==
    ASSUME NEW r, WriterSound(r), r.pc # "idle"
    PROVE  /\ Head(r.todo) \in Projects /\ Tail(r.todo) \in Seq(Projects)
           /\ Aim(r) \in Files /\ Aim(r)[1] = Kinds[r.step]
           /\ r.step \in 1 .. 3
<1>1. r.todo \in Seq(Projects) /\ r.todo # <<>> /\ r.step \in 1 .. 3
  BY DEF WriterSound, WriterState
<1>2. Head(r.todo) \in Projects /\ Tail(r.todo) \in Seq(Projects)
  BY <1>1, HeadTailProperties
<1> QED  BY <1>1, <1>2, FilesAre DEF Aim

LEMMA TargetIs ==
    ASSUME BootTypeOK, NEW w \in Writers, Busy(w)
    PROVE  /\ Project(w) \in Projects /\ Tail(writer[w].todo) \in Seq(Projects)
           /\ Target(w) \in Files /\ Target(w)[1] = Kind(w)
           /\ Target(w) = Aim(writer[w]) /\ Project(w) = Head(writer[w].todo)
           /\ writer[w].step \in 1 .. 3
           /\ FileSound(Target(w), file[Target(w)])
<1>1. WriterSound(writer[w]) /\ writer[w].pc # "idle"
  BY DEF BootTypeOK, Busy
<1> QED  BY <1>1, AimIs DEF BootTypeOK, Target, Project, Kind, Aim

LEMMA SoundContents ==
    ASSUME NEW f \in Files, NEW c \in ContentOf(f)
    PROVE  FileSound(f, Whole(c)) /\ FileSound(f, Torn(f))
  BY EmptyIs DEF FileSound, FileState, Whole, Torn, ContentOf, Contents

LEMMA IdleSound == WriterSound(WriterIdle) /\ WriterIdle.pc = "idle"
<1>1. NoSettings \in Settings
  BY EmptyListIs DEF NoSettings, Settings
<1>2. Whole(NoSettings) \in FileState
  BY <1>1 DEF Whole, FileState, Contents
<1>3. <<>> \in Seq(Projects)
  OBVIOUS
<1> QED  BY <1>2, <1>3 DEF WriterSound, WriterState, WriterIdle

\* What the others see of a step: they go on as before, no longer alone perhaps.
Stays(v) ==
    /\ writer'[v].pc = writer[v].pc /\ writer'[v].step = writer[v].step
    /\ writer'[v].todo = writer[v].todo /\ writer'[v].base = writer[v].base
    /\ writer'[v].warned = writer[v].warned
    /\ writer'[v].alone => writer[v].alone

OthersStay(w) == \A v \in Writers \ {w} : Stays(v)

LEMMA BeginsIs ==
    ASSUME BootTypeOK, NEW w \in Writers, NEW todo \in Seq(Projects), Begins(w, todo)
    PROVE  /\ writer' \in [Writers -> WriterState] /\ \A v \in Writers : WriterSound(writer'[v])
           /\ OthersStay(w)
           /\ \/ writer'[w].pc = "idle" /\ \A v \in Writers \ {w} : writer'[v] = writer[v]
              \/ /\ writer'[w].pc = "read" /\ writer'[w].step = 1
                 /\ ~writer'[w].over /\ ~writer'[w].warned
                 /\ writer'[w].alone => \A u \in Writers \ {w} : ~Busy(u)
                 /\ \A v \in Writers \ {w} : ~writer'[v].alone
<1>1. \A v \in Writers : writer[v] \in WriterState /\ WriterSound(writer[v])
  BY DEF BootTypeOK
<1>2. CASE todo = <<>>
  <2>1. writer' = [v \in Writers |-> IF v = w THEN WriterIdle ELSE writer[v]]
    BY <1>2 DEF Begins
  <2>2. writer'[w] = WriterIdle /\ \A v \in Writers \ {w} : writer'[v] = writer[v]
    BY <2>1
  <2>3. \A v \in Writers : WriterSound(writer'[v])
    BY <1>1, <2>2, IdleSound
  <2>4. writer' \in [Writers -> WriterState]
    BY <2>1, <2>3 DEF WriterSound
  <2> QED  BY <2>2, <2>3, <2>4, IdleSound DEF OthersStay, Stays
<1>3. CASE todo # <<>>
  <2> DEFINE alone == \A u \in Writers \ {w} : ~Busy(u)
             mine == [WriterIdle EXCEPT !.pc = "read", !.todo = todo, !.alone = alone]
  <2>1. writer' = [v \in Writers |-> IF v = w THEN mine ELSE [writer[v] EXCEPT !.alone = FALSE]]
    BY <1>3 DEF Begins
  <2>2. /\ mine.pc = "read" /\ mine.step = 1 /\ ~mine.over /\ ~mine.warned /\ mine.alone = alone
        /\ WriterSound(mine)
    <3>1. alone \in BOOLEAN
      OBVIOUS
    <3>2. WriterIdle \in WriterState /\ WriterIdle.step = 1 /\ ~WriterIdle.over /\ ~WriterIdle.warned
      BY IdleSound DEF WriterSound, WriterIdle
    <3> HIDE DEF alone
    <3> QED  BY <1>3, <3>1, <3>2 DEF WriterSound, WriterState
  <2>3. /\ writer'[w] = mine
        /\ \A v \in Writers \ {w} : writer'[v] = [writer[v] EXCEPT !.alone = FALSE]
    BY <2>1
  <2> HIDE DEF mine
  <2>4. ASSUME NEW v \in Writers \ {w}
        PROVE  WriterSound(writer'[v]) /\ Stays(v) /\ ~writer'[v].alone
    <3>1. writer[v] \in WriterState /\ writer'[v] = [writer[v] EXCEPT !.alone = FALSE] /\ WriterSound(writer[v])
      BY <1>1, <2>3
    <3>2. /\ writer'[v] \in WriterState /\ Stays(v) /\ ~writer'[v].alone
      BY <3>1 DEF WriterState, Stays
    <3> QED  BY <3>1, <3>2 DEF WriterSound, Aim, Stays
  <2>5. \A v \in Writers : WriterSound(writer'[v])
    BY <2>2, <2>3, <2>4
  <2>6. writer' \in [Writers -> WriterState]
    BY <2>1, <2>5 DEF WriterSound
  <2> QED  BY <2>2, <2>3, <2>4, <2>5, <2>6 DEF OthersStay
<1> QED  BY <1>2, <1>3

LEMMA FileDoneIs ==
    ASSUME BootTypeOK, NEW w \in Writers, Busy(w)
    PROVE  /\ WriterSound(FileDone(w))
           /\ FileDone(w).todo = writer[w].todo
           /\ FileDone(w).alone = writer[w].alone /\ FileDone(w).warned = writer[w].warned
           /\ \/ writer[w].step = 3 /\ FileDone(w).pc = "done"
              \/ /\ writer[w].step # 3 /\ FileDone(w).pc = "read"
                 /\ FileDone(w).step = writer[w].step + 1 /\ ~FileDone(w).over
<1>1. writer[w] \in WriterState /\ writer[w].todo # <<>>
  BY DEF BootTypeOK, WriterSound, Busy
<1>2. writer[w].step \in 1 .. 3 /\ Len(Kinds) = 3
  BY <1>1, FilesAre DEF WriterState
<1>3. CASE writer[w].step = 3
  <2>1. FileDone(w) = [writer[w] EXCEPT !.pc = "done"]
    BY <1>2, <1>3 DEF FileDone
  <2> QED  BY <1>1, <1>3, <2>1 DEF WriterSound, WriterState
<1>4. CASE writer[w].step # 3
  <2>1. FileDone(w) = [writer[w] EXCEPT !.pc = "read", !.step = writer[w].step + 1, !.over = FALSE]
    BY <1>2, <1>4 DEF FileDone
  <2>2. writer[w].step + 1 \in 1 .. 3
    BY <1>2, <1>4
  <2> QED  BY <1>1, <1>4, <2>1, <2>2 DEF WriterSound, WriterState
<1> QED  BY <1>3, <1>4

WriterMoves(w) ==
    /\ writer' \in [Writers -> WriterState] /\ \A v \in Writers : WriterSound(writer'[v])
    /\ OthersStay(w)

\* One process moves and marks its rivals R, if any.
Moves(w, r, R) ==
    writer' = [v \in Writers |-> IF v = w THEN r
                                 ELSE IF v \in R THEN [writer[v] EXCEPT !.over = TRUE]
                                 ELSE writer[v]]

LEMMA MovesIs ==
    ASSUME BootTypeOK, NEW w \in Writers, NEW r, WriterSound(r), NEW R, Moves(w, r, R)
    PROVE  /\ WriterMoves(w) /\ writer'[w] = r
           /\ \A v \in Writers \ {w} : v \notin R => writer'[v] = writer[v]
<1> USE DEF Moves
<1>1. \A v \in Writers : writer[v] \in WriterState /\ WriterSound(writer[v])
  BY DEF BootTypeOK
<1>2. writer'[w] = r
  OBVIOUS
<1>3. ASSUME NEW v \in Writers \ {w} PROVE WriterSound(writer'[v]) /\ Stays(v)
  <2>1. CASE v \in R
    <3>1. writer'[v] = [writer[v] EXCEPT !.over = TRUE] /\ writer[v] \in WriterState /\ WriterSound(writer[v])
      BY <1>1, <1>3, <2>1
    <3>2. writer'[v] \in WriterState /\ Stays(v)
      BY <3>1 DEF WriterState, Stays
    <3> QED  BY <3>1, <3>2 DEF WriterSound, Aim, Stays
  <2>2. CASE v \notin R
    <3>1. writer'[v] = writer[v] /\ WriterSound(writer[v])
      BY <1>1, <1>3, <2>2
    <3> QED  BY <3>1 DEF Stays
  <2> QED  BY <2>1, <2>2
<1>4. \A v \in Writers : WriterSound(writer'[v])
  BY <1>2, <1>3
<1>5. writer' \in [Writers -> WriterState]
  BY <1>4 DEF WriterSound
<1>6. \A v \in Writers \ {w} : v \notin R => writer'[v] = writer[v]
  OBVIOUS
<1> QED  BY <1>2, <1>3, <1>4, <1>5, <1>6 DEF OthersStay, WriterMoves

LEMMA ReadsIs ==
    ASSUME BootTypeOK, NEW w \in Writers, Reads(w)
    PROVE  /\ WriterMoves(w) /\ \A v \in Writers \ {w} : writer'[v] = writer[v]
           /\ \/ /\ writer'[w] = FileDone(w) /\ Target(w) = Approvals
                 /\ Project(w) \in file[Approvals].data.approved
              \/ /\ writer'[w].pc = "open" /\ writer'[w].base = file[Target(w)]
                 /\ writer'[w].step = writer[w].step /\ writer'[w].todo = writer[w].todo
                 /\ writer'[w].over = writer[w].over /\ writer'[w].alone = writer[w].alone
                 /\ writer'[w].warned = writer[w].warned
<1>1. Busy(w) /\ writer[w] \in WriterState /\ WriterSound(writer[w]) /\ writer \in [Writers -> WriterState]
  BY DEF Reads, Busy, BootTypeOK
<1>2. CASE Target(w) = Approvals /\ Project(w) \in file[Approvals].data.approved
  <2>1. writer' = [writer EXCEPT ![w] = FileDone(w)]
    BY <1>2 DEF Reads
  <2>2. WriterSound(FileDone(w))
    BY <1>1, FileDoneIs
  <2>3. Moves(w, FileDone(w), {})
    BY <1>1, <2>1 DEF Moves
  <2> QED  BY <1>2, <2>2, <2>3, MovesIs
<1>3. CASE ~(Target(w) = Approvals /\ Project(w) \in file[Approvals].data.approved)
  <2> DEFINE r == [writer[w] EXCEPT !.pc = "open", !.base = file[Target(w)]]
  <2>1. writer' = [writer EXCEPT ![w] = r]
    BY <1>3 DEF Reads
  <2>2. FileSound(Target(w), file[Target(w)]) /\ Target(w) = Aim(writer[w])
    BY <1>1, TargetIs
  <2>3. file[Target(w)] \in FileState
    BY <2>2 DEF FileSound
  <2>4. /\ r \in WriterState /\ r.pc = "open" /\ r.base = file[Target(w)] /\ r.step = writer[w].step
        /\ r.todo = writer[w].todo /\ r.over = writer[w].over /\ r.alone = writer[w].alone
        /\ r.warned = writer[w].warned
    BY <1>1, <2>3 DEF WriterState
  <2>5. writer[w].todo # <<>>
    BY <1>1 DEF WriterSound, Busy
  <2> HIDE DEF r
  <2>6. WriterSound(r)
    BY <2>2, <2>4, <2>5 DEF WriterSound, Aim
  <2>7. Moves(w, r, {})
    BY <1>1, <2>1 DEF Moves
  <2>8. WriterMoves(w) /\ writer'[w] = r /\ \A v \in Writers \ {w} : writer'[v] = writer[v]
    BY <2>6, <2>7, MovesIs
  <2> QED  BY <2>4, <2>8
<1> QED  BY <1>2, <1>3

LEMMA TruncatesIs ==
    ASSUME BootTypeOK, NEW w \in Writers, Truncates(w)
    PROVE  /\ WriterMoves(w)
           /\ \A v \in Writers \ {w} : v \notin Rivals(w) => writer'[v] = writer[v]
           /\ writer'[w].pc = "write" /\ writer'[w].base = writer[w].base
           /\ writer'[w].step = writer[w].step /\ writer'[w].todo = writer[w].todo
           /\ writer'[w].over = (Rivals(w) # {}) /\ writer'[w].alone = writer[w].alone
           /\ writer'[w].warned = writer[w].warned
<1> DEFINE r == [writer[w] EXCEPT !.pc = "write", !.over = Rivals(w) # {}]
<1>1. writer[w] \in WriterState /\ WriterSound(writer[w]) /\ writer[w].pc = "open"
  BY DEF Truncates, BootTypeOK
<1>2. (Rivals(w) # {}) \in BOOLEAN
  OBVIOUS
<1>3. /\ r \in WriterState /\ r.pc = "write" /\ r.base = writer[w].base /\ r.step = writer[w].step
      /\ r.todo = writer[w].todo /\ r.over = (Rivals(w) # {}) /\ r.alone = writer[w].alone
      /\ r.warned = writer[w].warned
  <2> HIDE DEF Rivals
  <2> QED  BY <1>1, <1>2 DEF WriterState
<1>4. Moves(w, r, Rivals(w))
  BY DEF Truncates, Moves
<1> HIDE DEF r
<1>5. WriterSound(r)
  BY <1>1, <1>3 DEF WriterSound, Aim
<1>6. /\ WriterMoves(w) /\ writer'[w] = r
      /\ \A v \in Writers \ {w} : v \notin Rivals(w) => writer'[v] = writer[v]
  BY <1>4, <1>5, MovesIs
<1> QED  BY <1>3, <1>6

LEMMA WritesIs ==
    ASSUME BootTypeOK, NEW w \in Writers, Writes(w)
    PROVE  /\ WriterMoves(w) /\ writer'[w] = FileDone(w)
           /\ \A v \in Writers \ {w} : v \notin Rivals(w) => writer'[v] = writer[v]
<1>1. Busy(w)
  BY DEF Writes, Busy
<1>2. WriterSound(FileDone(w))
  BY <1>1, FileDoneIs
<1>3. Moves(w, FileDone(w), Rivals(w))
  BY DEF Writes, Moves
<1> QED  BY <1>2, <1>3, MovesIs

LEMMA FailsIs ==
    ASSUME BootTypeOK, NEW w \in Writers, Fails(w)
    PROVE  \/ /\ WriterMoves(w) /\ \A v \in Writers \ {w} : writer'[v] = writer[v]
              /\ writer'[w].pc = "done" /\ writer'[w].warned /\ writer'[w].step = 3
              /\ writer[w].step = 3
              /\ writer'[w].todo = writer[w].todo /\ writer'[w].alone = writer[w].alone
           \/ Begins(w, Tail(writer[w].todo))
<1> DEFINE r == [writer[w] EXCEPT !.pc = "done", !.warned = TRUE]
<1>1. /\ writer[w] \in WriterState /\ WriterSound(writer[w]) /\ writer \in [Writers -> WriterState]
      /\ Busy(w)
  BY DEF Fails, BootTypeOK, Busy
<1>2. CASE Kind(w) = "approvals" /\ writer' = [writer EXCEPT ![w].pc = "done", ![w].warned = TRUE]
  <2>1. writer[w].step = 3
    BY <1>1, <1>2, FilesAre DEF Kind, WriterState
  <2>2. /\ r \in WriterState /\ r.pc = "done" /\ r.warned /\ r.step = 3
        /\ r.todo = writer[w].todo /\ r.alone = writer[w].alone
    BY <1>1, <2>1 DEF WriterState
  <2>3. writer[w].todo # <<>>
    BY <1>1 DEF WriterSound, Busy
  <2>4. Moves(w, r, {})
    BY <1>1, <1>2 DEF WriterState, Moves
  <2> HIDE DEF r
  <2>5. WriterSound(r)
    BY <2>2, <2>3 DEF WriterSound
  <2>6. WriterMoves(w) /\ writer'[w] = r /\ \A v \in Writers \ {w} : writer'[v] = writer[v]
    BY <2>4, <2>5, MovesIs
  <2> QED  BY <2>1, <2>2, <2>6
<1> QED  BY <1>2 DEF Fails

LEMMA CrashesIs ==
    ASSUME BootTypeOK, NEW w \in Writers, Crashes(w)
    PROVE  WriterMoves(w) /\ writer'[w].pc = "idle" /\ \A v \in Writers \ {w} : writer'[v] = writer[v]
<1>1. writer \in [Writers -> WriterState]
  BY DEF BootTypeOK
<1>2. Moves(w, WriterIdle, {})
  BY <1>1 DEF Crashes, Moves
<1> QED  BY <1>2, IdleSound, MovesIs

LEMMA BootTypesInit == BootInit => BootTypeOK
<1> SUFFICES ASSUME BootInit PROVE BootTypeOK
  OBVIOUS
<1>1. PICK had \in [Projects -> Given] :
         file = [f \in Files |-> Whole(IF f = Approvals THEN [approved |-> {}, others |-> Foreign]
                                       ELSE had[f[2]][f[1]])]
  BY DEF BootInit
<1>2. ASSUME NEW f \in Files PROVE FileSound(f, file[f])
  <2>1. CASE f = Approvals
    <3>1. [approved |-> {}, others |-> Foreign] \in ContentOf(f)
      BY <2>1, FilesAre DEF ContentOf, Trust
    <3> QED  BY <1>1, <2>1, <3>1, SoundContents
  <2>2. CASE f # Approvals
    <3>1. f[2] \in Projects /\ f[1] \in {"mcp", "settings"}
      BY <2>2 DEF Files
    <3>2. had[f[2]] \in Given
      BY <3>1
    <3>3. had[f[2]][f[1]] \in ContentOf(f)
      BY <3>1, <3>2, GivenIs DEF ContentOf
    <3> QED  BY <1>1, <2>2, <3>3, SoundContents
  <2> QED  BY <2>1, <2>2
<1>3. file \in [Files -> FileState]
  BY <1>1, <1>2 DEF FileSound
<1>4. writer \in [Writers -> WriterState] /\ \A w \in Writers : WriterSound(writer[w])
  BY IdleSound DEF BootInit, WriterSound
<1>5. DOMAIN theirs = Files
  BY DEF BootInit
<1> QED  BY <1>2, <1>3, <1>4, <1>5 DEF BootTypeOK

\* What becomes of the files: one at most changes.
OnlyFile(g, x) ==
    /\ file' \in [Files -> FileState] /\ file'[g] = x
    /\ \A f \in Files \ {g} : file'[f] = file[f]

LEMMA TruncatesFile ==
    ASSUME BootTypeOK, NEW w \in Writers, Truncates(w)
    PROVE  /\ OnlyFile(Target(w), Torn(Target(w))) /\ \A f \in Files : FileSound(f, file'[f])
           /\ UNCHANGED theirs /\ hurt \subseteq hurt'
           /\ Target(w) \notin hurt' => file[Target(w)] = writer[w].base /\ Rivals(w) = {}
<1>1. Target(w) \in Files /\ FileSound(Target(w), Torn(Target(w)))
  <2>1. Target(w) \in Files /\ FileSound(Target(w), file[Target(w)])
    BY TargetIs DEF Truncates, Busy
  <2> QED  BY <2>1, SoundContents DEF FileSound
<1>2. file' = [file EXCEPT ![Target(w)] = Torn(Target(w))]
  BY DEF Truncates
<1>3. OnlyFile(Target(w), Torn(Target(w)))
  BY <1>1, <1>2 DEF OnlyFile, FileSound, BootTypeOK
<1>4. \A f \in Files : FileSound(f, file'[f])
  BY <1>1, <1>3 DEF OnlyFile, BootTypeOK
<1> QED  BY <1>3, <1>4 DEF Truncates

LEMMA WritesFile ==
    ASSUME BootTypeOK, NEW w \in Writers, Writes(w)
    PROVE  LET f == Target(w)
               new == Merged(f, Project(w), writer[w].base.data)
           IN  /\ OnlyFile(f, Whole(new)) \/ (writer[w].over /\ OnlyFile(f, Torn(f)))
               /\ \A g \in Files : FileSound(g, file'[g])
               /\ Theirs(f, new) = Theirs(f, writer[w].base.data)
               /\ WiredIn(f, Project(w), new)
<1> DEFINE f == Target(w)
           new == Merged(f, Project(w), writer[w].base.data)
<1>1. /\ f \in Files /\ Project(w) \in Projects /\ f = Aim(writer[w])
      /\ writer[w].pc = "write" /\ WriterSound(writer[w])
  BY TargetIs DEF Writes, Busy, BootTypeOK
<1>2. writer[w].base.data \in ContentOf(f)
  BY <1>1 DEF WriterSound, FileSound
<1>3. /\ new \in ContentOf(f) /\ Theirs(f, new) = Theirs(f, writer[w].base.data)
      /\ WiredIn(f, Project(w), new)
  <2> HIDE DEF f
  <2> QED  BY <1>1, <1>2, MergedIs
<1>4. FileSound(f, Whole(new)) /\ FileSound(f, Torn(f))
  BY <1>1, <1>3, SoundContents
<1>5. \/ file' = [file EXCEPT ![f] = Whole(new)]
      \/ writer[w].over /\ file' = [file EXCEPT ![f] = Torn(f)]
  BY DEF Writes
<1> HIDE DEF f, new
<1>6. ASSUME NEW x, FileSound(f, x), file' = [file EXCEPT ![f] = x]
      PROVE  OnlyFile(f, x) /\ \A g \in Files : FileSound(g, file'[g])
  <2>1. OnlyFile(f, x)
    BY <1>1, <1>6 DEF OnlyFile, FileSound, BootTypeOK
  <2> QED  BY <1>1, <1>6, <2>1 DEF OnlyFile, BootTypeOK
<1>7. /\ OnlyFile(f, Whole(new)) \/ (writer[w].over /\ OnlyFile(f, Torn(f)))
      /\ \A g \in Files : FileSound(g, file'[g])
  BY <1>4, <1>5, <1>6
<1> QED  BY <1>3, <1>7 DEF f, new

LEMMA EditsFile ==
    ASSUME BootTypeOK, NEW f \in Files, Edits(f)
    PROVE  /\ file[f].whole
           /\ \E new \in ContentOf(f) :
                 /\ OnlyFile(f, Whole(new))
                 /\ theirs'[f] = Theirs(f, new)
                 /\ \A p : WiredIn(f, p, file[f].data) => WiredIn(f, p, new)
           /\ \A g \in Files : FileSound(g, file'[g])
           /\ \A g \in Files \ {f} : theirs'[g] = theirs[g]
           /\ DOMAIN theirs' = Files
           /\ UNCHANGED <<writer, hurt>>
<1>1. PICK new \in UNION {Edited(f, file[f].data, x) : x \in Foreign} :
         file' = [file EXCEPT ![f] = Whole(new)] /\ theirs' = [theirs EXCEPT ![f] = Theirs(f, new)]
  BY DEF Edits
<1>2. PICK x \in Foreign : new \in Edited(f, file[f].data, x)
  OBVIOUS
<1>3. file[f].data \in ContentOf(f) /\ DOMAIN theirs = Files
  BY DEF BootTypeOK, FileSound
<1>4. new \in ContentOf(f) /\ \A p : WiredIn(f, p, file[f].data) => WiredIn(f, p, new)
  BY <1>2, <1>3, EditedIs
<1>5. FileSound(f, Whole(new))
  BY <1>4, SoundContents
<1>6. OnlyFile(f, Whole(new))
  BY <1>1, <1>5 DEF OnlyFile, FileSound, BootTypeOK
<1>7. \A g \in Files : FileSound(g, file'[g])
  BY <1>5, <1>6 DEF OnlyFile, BootTypeOK
<1>8. /\ theirs'[f] = Theirs(f, new) /\ DOMAIN theirs' = Files
      /\ \A g \in Files \ {f} : theirs'[g] = theirs[g]
  BY <1>1, <1>3
<1> QED  BY <1>4, <1>6, <1>7, <1>8 DEF Edits

\* Those that touch no file.
Restarts(w) == Starts(w) \/ Returns(w) \/ Fails(w) \/ Crashes(w)

LEMMA RestartsIs ==
    ASSUME BootTypeOK, NEW w \in Writers, Restarts(w)
    PROVE  /\ WriterMoves(w) /\ UNCHANGED <<file, theirs, hurt>>
           /\ writer'[w].pc \in {"idle", "read", "done"}
<1>1. CASE Starts(w)
  <2>1. Route[w] \in Seq(Projects)
    BY RouteAssumption
  <2> QED  BY <1>1, <2>1, BeginsIs DEF Starts, WriterMoves
<1>2. Busy(w) => Tail(writer[w].todo) \in Seq(Projects)
  BY TargetIs
<1>3. CASE Returns(w)
  BY <1>2, <1>3, BeginsIs DEF Returns, WriterMoves, Busy
<1>4. CASE Fails(w)
  <2>1. CASE Begins(w, Tail(writer[w].todo))
    BY <1>2, <1>4, <2>1, BeginsIs DEF Fails, WriterMoves, Busy
  <2>2. CASE ~Begins(w, Tail(writer[w].todo))
    BY <1>4, <2>2, FailsIs DEF Fails
  <2> QED  BY <2>1, <2>2
<1>5. CASE Crashes(w)
  BY <1>5, CrashesIs DEF Crashes
<1> QED  BY <1>1, <1>3, <1>4, <1>5 DEF Restarts

LEMMA BootTypesStep ==
    ASSUME BootTypeOK, [BootNext]_bootVars
    PROVE  BootTypeOK'
<1>1. ASSUME NEW w \in Writers, Restarts(w) PROVE BootTypeOK'
  BY <1>1, RestartsIs DEF WriterMoves, BootTypeOK
<1>2. ASSUME NEW w \in Writers, Reads(w) PROVE BootTypeOK'
  BY <1>2, ReadsIs DEF WriterMoves, BootTypeOK, Reads
<1>3. ASSUME NEW w \in Writers, Truncates(w) PROVE BootTypeOK'
  BY <1>3, TruncatesIs, TruncatesFile DEF WriterMoves, BootTypeOK, OnlyFile
<1>4. ASSUME NEW w \in Writers, Writes(w) PROVE BootTypeOK'
  BY <1>4, WritesIs, WritesFile DEF WriterMoves, BootTypeOK, OnlyFile, Writes
<1>5. ASSUME NEW f \in Files, Edits(f) PROVE BootTypeOK'
  BY <1>5, EditsFile DEF BootTypeOK, OnlyFile
<1>6. CASE UNCHANGED bootVars
  BY <1>6 DEF bootVars, BootTypeOK
<1> QED  BY <1>1, <1>2, <1>3, <1>4, <1>5, <1>6 DEF BootNext, Restarts
-----------------------------------------------------------------------------
(* What others have put in a file stays there.  A file that is whole holds  *)
(* it; one that is cut short without their part having been at risk is in   *)
(* the hands of the only process that writes it, which holds it.            *)

WholeKept(f) == file[f].whole => Theirs(f, file[f].data) = theirs[f]

HeldKept(f, w) ==
    Target(w) = f =>
        /\ writer[w].pc \in {"open", "write"} => writer[w].base.whole
        /\ writer[w].pc = "write" =>
              /\ ~file[f].whole
              /\ Theirs(f, writer[w].base.data) = theirs[f]
              /\ Rivals(w) = {}

KeptInv == \A f \in Files \ hurt : WholeKept(f) /\ \A w \in Writers : HeldKept(f, w)

LEMMA TargetStays ==
    ASSUME NEW v, writer'[v].step = writer[v].step, writer'[v].todo = writer[v].todo
    PROVE  Target(v)' = Target(v) /\ Project(v)' = Project(v) /\ Kind(v)' = Kind(v)
  BY DEF Target, Project, Kind

\* A step of w to somewhere else leaves what v has in hand as it is.
LEMMA HeldStays ==
    ASSUME NEW f, NEW w \in Writers, NEW v \in Writers \ {w}, OthersStay(w),
           HeldKept(f, v), file'[f] = file[f], theirs'[f] = theirs[f],
           writer'[w].pc # "write" \/ Target(w)' # f
    PROVE  HeldKept(f, v)'
<1> SUFFICES ASSUME Target(v)' = f PROVE HeldKept(f, v)'
  BY DEF HeldKept
<1>1. \A u \in Writers \ {w} : Stays(u)
  BY DEF OthersStay
<1>2. \A u \in Writers \ {w} : Target(u)' = Target(u)
  BY <1>1, TargetStays DEF Stays
<1>3. Rivals(v)' \subseteq Rivals(v)
  BY <1>1, <1>2 DEF Rivals, Stays
<1>4. /\ Target(v) = f /\ writer'[v].pc = writer[v].pc /\ writer'[v].base = writer[v].base
  BY <1>1, <1>2 DEF Stays
<1>5. (Rivals(v) = {}) => (Rivals(v)' = {})
  BY <1>3
<1> HIDE DEF Rivals
<1> QED  BY <1>4, <1>5 DEF HeldKept

LEMMA KeptInit == BootInit => KeptInv
  BY DEF BootInit, KeptInv, WholeKept, HeldKept, WriterIdle

LEMMA KeptRestarts ==
    ASSUME BootTypeOK, KeptInv, NEW w \in Writers, Restarts(w)
    PROVE  KeptInv'
<1>1. /\ OthersStay(w) /\ UNCHANGED <<file, theirs, hurt>>
      /\ writer'[w].pc \notin {"open", "write"}
  BY RestartsIs DEF WriterMoves
<1>2. ASSUME NEW f \in Files \ hurt PROVE WholeKept(f)' /\ \A v \in Writers : HeldKept(f, v)'
  <2>1. WholeKept(f) /\ \A v \in Writers : HeldKept(f, v)
    BY DEF KeptInv
  <2>2. WholeKept(f)'
    BY <1>1, <2>1 DEF WholeKept
  <2>3. HeldKept(f, w)'
    BY <1>1 DEF HeldKept
  <2>4. ASSUME NEW v \in Writers \ {w} PROVE HeldKept(f, v)'
    BY <1>1, <2>1, HeldStays
  <2> QED  BY <2>2, <2>3, <2>4
<1> QED  BY <1>1, <1>2 DEF KeptInv

LEMMA KeptReads ==
    ASSUME BootTypeOK, KeptInv, NEW w \in Writers, Reads(w)
    PROVE  KeptInv'
<1>1. /\ OthersStay(w) /\ UNCHANGED <<file, theirs>> /\ hurt \subseteq hurt'
      /\ Target(w) \notin hurt' => file[Target(w)].whole
      /\ \/ writer'[w].pc \notin {"open", "write"}
         \/ /\ writer'[w].pc = "open" /\ writer'[w].base = file[Target(w)]
            /\ Target(w)' = Target(w)
  <2>1. OthersStay(w)
    BY ReadsIs DEF WriterMoves
  <2>2. UNCHANGED <<file, theirs>> /\ hurt \subseteq hurt' /\ (Target(w) \notin hurt' => file[Target(w)].whole)
    BY DEF Reads
  <2>3. CASE writer'[w] = FileDone(w)
    <3>1. Busy(w)
      BY DEF Reads, Busy
    <3> QED  BY <2>1, <2>2, <2>3, <3>1, FileDoneIs
  <2>4. CASE writer'[w] # FileDone(w)
    <3>1. /\ writer'[w].pc = "open" /\ writer'[w].base = file[Target(w)]
          /\ writer'[w].step = writer[w].step /\ writer'[w].todo = writer[w].todo
      BY <2>4, ReadsIs
    <3> QED  BY <2>1, <2>2, <3>1, TargetStays
  <2> QED  BY <2>3, <2>4
<1>2. ASSUME NEW f \in Files \ hurt' PROVE WholeKept(f)' /\ \A v \in Writers : HeldKept(f, v)'
  <2>1. WholeKept(f) /\ \A v \in Writers : HeldKept(f, v)
    BY <1>1 DEF KeptInv
  <2>2. WholeKept(f)'
    BY <1>1, <2>1 DEF WholeKept
  <2>3. HeldKept(f, w)'
    BY <1>1 DEF HeldKept
  <2>4. ASSUME NEW v \in Writers \ {w} PROVE HeldKept(f, v)'
    BY <1>1, <2>1, HeldStays
  <2> QED  BY <2>2, <2>3, <2>4
<1> QED  BY <1>2 DEF KeptInv

LEMMA KeptTruncates ==
    ASSUME BootTypeOK, KeptInv, NEW w \in Writers, Truncates(w)
    PROVE  KeptInv'
<1>0. PICK t : t = Target(w)
  OBVIOUS
<1>1. /\ OthersStay(w) /\ writer'[w].pc = "write" /\ writer'[w].base = writer[w].base
      /\ Target(w)' = t
  BY <1>0, TruncatesIs, TargetStays DEF WriterMoves
<1>2. /\ OnlyFile(t, Torn(t)) /\ UNCHANGED theirs /\ hurt \subseteq hurt'
      /\ t \notin hurt' => file[t] = writer[w].base /\ Rivals(w) = {}
  BY <1>0, TruncatesFile
<1>3. writer[w].pc = "open"
  BY DEF Truncates
<1>4. ASSUME NEW f \in Files \ hurt', f # t
      PROVE  WholeKept(f)' /\ \A v \in Writers : HeldKept(f, v)'
  <2>1. WholeKept(f) /\ (\A v \in Writers : HeldKept(f, v)) /\ file'[f] = file[f] /\ theirs'[f] = theirs[f]
    BY <1>2, <1>4 DEF KeptInv, OnlyFile
  <2>2. WholeKept(f)'
    BY <2>1 DEF WholeKept
  <2>3. HeldKept(f, w)'
    BY <1>1, <1>4 DEF HeldKept
  <2>4. ASSUME NEW v \in Writers \ {w} PROVE HeldKept(f, v)'
    BY <1>1, <1>4, <2>1, HeldStays
  <2> QED  BY <2>2, <2>3, <2>4
<1>5. ASSUME t \in Files \ hurt'
      PROVE  WholeKept(t)' /\ \A v \in Writers : HeldKept(t, v)'
  <2>1. WholeKept(t) /\ \A v \in Writers : HeldKept(t, v)
    BY <1>2, <1>5 DEF KeptInv
  <2>2. writer[w].base.whole /\ Theirs(t, writer[w].base.data) = theirs[t] /\ Rivals(w) = {}
    BY <1>0, <1>2, <1>3, <1>5, <2>1 DEF HeldKept, WholeKept
  <2>3. ~file'[t].whole
    BY <1>2 DEF OnlyFile, Torn
  <2>4. ASSUME NEW v \in Writers \ {w}
        PROVE  /\ Target(v)' = Target(v) /\ writer'[v].pc = writer[v].pc /\ writer'[v].base = writer[v].base
               /\ writer[v].pc = "write" => Target(v) # t
    <3>1. Stays(v)
      BY <1>1 DEF OthersStay
    <3> QED  BY <1>0, <2>2, <3>1, TargetStays DEF Stays, Rivals
  <2>5. Rivals(w)' = {}
    BY <1>1, <2>4 DEF Rivals
  <2>6. HeldKept(t, w)'
    BY <1>1, <1>2, <2>2, <2>3, <2>5 DEF HeldKept
  <2>7. ASSUME NEW v \in Writers \ {w} PROVE HeldKept(t, v)'
    BY <2>1, <2>4 DEF HeldKept
  <2> QED  BY <2>3, <2>6, <2>7 DEF WholeKept
<1> QED  BY <1>4, <1>5 DEF KeptInv

LEMMA KeptWrites ==
    ASSUME BootTypeOK, KeptInv, NEW w \in Writers, Writes(w)
    PROVE  KeptInv'
<1>0. PICK t, new : t = Target(w) /\ new = Merged(t, Project(w), writer[w].base.data)
  OBVIOUS
<1>1. OthersStay(w) /\ writer'[w].pc \notin {"open", "write"}
  <2>1. Busy(w)
    BY DEF Writes, Busy
  <2> QED  BY <2>1, WritesIs, FileDoneIs DEF WriterMoves
<1>2. /\ OnlyFile(t, Whole(new)) \/ OnlyFile(t, Torn(t))
      /\ Theirs(t, new) = Theirs(t, writer[w].base.data)
  BY <1>0, WritesFile
<1>3. writer[w].pc = "write" /\ UNCHANGED <<theirs, hurt>>
  BY DEF Writes
<1>4. ASSUME NEW f \in Files \ hurt, f # t
      PROVE  WholeKept(f)' /\ \A v \in Writers : HeldKept(f, v)'
  <2>1. WholeKept(f) /\ (\A v \in Writers : HeldKept(f, v)) /\ file'[f] = file[f] /\ theirs'[f] = theirs[f]
    BY <1>2, <1>3, <1>4 DEF KeptInv, OnlyFile
  <2>2. WholeKept(f)'
    BY <2>1 DEF WholeKept
  <2>3. HeldKept(f, w)'
    BY <1>1 DEF HeldKept
  <2>4. ASSUME NEW v \in Writers \ {w} PROVE HeldKept(f, v)'
    BY <1>1, <2>1, HeldStays
  <2> QED  BY <2>2, <2>3, <2>4
<1>5. ASSUME t \in Files \ hurt
      PROVE  WholeKept(t)' /\ \A v \in Writers : HeldKept(t, v)'
  <2>1. WholeKept(t) /\ \A v \in Writers : HeldKept(t, v)
    BY <1>5 DEF KeptInv
  <2>2. Theirs(t, writer[w].base.data) = theirs[t] /\ Rivals(w) = {}
    BY <1>0, <1>3, <2>1 DEF HeldKept
  <2>3. WholeKept(t)'
    BY <1>2, <1>3, <2>2 DEF WholeKept, OnlyFile, Whole, Torn
  <2>4. HeldKept(t, w)'
    BY <1>1 DEF HeldKept
  <2>5. ASSUME NEW v \in Writers \ {w} PROVE HeldKept(t, v)'
    <3>1. Stays(v)
      BY <1>1 DEF OthersStay
    <3>2. /\ Target(v)' = Target(v) /\ writer'[v].pc = writer[v].pc /\ writer'[v].base = writer[v].base
          /\ writer[v].pc = "write" => Target(v) # t
      BY <1>0, <2>2, <3>1, TargetStays DEF Stays, Rivals
    <3> QED  BY <2>1, <3>2 DEF HeldKept
  <2> QED  BY <2>3, <2>4, <2>5
<1> QED  BY <1>3, <1>4, <1>5 DEF KeptInv

LEMMA KeptEdits ==
    ASSUME BootTypeOK, KeptInv, NEW g \in Files, Edits(g)
    PROVE  KeptInv'
<1>1. PICK new \in ContentOf(g) : OnlyFile(g, Whole(new)) /\ theirs'[g] = Theirs(g, new)
  BY EditsFile
<1>2. /\ file[g].whole /\ UNCHANGED <<writer, hurt>>
      /\ \A f \in Files \ {g} : file'[f] = file[f] /\ theirs'[f] = theirs[f]
  BY <1>1, EditsFile DEF OnlyFile
<1>3. \A v \in Writers : Target(v)' = Target(v) /\ Rivals(v)' = Rivals(v)
  BY <1>2 DEF Target, Kind, Project, Rivals
<1>4. ASSUME NEW f \in Files \ hurt PROVE WholeKept(f)' /\ \A v \in Writers : HeldKept(f, v)'
  <2>1. WholeKept(f) /\ \A v \in Writers : HeldKept(f, v)
    BY DEF KeptInv
  <2>2. WholeKept(f)'
    BY <1>1, <1>2, <2>1 DEF WholeKept, OnlyFile, Whole
  <2>3. ASSUME NEW v \in Writers PROVE HeldKept(f, v)'
    BY <1>2, <1>3, <2>1 DEF HeldKept
  <2> QED  BY <2>2, <2>3
<1> QED  BY <1>2, <1>4 DEF KeptInv

LEMMA KeptStep ==
    ASSUME BootTypeOK, KeptInv, [BootNext]_bootVars
    PROVE  KeptInv'
<1>1. CASE UNCHANGED bootVars
  BY <1>1 DEF bootVars, KeptInv, WholeKept, HeldKept, Target, Kind, Project, Rivals
<1> QED  BY <1>1, KeptRestarts, KeptReads, KeptTruncates, KeptWrites, KeptEdits DEF BootNext, Restarts

(* What others have put in a project's files stays there, whatever is       *)
(* installed over it, by however many processes, stopped at any moment: a   *)
(* merge never loses or reorders a hook of theirs, and nothing but a file   *)
(* taken up by two at once, or cut short, can.                              *)
THEOREM HooksOfOthersStay == BootSpec => []OthersKept
<1>1. BootInit => BootTypeOK /\ KeptInv
  BY BootTypesInit, KeptInit
<1>2. BootTypeOK /\ KeptInv /\ [BootNext]_bootVars => BootTypeOK' /\ KeptInv'
  BY BootTypesStep, KeptStep
<1>3. KeptInv => OthersKept
  BY DEF KeptInv, WholeKept, OthersKept
<1> QED  BY <1>1, <1>2, <1>3, PTL DEF BootSpec
-----------------------------------------------------------------------------
(* An installation alone: none other runs, so that each file it is past     *)
(* stays as it has left it, and none is written over while it writes.       *)

Wired(f, p) == file[f].whole /\ WiredIn(f, p, file[f].data)
Installed(w, k) == Wired(FileOf(Kinds[k], Project(w)), Project(w))

Heals(w) ==
    Busy(w) /\ writer[w].alone =>
        /\ \A v \in Writers \ {w} : ~Busy(v)
        /\ writer[w].pc # "done" => ~writer[w].over /\ ~writer[w].warned
        /\ \A k \in 1 .. 3 :
              k < writer[w].step \/ (writer[w].pc = "done" /\ ~writer[w].warned) => Installed(w, k)

HealInv == \A w \in Writers : Heals(w)

LEMMA HealInit == BootInit => HealInv
  BY DEF BootInit, HealInv, Heals, Busy, WriterIdle

LEMMA InstalledStays ==
    ASSUME NEW w, NEW k, Installed(w, k), writer'[w].todo = writer[w].todo,
           file'[FileOf(Kinds[k], Project(w))] = file[FileOf(Kinds[k], Project(w))]
    PROVE  Installed(w, k)'
<1>1. Project(w)' = Project(w)
  BY DEF Project
<1> QED  BY <1>1 DEF Installed, Wired

\* The files of the other steps are other files.
LEMMA OtherFiles ==
    ASSUME BootTypeOK, NEW w \in Writers, Busy(w), NEW k \in 1 .. 3, k # writer[w].step
    PROVE  FileOf(Kinds[k], Project(w)) \in Files \ {Target(w)}
<1>1. Project(w) \in Projects /\ Target(w)[1] = Kinds[writer[w].step] /\ writer[w].step \in 1 .. 3
  BY TargetIs DEF Kind
<1>2. FileOf(Kinds[k], Project(w)) \in Files /\ FileOf(Kinds[k], Project(w))[1] = Kinds[k]
  BY <1>1, FilesAre
<1>3. Kinds[k] # Kinds[writer[w].step]
  BY <1>1, FilesAre
<1> QED  BY <1>1, <1>2, <1>3

\* Only a start can happen besides one that is alone, and ends that.
LEMMA HealOthers ==
    ASSUME BootTypeOK, HealInv, NEW w \in Writers, NEW v \in Writers \ {w},
           Restarts(w) \/ Reads(w) \/ Truncates(w) \/ Writes(w)
    PROVE  Heals(v)'
<1> SUFFICES ASSUME Busy(v)', writer'[v].alone PROVE Heals(v)'
  BY DEF Heals
<1>1. OthersStay(w)
  BY RestartsIs, ReadsIs, TruncatesIs, WritesIs DEF WriterMoves
<1>2. Busy(v) /\ writer[v].alone
  BY <1>1 DEF OthersStay, Stays, Busy
<1>3. Heals(v) /\ ~Busy(w)
  BY <1>2 DEF HealInv, Heals
<1>4. Starts(w)
  BY <1>3 DEF Restarts, Returns, Fails, Crashes, Reads, Truncates, Writes, Busy
<1>5. Begins(w, Route[w]) /\ Route[w] \in Seq(Projects) /\ UNCHANGED file
  BY <1>4, RouteAssumption DEF Starts
<1>6. writer'[w].pc = "idle" /\ \A u \in Writers \ {w} : writer'[u] = writer[u]
  BY <1>5, BeginsIs
<1>7. \A u \in Writers \ {v} : ~Busy(u)'
  BY <1>2, <1>3, <1>6 DEF Heals, Busy
<1>8. \A k \in 1 .. 3 : Installed(v, k) => Installed(v, k)'
  BY <1>5, <1>6, InstalledStays
<1> QED  BY <1>2, <1>3, <1>6, <1>7, <1>8 DEF Heals

\* What starts with the first file has done nothing yet.
LEMMA HealBegins ==
    ASSUME BootTypeOK, NEW w \in Writers, NEW todo \in Seq(Projects), Begins(w, todo)
    PROVE  Heals(w)'
<1> SUFFICES ASSUME Busy(w)', writer'[w].alone PROVE Heals(w)'
  BY DEF Heals
<1>1. /\ OthersStay(w) /\ writer'[w].pc = "read" /\ writer'[w].step = 1
      /\ ~writer'[w].over /\ ~writer'[w].warned /\ \A u \in Writers \ {w} : ~Busy(u)
  BY BeginsIs DEF Busy
<1>2. \A u \in Writers \ {w} : ~Busy(u)'
  BY <1>1 DEF OthersStay, Stays, Busy
<1>3. \A k \in 1 .. 3 : ~(k < 1)
  OBVIOUS
<1> QED  BY <1>1, <1>2, <1>3 DEF Heals

LEMMA HealRestarts ==
    ASSUME BootTypeOK, HealInv, NEW w \in Writers, Restarts(w)
    PROVE  Heals(w)'
<1>1. CASE Starts(w)
  <2>1. Route[w] \in Seq(Projects)
    BY RouteAssumption
  <2> QED  BY <1>1, <2>1, HealBegins DEF Starts
<1>2. CASE Crashes(w)
  BY <1>2, CrashesIs DEF Heals, Busy
<1>3. CASE Begins(w, Tail(writer[w].todo)) /\ Busy(w)
  BY <1>3, TargetIs, HealBegins
<1>4. CASE Fails(w) /\ ~Begins(w, Tail(writer[w].todo))
  <2> SUFFICES ASSUME writer'[w].alone PROVE Heals(w)'
    BY DEF Heals
  <2>1. /\ \A v \in Writers \ {w} : writer'[v] = writer[v]
        /\ writer'[w].pc = "done" /\ writer'[w].warned /\ writer'[w].step = 3 /\ writer[w].step = 3
        /\ writer'[w].todo = writer[w].todo /\ writer[w].alone
    BY <1>4, FailsIs
  <2>2. Busy(w) /\ UNCHANGED file
    BY <1>4 DEF Fails, Busy
  <2>3. (\A v \in Writers \ {w} : ~Busy(v)) /\ \A k \in 1 .. 3 : k < 3 => Installed(w, k)
    BY <2>1, <2>2 DEF HealInv, Heals
  <2>4. \A k \in 1 .. 3 : k < 3 => Installed(w, k)'
    BY <2>1, <2>2, <2>3, InstalledStays
  <2>5. \A v \in Writers \ {w} : ~Busy(v)'
    BY <2>1, <2>3 DEF Busy
  <2> QED  BY <2>1, <2>4, <2>5 DEF Heals
<1> QED  BY <1>1, <1>2, <1>3, <1>4 DEF Restarts, Returns, Fails, Busy

\* A file that is done with makes one more.
LEMMA HealFileDone ==
    ASSUME BootTypeOK, HealInv, NEW w \in Writers, Busy(w), writer[w].pc # "done", OthersStay(w),
           writer'[w] = FileDone(w), NEW n \in 1 .. 3, n = writer[w].step, Installed(w, n)',
           \A f \in Files \ {Target(w)} : file'[f] = file[f]
    PROVE  Heals(w)'
<1> SUFFICES ASSUME writer[w].alone PROVE Heals(w)'
  BY FileDoneIs DEF Heals
<1>1. /\ \A v \in Writers \ {w} : ~Busy(v)
      /\ ~writer[w].over /\ ~writer[w].warned
      /\ \A k \in 1 .. 3 : k < writer[w].step => Installed(w, k)
  BY DEF HealInv, Heals
<1>2. \A v \in Writers \ {w} : ~Busy(v)'
  BY <1>1 DEF OthersStay, Stays, Busy
<1>3. writer'[w].todo = writer[w].todo /\ writer[w].step \in 1 .. 3
  BY FileDoneIs, TargetIs
<1>4. ASSUME NEW k \in 1 .. 3, k < writer[w].step PROVE Installed(w, k)'
  <2>1. FileOf(Kinds[k], Project(w)) \in Files \ {Target(w)}
    BY <1>3, <1>4, OtherFiles
  <2> QED  BY <1>1, <1>3, <1>4, <2>1, InstalledStays
<1>5. ASSUME NEW k \in 1 .. 3, k <= writer[w].step PROVE Installed(w, k)'
  <2>1. k < writer[w].step \/ k = n
    BY <1>3, <1>5
  <2> QED  BY <1>4, <2>1
<1>6. CASE writer[w].step = 3
  <2>1. writer'[w].pc = "done"
    BY <1>6, FileDoneIs
  <2>2. \A k \in 1 .. 3 : Installed(w, k)'
    BY <1>5, <1>6
  <2> QED  BY <1>2, <2>1, <2>2 DEF Heals
<1>7. CASE writer[w].step # 3
  <2>1. writer'[w].pc = "read" /\ writer'[w].step = writer[w].step + 1 /\ ~writer'[w].over /\ ~writer'[w].warned
    BY <1>1, <1>7, FileDoneIs
  <2>2. \A k \in 1 .. 3 : k < writer[w].step + 1 => Installed(w, k)'
    BY <1>3, <1>5
  <2> QED  BY <1>2, <2>1, <2>2 DEF Heals
<1> QED  BY <1>6, <1>7

\* On its way through a file it leaves the others alone.
LEMMA HealWithin ==
    ASSUME BootTypeOK, HealInv, NEW w \in Writers, Busy(w), writer[w].pc # "done", OthersStay(w),
           writer'[w].step = writer[w].step, writer'[w].todo = writer[w].todo,
           writer'[w].alone = writer[w].alone, writer'[w].warned = writer[w].warned,
           writer'[w].pc # "done", writer[w].alone => ~writer'[w].over,
           \A f \in Files \ {Target(w)} : file'[f] = file[f]
    PROVE  Heals(w)'
<1> SUFFICES ASSUME writer[w].alone PROVE Heals(w)'
  BY DEF Heals
<1>1. /\ \A v \in Writers \ {w} : ~Busy(v)
      /\ ~writer[w].warned
      /\ \A k \in 1 .. 3 : k < writer[w].step => Installed(w, k)
  BY DEF HealInv, Heals
<1>2. \A v \in Writers \ {w} : ~Busy(v)'
  BY <1>1 DEF OthersStay, Stays, Busy
<1>3. ASSUME NEW k \in 1 .. 3, k < writer[w].step PROVE Installed(w, k)'
  <2>1. writer[w].step \in 1 .. 3
    BY TargetIs
  <2>2. FileOf(Kinds[k], Project(w)) \in Files \ {Target(w)}
    BY <1>3, <2>1, OtherFiles
  <2> QED  BY <1>1, <1>3, <2>2, InstalledStays
<1> QED  BY <1>1, <1>2, <1>3 DEF Heals
LEMMA HealReads ==
    ASSUME BootTypeOK, HealInv, NEW w \in Writers, Reads(w)
    PROVE  Heals(w)'
<1>1. Busy(w) /\ writer[w].pc = "read" /\ UNCHANGED file /\ OthersStay(w)
  BY ReadsIs DEF Reads, Busy, WriterMoves
<1>2. CASE writer'[w] = FileDone(w) /\ Target(w) = Approvals /\ Project(w) \in file[Approvals].data.approved
  <2>1. /\ Project(w) \in Projects /\ Kinds[writer[w].step] = "approvals" /\ writer[w].step \in 1 .. 3
        /\ FileSound(Approvals, file[Approvals])
    BY <1>1, <1>2, TargetIs, FilesAre DEF Kind
  <2>2. writer[w].step = 3 /\ FileOf(Kinds[3], Project(w)) = Approvals
    BY <1>2, <2>1, FilesAre DEF Target, Kind
  <2>3. file[Approvals].whole
    <3>1. Empty(Approvals[1]).approved = {}
      BY FilesAre DEF Empty
    <3> QED  BY <1>2, <2>1, <3>1 DEF FileSound
  <2>4. Installed(w, 3)
    BY <1>2, <2>2, <2>3, FilesAre DEF Installed, Wired, WiredIn
  <2>5. writer'[w].todo = writer[w].todo
    BY <1>1, <1>2, FileDoneIs
  <2>6. Installed(w, 3)'
    BY <1>1, <2>4, <2>5, InstalledStays
  <2> QED  BY <1>1, <1>2, <2>2, <2>6, HealFileDone
<1>3. CASE /\ writer'[w].pc = "open" /\ writer'[w].step = writer[w].step
           /\ writer'[w].todo = writer[w].todo /\ writer'[w].over = writer[w].over
           /\ writer'[w].alone = writer[w].alone /\ writer'[w].warned = writer[w].warned
  <2>1. writer[w].alone => ~writer'[w].over
    BY <1>1, <1>3 DEF HealInv, Heals
  <2> QED  BY <1>1, <1>3, <2>1, HealWithin
<1> QED  BY <1>2, <1>3, ReadsIs

LEMMA HealTruncates ==
    ASSUME BootTypeOK, HealInv, NEW w \in Writers, Truncates(w)
    PROVE  Heals(w)'
<1>1. Busy(w) /\ writer[w].pc = "open" /\ OthersStay(w)
  BY TruncatesIs DEF Truncates, Busy, WriterMoves
<1>2. writer[w].alone => Rivals(w) = {}
  BY <1>1 DEF HealInv, Heals, Rivals, Busy
<1>3. writer[w].alone => ~writer'[w].over
  BY <1>2, TruncatesIs
<1>4. \A f \in Files \ {Target(w)} : file'[f] = file[f]
  BY TruncatesFile DEF OnlyFile
<1> QED  BY <1>1, <1>3, <1>4, TruncatesIs, HealWithin

LEMMA HealWrites ==
    ASSUME BootTypeOK, HealInv, NEW w \in Writers, Writes(w)
    PROVE  Heals(w)'
<1>1. Busy(w) /\ writer[w].pc = "write" /\ OthersStay(w) /\ writer'[w] = FileDone(w)
  BY WritesIs DEF Writes, Busy, WriterMoves
<1> SUFFICES ASSUME writer[w].alone PROVE Heals(w)'
  BY <1>1, FileDoneIs DEF Heals
<1>2. ~writer[w].over
  BY <1>1 DEF HealInv, Heals
<1>3. PICK n, f, new : /\ n = writer[w].step /\ f = Target(w)
                       /\ new = Merged(f, Project(w), writer[w].base.data)
  OBVIOUS
<1>4. OnlyFile(f, Whole(new)) /\ WiredIn(f, Project(w), new)
  BY <1>2, <1>3, WritesFile
<1>5. n \in 1 .. 3 /\ writer'[w].todo = writer[w].todo /\ f = FileOf(Kinds[n], Project(w))
  BY <1>1, <1>3, TargetIs, FileDoneIs DEF Target, Kind
<1>6. Installed(w, n)'
  <2>1. Project(w)' = Project(w)
    BY <1>5 DEF Project
  <2>2. file'[f].whole /\ file'[f].data = new
    BY <1>4 DEF OnlyFile, Whole
  <2> QED  BY <1>4, <1>5, <2>1, <2>2 DEF Installed, Wired
<1>7. \A g \in Files \ {Target(w)} : file'[g] = file[g]
  BY <1>3, <1>4 DEF OnlyFile
<1> QED  BY <1>1, <1>3, <1>5, <1>6, <1>7, HealFileDone

LEMMA HealEdits ==
    ASSUME BootTypeOK, HealInv, NEW f \in Files, Edits(f)
    PROVE  HealInv'
<1>1. PICK new \in ContentOf(f) : /\ OnlyFile(f, Whole(new))
                                  /\ \A p : WiredIn(f, p, file[f].data) => WiredIn(f, p, new)
  BY EditsFile
<1>2. UNCHANGED writer
  BY EditsFile
<1>3. \A g \in Files : \A p : Wired(g, p) => Wired(g, p)'
  BY <1>1 DEF OnlyFile, Whole, Wired
<1>4. ASSUME NEW w \in Writers PROVE Heals(w)'
  <2> SUFFICES ASSUME Busy(w), writer[w].alone PROVE Heals(w)'
    BY <1>2 DEF Heals, Busy
  <2>1. ASSUME NEW k \in 1 .. 3, Installed(w, k) PROVE Installed(w, k)'
    <3>1. FileOf(Kinds[k], Project(w)) \in Files /\ Project(w)' = Project(w)
      BY <1>2, TargetIs, FilesAre DEF Project
    <3> QED  BY <1>3, <2>1, <3>1 DEF Installed
  <2>2. Heals(w) /\ \A v \in Writers : Busy(v)' = Busy(v)
    BY <1>2 DEF HealInv, Busy
  <2> QED  BY <1>2, <2>1, <2>2 DEF Heals
<1> QED  BY <1>4 DEF HealInv

LEMMA HealStep ==
    ASSUME BootTypeOK, HealInv, [BootNext]_bootVars
    PROVE  HealInv'
<1>1. CASE UNCHANGED bootVars
  BY <1>1 DEF bootVars, HealInv, Heals, Busy, Installed, Wired, Project
<1>2. ASSUME NEW w \in Writers, Restarts(w) \/ Reads(w) \/ Truncates(w) \/ Writes(w)
      PROVE  HealInv'
  <2>1. Heals(w)'
    BY <1>2, HealRestarts, HealReads, HealTruncates, HealWrites
  <2>2. \A v \in Writers \ {w} : Heals(v)'
    BY <1>2, HealOthers
  <2> QED  BY <2>1, <2>2 DEF HealInv
<1> QED  BY <1>1, <1>2, HealEdits DEF BootNext, Restarts

(* Whatever an installation finds in the three files, nothing, an older     *)
(* layout, hooks shared with others or what a crash had cut short: when     *)
(* none overlaps with it and the approval does not fail, it ends with the   *)
(* project wired in each of them, and another would change nothing more.    *)
THEOREM HealsAlone == BootSpec => []AloneItHeals
<1>1. BootInit => BootTypeOK /\ HealInv
  BY BootTypesInit, HealInit
<1>2. BootTypeOK /\ HealInv /\ [BootNext]_bootVars => BootTypeOK' /\ HealInv'
  BY BootTypesStep, HealStep
<1>3. BootTypeOK /\ HealInv => AloneItHeals
  <2> SUFFICES ASSUME BootTypeOK, HealInv, NEW w \in Writers, writer[w].pc = "done",
                      writer[w].alone, ~writer[w].warned, NEW kind \in Range(Kinds),
                      NEW f, f = FileOf(kind, Project(w))
               PROVE  /\ file[f].whole /\ WiredIn(f, Project(w), file[f].data)
                      /\ Merged(f, Project(w), Merged(f, Project(w), file[f].data))
                         = Merged(f, Project(w), file[f].data)
    BY DEF AloneItHeals
  <2>1. PICK k \in 1 .. 3 : kind = Kinds[k]
    BY FilesAre DEF Range
  <2>2. Busy(w)
    BY DEF Busy
  <2>3. file[f].whole /\ WiredIn(f, Project(w), file[f].data)
    BY <2>1, <2>2 DEF HealInv, Heals, Installed, Wired
  <2>4. Project(w) \in Projects /\ f \in Files
    BY <2>1, <2>2, TargetIs, FilesAre
  <2>5. file[f].data \in ContentOf(f)
    BY <2>4 DEF BootTypeOK, FileSound
  <2> QED  BY <2>3, <2>4, <2>5, MergedIs
<1> QED  BY <1>1, <1>2, <1>3, PTL DEF BootSpec
=============================================================================
