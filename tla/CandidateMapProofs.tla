-------------------------- MODULE CandidateMapProofs --------------------------
(***************************************************************************)
(* What the candidate mapper finds is neither dropped nor reviewed with    *)
(* less effort than it asks for, for any plugin and any registrations.     *)
(***************************************************************************)
EXTENDS CandidateMap, TLAPS

-----------------------------------------------------------------------------
(* What is read off a plugin stays as it is.                               *)

LEMMA ProgramStays == Next => program' = program
  BY DEF Next, Promote, WalkUnit, Walk, KeepFlow, IndexUnits, IndexState,
         IndexOrphans, AddPack, EndPacks, AddCase, EndCases, StartFlow,
         WalkStep, Visit, EndDirect, Explore, EndReach, NextSeed, EndFlow

LEMMA SameCalls ==
  ASSUME program' = program
  PROVE  Called' = Called
<1>1. \A d : CallsOf(d)' = CallsOf(d)
  BY DEF CallsOf
<1>2. \A d : CalledBy(d)' = CalledBy(d)
  BY <1>1 DEF CalledBy
<1> QED
  BY <1>2 DEF Called

LEMMA SameReach ==
  ASSUME program' = program, NEW d
  PROVE  /\ EffectsInReach(d)' = EffectsInReach(d)
         /\ ReadsInReach(d)' <=> ReadsInReach(d)
         /\ SecurityRelevant(d)' <=> SecurityRelevant(d)
<1>1. Within(d, MaxDepth)' = Within(d, MaxDepth)
  BY SameCalls DEF Within
<1>2. \A e : Effects(e)' = Effects(e) /\ (Reads(e)' <=> Reads(e))
  BY DEF Effects, Reads
<1>3. EffectsInReach(d)' = EffectsInReach(d)
  BY <1>1, <1>2 DEF EffectsInReach
<1>4. ReadsInReach(d)' <=> ReadsInReach(d)
  BY <1>1, <1>2 DEF ReadsInReach
<1> QED
  BY <1>3, <1>4 DEF SecurityRelevant

-----------------------------------------------------------------------------
(* The inductive invariant of the pipeline.                                *)

Efforts == {"light", "bounded", "normal", "deep"}

\* There is one unit of a registration and a definition, and none is missing.
UnitsFit ==
  /\ registrations \in Registrations
  /\ \A u \in units :
       /\ u \in [reg : registrations, def : Definition,
                 flow : Confidence \cup {"none"}]
       /\ \A w \in units : u.reg = w.reg /\ u.def = w.def => u = w
  /\ stage # "promote" =>
       \A r \in registrations : \A d \in Callbacks(r) :
         r.surface # "internal" /\ SecurityRelevant(d) =>
           \E u \in units : u.reg = r /\ u.def = d

FlowIsAConfidence == flow \in Confidence \cup {"none"} /\ direct \in Confidence

\* Where the items of a stage come from.
SourcesAt(s) ==
  IF s \in {"promote", "flow"} THEN {}
  ELSE IF s = "state" THEN {"v5"}
  ELSE IF s = "orphan" THEN {"v5", "v6"}
  ELSE {"v5", "v6", "v6.1_orphan", "v6.1_fallback"}

\* What a unit of the callback d, registered by r, asks for.
AsksForDepth(r, d) == LowPrivilege(r) /\ EffectsInReach(d) \cap HighImpact # {}

\* An item is known by where it comes from and its name there, and a unit has
\* the item it asks for.
ItemsFit ==
  /\ \A i \in items :
       /\ i.source \in SourcesAt(stage)
       /\ i.effort \in Efforts
       /\ i.source = "v6.1_fallback" => i.effort = "light"
       /\ \A j \in items : i.source = j.source /\ i.id = j.id => i = j
  /\ stage \notin {"promote", "flow"} =>
       \A u \in units : \E i \in items :
         /\ i.source = "v5" /\ i.id = <<u.reg, u.def>>
         /\ AsksForDepth(u.reg, u.def) => i.effort = "deep"

\* The items that lie in a pack already.
Packed ==
  IF stage = "pack" THEN items \ todo
  ELSE IF stage \in {"case", "done"} THEN items ELSE {}

\* Each of them lies in one pack, that of its key.
PacksFit ==
  /\ stage = "pack" => todo \subseteq items
  /\ \A i \in Packed : \E k \in DOMAIN packs : i \in packs[k].members
  /\ \A k \in DOMAIN packs :
       /\ packs[k].members \subseteq Packed
       /\ packs[k].effort = PackEffort(packs[k].members)
       /\ \A i \in packs[k].members :
            /\ \E theme \in Theme : k = PackKey(i, theme)
            /\ \A l \in DOMAIN packs : i \in packs[l].members => l = k

MapIInv == UnitsFit /\ FlowIsAConfidence /\ ItemsFit /\ PacksFit

LEMMA MapStarts == Init => MapIInv
<1> SUFFICES ASSUME Init PROVE MapIInv
  OBVIOUS
<1>1. UnitsFit /\ FlowIsAConfidence
  BY DEF Init, UnitsFit, FlowIsAConfidence, Confidence
<1>2. ItemsFit
  BY DEF Init, ItemsFit
<1>3. DOMAIN packs = {} /\ Packed = {} /\ stage # "pack"
  BY DEF Init, Packed
<1>4. PacksFit
  BY <1>3 DEF PacksFit
<1> QED
  BY <1>1, <1>2, <1>4 DEF MapIInv

\* What a stage that leaves them alone keeps.
LEMMA UnitsStay ==
  ASSUME UnitsFit, UNCHANGED <<program, registrations, units>>,
         stage = "promote" => stage' = "promote"
  PROVE  UnitsFit'
<1>1. \A r : Callbacks(r)' = Callbacks(r)
  BY DEF Callbacks
<1>2. \A d : SecurityRelevant(d)' <=> SecurityRelevant(d)
  BY SameReach
<1> QED
  BY <1>1, <1>2 DEF UnitsFit

LEMMA ItemsStay ==
  ASSUME ItemsFit, UNCHANGED <<program, items, units>>,
         SourcesAt(stage) \subseteq SourcesAt(stage'),
         stage \in {"promote", "flow"} => stage' \in {"promote", "flow"}
  PROVE  ItemsFit'
<1>1. \A r, d : AsksForDepth(r, d)' <=> AsksForDepth(r, d)
  BY SameReach DEF AsksForDepth, LowPrivilege
<1>2. \A i \in items : i.source \in SourcesAt(stage')
  BY DEF ItemsFit
<1>3. stage' \notin {"promote", "flow"} =>
        \A u \in units : \E i \in items :
          /\ i.source = "v5" /\ i.id = <<u.reg, u.def>>
          /\ AsksForDepth(u.reg, u.def)' => i.effort = "deep"
  BY <1>1 DEF ItemsFit
<1>4. \A i \in items' :
        /\ i.source \in SourcesAt(stage)'
        /\ i.effort \in Efforts
        /\ i.source = "v6.1_fallback" => i.effort = "light"
        /\ \A j \in items' : i.source = j.source /\ i.id = j.id => i = j
  BY <1>2 DEF ItemsFit, SourcesAt
<1> QED
  BY <1>3, <1>4 DEF ItemsFit

LEMMA PacksStay ==
  ASSUME PacksFit, UNCHANGED packs, Packed' = Packed,
         stage' = "pack" => todo' \subseteq items'
  PROVE  PacksFit'
  BY DEF PacksFit

LEMMA AnswersAreConfidences ==
  /\ \A d : LocalConfidence(d) \in Confidence
  /\ DirectConfidence \in Confidence
  /\ direct \in Confidence => Answer \in Confidence
<1>1. \A d : LocalConfidence(d) \in Confidence
  BY Zenon DEF LocalConfidence, Confidence
<1>2. DirectConfidence \in Confidence
  BY <1>1, Zenon DEF DirectConfidence, Confidence
<1>3. direct \in Confidence => Answer \in Confidence
  BY Zenon DEF Answer, Confidence
<1> QED
  BY <1>1, <1>2, <1>3

LEMMA PromoteKeepsMap == ASSUME MapIInv, Promote PROVE MapIInv'
<1> USE DEF Promote
<1>1. /\ stage = "promote" /\ stage' = "flow"
      /\ UNCHANGED <<program, registrations, items, todo, packs, flow, direct>>
  BY DEF walkVars
<1>2. \A u \in units' :
        \E r \in registrations : \E d \in Callbacks(r) :
          u = [reg |-> r, def |-> d, flow |-> "none"]
  OBVIOUS
<1>3. \A r \in registrations : \A d \in Callbacks(r) :
        r.surface # "internal" /\ SecurityRelevant(d) =>
          [reg |-> r, def |-> d, flow |-> "none"] \in units'
  OBVIOUS
<1>4. \A r : Callbacks(r)' = Callbacks(r) /\ Callbacks(r) \subseteq Definition
  BY DEF Callbacks
<1>5. \A d : SecurityRelevant(d)' <=> SecurityRelevant(d)
  BY <1>1, SameReach
<1> HIDE DEF Promote
<1>6. UnitsFit'
  <2>1. registrations' \in Registrations
    BY <1>1 DEF MapIInv, UnitsFit
  <2>2. ASSUME NEW u \in units'
        PROVE  /\ u \in [reg : registrations', def : Definition,
                         flow : Confidence \cup {"none"}]
               /\ \A w \in units' : u.reg = w.reg /\ u.def = w.def => u = w
    BY <1>1, <1>2, <1>4
  <2>3. ASSUME NEW r \in registrations', NEW d \in Callbacks(r)',
               r.surface # "internal", SecurityRelevant(d)'
        PROVE  \E u \in units' : u.reg = r /\ u.def = d
    <3>1. [reg |-> r, def |-> d, flow |-> "none"] \in units'
      BY <1>1, <1>3, <1>4, <1>5, <2>3
    <3> QED
      BY <3>1
  <2> QED
    BY <2>1, <2>2, <2>3 DEF UnitsFit
<1>7. FlowIsAConfidence'
  BY <1>1 DEF MapIInv, FlowIsAConfidence
<1>8. ItemsFit'
  BY <1>1 DEF MapIInv, ItemsFit, SourcesAt
<1>9. PacksFit'
  BY <1>1, PacksStay DEF MapIInv, Packed
<1> QED
  BY <1>6, <1>7, <1>8, <1>9 DEF MapIInv

\* A walk ends with a confidence, and the pipeline waits for it.
LEMMA WalksKeepMap == ASSUME MapIInv, WalkUnit \/ Walk PROVE MapIInv'
<1>1. /\ UNCHANGED <<program, registrations, stage, units, items, todo, packs>>
  BY DEF WalkUnit, Walk, StartFlow, WalkStep, Visit, EndDirect, Explore,
         EndReach, NextSeed, EndFlow
<1>2. FlowIsAConfidence'
  <2> USE DEF MapIInv, FlowIsAConfidence
  <2>1. CASE WalkUnit
    BY <2>1 DEF WalkUnit, StartFlow, Confidence
  <2>2. CASE EndDirect
    BY <2>2, AnswersAreConfidences DEF EndDirect, Confidence
  <2>3. CASE EndFlow
    BY <2>3, AnswersAreConfidences DEF EndFlow
  <2>4. CASE Visit \/ Explore \/ EndReach \/ NextSeed
    BY <2>4 DEF Visit, Explore, EndReach, NextSeed
  <2> QED
    BY <2>1, <2>2, <2>3, <2>4 DEF Walk, WalkStep
<1>3. UnitsFit' /\ ItemsFit'
  BY <1>1, UnitsStay, ItemsStay DEF MapIInv
<1>4. PacksFit'
  BY <1>1, PacksStay DEF MapIInv, PacksFit, Packed
<1> QED
  BY <1>2, <1>3, <1>4 DEF MapIInv

LEMMA KeepFlowKeepsMap == ASSUME MapIInv, KeepFlow PROVE MapIInv'
<1>1. /\ stage = "flow"
      /\ UNCHANGED <<program, registrations, stage, items, todo, packs, direct>>
      /\ flow' = "none"
  BY DEF KeepFlow
<1> DEFINE Told(u) == IF u.def = root THEN [u EXCEPT !.flow = flow] ELSE u
<1>2. units' = {Told(u) : u \in units}
  BY DEF KeepFlow
<1>3. ASSUME NEW u \in units
      PROVE  /\ Told(u) \in [reg : registrations, def : Definition,
                             flow : Confidence \cup {"none"}]
             /\ Told(u).reg = u.reg /\ Told(u).def = u.def
  BY DEF MapIInv, UnitsFit, FlowIsAConfidence
<1>4. \A r : Callbacks(r)' = Callbacks(r)
  BY DEF Callbacks
<1>5. \A d : SecurityRelevant(d)' <=> SecurityRelevant(d)
  BY <1>1, SameReach
<1>6. UnitsFit'
  <2>1. ASSUME NEW u \in units', NEW w \in units', u.reg = w.reg, u.def = w.def
        PROVE  u = w
    <3>1. PICK a \in units : u = Told(a)
      BY <1>2
    <3>2. PICK b \in units : w = Told(b)
      BY <1>2
    <3>3. a = b
      BY <2>1, <3>1, <3>2, <1>3 DEF MapIInv, UnitsFit
    <3> QED
      BY <3>1, <3>2, <3>3
  <2>2. ASSUME NEW u \in units'
        PROVE  u \in [reg : registrations', def : Definition,
                      flow : Confidence \cup {"none"}]
    BY <1>1, <1>2, <1>3
  <2>3. ASSUME NEW r \in registrations', NEW d \in Callbacks(r)',
               r.surface # "internal", SecurityRelevant(d)'
        PROVE  \E u \in units' : u.reg = r /\ u.def = d
    <3>1. PICK u \in units : u.reg = r /\ u.def = d
      BY <1>1, <1>4, <1>5, <2>3 DEF MapIInv, UnitsFit
    <3>2. Told(u) \in units'
      BY <1>2
    <3> QED
      BY <1>3, <3>1, <3>2
  <2> HIDE DEF Told
  <2> QED
    BY <1>1, <2>1, <2>2, <2>3 DEF UnitsFit, MapIInv
<1>7. FlowIsAConfidence'
  BY <1>1 DEF MapIInv, FlowIsAConfidence
<1>8. ItemsFit'
  BY <1>1 DEF MapIInv, ItemsFit, SourcesAt
<1>9. PacksFit'
  BY <1>1, PacksStay DEF MapIInv, Packed
<1> QED
  BY <1>6, <1>7, <1>8, <1>9 DEF MapIInv

LEMMA EffortsThereAre ==
  /\ \A u : Effort(u) \in Efforts
  /\ \A u : AsksForDepth(u.reg, u.def) => Effort(u) = "deep"
  /\ \A n : StateEffort(n) \in Efforts
<1>1. \A u : Effort(u) \in Efforts
  BY Zenon DEF Effort, Efforts
<1>2. \A u : AsksForDepth(u.reg, u.def) => Effort(u) = "deep"
  BY Zenon DEF Effort, AsksForDepth
<1>3. \A n : StateEffort(n) \in {"deep", "normal", "light"}
  BY SMT DEF StateEffort
<1>4. \A n : StateEffort(n) \in Efforts
  BY <1>3 DEF Efforts
<1> QED
  BY <1>1, <1>2, <1>4

LEMMA IndexUnitsKeepsMap == ASSUME MapIInv, IndexUnits PROVE MapIInv'
<1> DEFINE ItemOf(u) == Item("v5", <<u.reg, u.def>>, NoName, Effort(u),
                             EffectsInReach(u.def))
<1>1. /\ stage = "flow" /\ stage' = "state"
      /\ UNCHANGED <<program, registrations, units, todo, packs, flow, direct>>
      /\ items' = {ItemOf(u) : u \in units}
  BY DEF IndexUnits, walkVars
<1>2. \A u : /\ ItemOf(u).source = "v5" /\ ItemOf(u).id = <<u.reg, u.def>>
             /\ ItemOf(u).effort = Effort(u)
  BY DEF Item
<1> HIDE DEF ItemOf
<1>3. UnitsFit'
  BY <1>1, UnitsStay DEF MapIInv
<1>4. ItemsFit'
  <2>1. ASSUME NEW i \in items'
        PROVE  /\ i.source = "v5" /\ i.effort \in Efforts
               /\ \A j \in items' : i.source = j.source /\ i.id = j.id => i = j
    <3>1. PICK u \in units : i = ItemOf(u)
      BY <1>1
    <3>2. ASSUME NEW j \in items', i.id = j.id PROVE i = j
      <4>1. PICK w \in units : j = ItemOf(w)
        BY <1>1
      <4>2. u.reg = w.reg /\ u.def = w.def
        BY <1>2, <3>1, <3>2, <4>1
      <4>3. u = w
        BY <4>2 DEF MapIInv, UnitsFit
      <4> QED
        BY <3>1, <4>1, <4>3
    <3> QED
      BY <1>2, <3>1, <3>2, EffortsThereAre
  <2>2. ASSUME NEW u \in units'
        PROVE  \E i \in items' :
                 /\ i.source = "v5" /\ i.id = <<u.reg, u.def>>
                 /\ AsksForDepth(u.reg, u.def)' => i.effort = "deep"
    <3>1. ItemOf(u) \in items'
      BY <1>1
    <3>2. AsksForDepth(u.reg, u.def)' => AsksForDepth(u.reg, u.def)
      BY <1>1, SameReach DEF AsksForDepth, LowPrivilege
    <3> QED
      BY <1>2, <3>1, <3>2, EffortsThereAre
  <2> QED
    BY <1>1, <2>1, <2>2 DEF ItemsFit, SourcesAt
<1>5. FlowIsAConfidence'
  BY <1>1 DEF MapIInv, FlowIsAConfidence
<1>6. PacksFit'
  BY <1>1, PacksStay DEF MapIInv, Packed
<1> QED
  BY <1>3, <1>4, <1>5, <1>6 DEF MapIInv

\* Items of other sources come to those there are.
LEMMA MoreItems ==
  ASSUME MapIInv, UNCHANGED <<program, registrations, units, packs, flow, direct>>,
         stage \in {"state", "orphan"}, stage' \in {"orphan", "pack"},
         SourcesAt(stage) \subseteq SourcesAt(stage'),
         stage' = "pack" => todo' = items',
         NEW New, items' = items \cup New,
         \A i \in New :
           /\ i.source \in SourcesAt(stage') \ SourcesAt(stage)
           /\ i.effort \in Efforts
           /\ i.source = "v6.1_fallback" => i.effort = "light"
           /\ \A j \in New : i.source = j.source /\ i.id = j.id => i = j
  PROVE  MapIInv'
<1>1. UnitsFit'
  BY UnitsStay DEF MapIInv
<1>2. FlowIsAConfidence'
  BY DEF MapIInv, FlowIsAConfidence
<1>3. ItemsFit'
  <2>1. \A r, d : AsksForDepth(r, d)' <=> AsksForDepth(r, d)
    BY SameReach DEF AsksForDepth, LowPrivilege
  <2>2. ASSUME NEW i \in items'
        PROVE  /\ i.source \in SourcesAt(stage')
               /\ i.effort \in Efforts
               /\ i.source = "v6.1_fallback" => i.effort = "light"
               /\ \A j \in items' : i.source = j.source /\ i.id = j.id => i = j
    BY DEF MapIInv, ItemsFit
  <2>3. ASSUME NEW u \in units'
        PROVE  \E i \in items' :
                 /\ i.source = "v5" /\ i.id = <<u.reg, u.def>>
                 /\ AsksForDepth(u.reg, u.def)' => i.effort = "deep"
    BY <2>1 DEF MapIInv, ItemsFit
  <2>4. SourcesAt(stage)' = SourcesAt(stage')
    BY DEF SourcesAt
  <2> QED
    BY <2>2, <2>3, <2>4 DEF ItemsFit
<1>4. PacksFit'
  BY PacksStay DEF MapIInv, Packed
<1> QED
  BY <1>1, <1>2, <1>3, <1>4 DEF MapIInv

LEMMA IndexStateKeepsMap == ASSUME MapIInv, IndexState PROVE MapIInv'
<1> DEFINE New == {Item("v6", n, n, StateEffort(n), {}) :
                     n \in {m \in Name : "role_change" \in EffectsOf(m)}}
<1>1. /\ stage = "state" /\ stage' = "orphan"
      /\ UNCHANGED <<program, registrations, units, packs, flow, direct>>
      /\ items' = items \cup New
  BY DEF IndexState, walkVars
<1>2. \A i \in New :
        /\ i.source = "v6" /\ i.effort \in Efforts
        /\ \A j \in New : i.source = j.source /\ i.id = j.id => i = j
  BY EffortsThereAre DEF Item
<1> HIDE DEF New
<1> QED
  BY <1>1, <1>2, MoreItems DEF SourcesAt

LEMMA IndexOrphansKeepsMap == ASSUME MapIInv, IndexOrphans PROVE MapIInv'
<1> DEFINE New == {OrphanItem(n) : n \in {m \in Name : Orphan(m)}}
<1>1. /\ stage = "orphan" /\ stage' = "pack" /\ todo' = items'
      /\ UNCHANGED <<program, registrations, units, packs, flow, direct>>
      /\ items' = items \cup New
  BY DEF IndexOrphans, walkVars
<1>2. \A n :
        /\ OrphanItem(n).id = n
        /\ OrphanItem(n).source \in {"v6.1_orphan", "v6.1_fallback"}
        /\ OrphanItem(n).effort \in Efforts
        /\ OrphanItem(n).source = "v6.1_fallback" => OrphanItem(n).effort = "light"
  <2> TAKE n
  <2>1. \/ OrphanItem(n) = Item("v6.1_orphan", n, n, "deep", {})
        \/ OrphanItem(n) = Item("v6.1_orphan", n, n, "normal", {})
        \/ OrphanItem(n) = Item("v6.1_fallback", n, n, "light", {})
    BY Zenon DEF OrphanItem
  <2> QED
    BY <2>1 DEF Item, Efforts
<1>3. \A i \in New :
        /\ i.source \in {"v6.1_orphan", "v6.1_fallback"}
        /\ i.effort \in Efforts
        /\ i.source = "v6.1_fallback" => i.effort = "light"
        /\ \A j \in New : i.source = j.source /\ i.id = j.id => i = j
  BY <1>2
<1> HIDE DEF New
<1> QED
  BY <1>1, <1>3, MoreItems DEF SourcesAt

\* A key is that of one fallback theme, of one deep item or of one theme.
LEMMA KeysApart ==
  ASSUME NEW i, NEW j, NEW s, NEW t, PackKey(i, s) = PackKey(j, t)
  PROVE  /\ i.source = "v6.1_fallback" <=> j.source = "v6.1_fallback"
         /\ i.source # "v6.1_fallback" /\ i.effort = "deep" =>
              j.effort = "deep" /\ i.source = j.source /\ i.id = j.id
  BY DEF PackKey

LEMMA AddPackKeepsMap == ASSUME MapIInv, AddPack PROVE MapIInv'
<1>1. /\ stage = "pack"
      /\ UNCHANGED <<program, registrations, units, items, flow, direct, stage>>
  BY DEF AddPack, walkVars
<1>2. UnitsFit' /\ ItemsFit'
  BY <1>1, UnitsStay, ItemsStay DEF MapIInv
<1>3. FlowIsAConfidence'
  BY <1>1 DEF MapIInv, FlowIsAConfidence
<1>4. PICK i \in todo, theme \in Theme :
        LET k == PackKey(i, theme)
            members == {i} \cup IF k \in DOMAIN packs THEN packs[k].members
                                ELSE {} IN
        /\ packs' = [l \in DOMAIN packs \cup {k} |->
                       IF l = k THEN [effort |-> PackEffort(members),
                                      members |-> members] ELSE packs[l]]
        /\ todo' = todo \ {i}
  BY DEF AddPack
<1> DEFINE k == PackKey(i, theme)
           old == IF k \in DOMAIN packs THEN packs[k].members ELSE {}
           members == {i} \cup old
<1>5. /\ DOMAIN packs' = DOMAIN packs \cup {k}
      /\ packs'[k] = [effort |-> PackEffort(members), members |-> members]
      /\ \A l \in DOMAIN packs : l # k => packs'[l] = packs[l]
      /\ todo' = todo \ {i}
  BY <1>4
<1>6. i \in items /\ i \notin Packed /\ Packed' = Packed \cup {i}
  BY <1>1, <1>5 DEF MapIInv, PacksFit, Packed
<1>7. \A l \in DOMAIN packs : packs[l].members \subseteq Packed
  BY DEF MapIInv, PacksFit
<1>8. /\ packs'[k].members = members /\ packs'[k].effort = PackEffort(members)
      /\ members \subseteq Packed \cup {i}
  BY <1>5, <1>7
<1>9. \A l \in DOMAIN packs : \A j \in packs[l].members :
        /\ \E t \in Theme : l = PackKey(j, t)
        /\ \A m \in DOMAIN packs : j \in packs[m].members => m = l
  BY DEF MapIInv, PacksFit
<1>10. \A l \in DOMAIN packs' : \A j \in packs'[l].members :
         \/ l = k /\ j = i
         \/ l \in DOMAIN packs /\ j \in packs[l].members
  BY <1>5, <1>8
<1>11. k \in DOMAIN packs' /\ i \in packs'[k].members
  BY <1>5, <1>8
<1>12. ASSUME NEW l \in DOMAIN packs'
       PROVE  /\ packs'[l].members \subseteq Packed'
              /\ packs'[l].effort = PackEffort(packs'[l].members)
              /\ \A j \in packs'[l].members :
                   /\ \E t \in Theme : l = PackKey(j, t)
                   /\ \A m \in DOMAIN packs' : j \in packs'[m].members => m = l
  <2>1. packs'[l].members \subseteq Packed'
    BY <1>6, <1>7, <1>10
  <2>2. packs'[l].effort = PackEffort(packs'[l].members)
    <3>1. CASE l = k
      BY <1>8, <3>1
    <3>2. CASE l # k
      BY <1>5, <3>2 DEF MapIInv, PacksFit
    <3> QED
      BY <3>1, <3>2
  <2>3. ASSUME NEW j \in packs'[l].members
        PROVE  \E t \in Theme : l = PackKey(j, t)
    BY <1>9, <1>10
  <2>4. ASSUME NEW j \in packs'[l].members,
               NEW m \in DOMAIN packs', j \in packs'[m].members
        PROVE  m = l
    <3> HIDE DEF k
    <3>1. CASE j = i
      BY <1>6, <1>7, <1>10, <2>4, <3>1
    <3>2. CASE j # i
      BY <1>9, <1>10, <2>4, <3>2
    <3> QED
      BY <3>1, <3>2
  <2> HIDE DEF k
  <2> QED
    BY <2>1, <2>2, <2>3, <2>4
<1>13. ASSUME NEW j \in Packed'
       PROVE  \E l \in DOMAIN packs' : j \in packs'[l].members
  <2>1. CASE j = i
    BY <1>11, <2>1
  <2>2. CASE j # i
    <3>1. PICK l \in DOMAIN packs : j \in packs[l].members
      BY <1>6, <2>2 DEF MapIInv, PacksFit
    <3>2. l = k => j \in packs'[k].members
      BY <1>8, <3>1
    <3> QED
      BY <1>5, <3>1, <3>2
  <2> QED
    BY <2>1, <2>2
<1>14. todo' \subseteq items'
  BY <1>1, <1>5 DEF MapIInv, PacksFit
<1>15. PacksFit'
  BY <1>12, <1>13, <1>14 DEF PacksFit
<1> QED
  BY <1>2, <1>3, <1>15 DEF MapIInv

\* The stages after the packs leave them alone.
LEMMA CasesKeepMap ==
  ASSUME MapIInv, EndPacks \/ AddCase \/ EndCases PROVE MapIInv'
<1>1. /\ UNCHANGED <<program, registrations, units, items, packs, flow, direct>>
      /\ stage \in {"pack", "case"} /\ stage' \in {"case", "done"}
      /\ stage = "pack" => todo = {}
  BY DEF EndPacks, AddCase, EndCases, walkVars
<1>2. UnitsFit' /\ ItemsFit'
  BY <1>1, UnitsStay, ItemsStay DEF MapIInv, SourcesAt
<1>3. FlowIsAConfidence'
  BY <1>1 DEF MapIInv, FlowIsAConfidence
<1>4. Packed' = Packed
  BY <1>1 DEF Packed
<1>5. PacksFit'
  BY <1>1, <1>4, PacksStay DEF MapIInv
<1> QED
  BY <1>2, <1>3, <1>5 DEF MapIInv

\* The invariant holds of the pipeline throughout.
THEOREM MapInvariance == Spec => []MapIInv
<1>1. MapIInv /\ [Next]_vars => MapIInv'
  <2> SUFFICES ASSUME MapIInv, [Next]_vars PROVE MapIInv'
    OBVIOUS
  <2>1. CASE UNCHANGED vars
    BY <2>1, UnitsStay, ItemsStay, PacksStay
       DEF vars, walkVars, MapIInv, FlowIsAConfidence, Packed, PacksFit
  <2>2. CASE Next
    BY <2>2, PromoteKeepsMap, WalksKeepMap, KeepFlowKeepsMap, IndexUnitsKeepsMap,
       IndexStateKeepsMap, IndexOrphansKeepsMap, AddPackKeepsMap, CasesKeepMap
       DEF Next
  <2> QED
    BY <2>1, <2>2
<1> QED
  BY <1>1, MapStarts, PTL DEF Spec

\* The effort of a pack is not below that of a member.
LEMMA PackEffortIsEnough ==
  ASSUME NEW S, \A j \in S : j.effort \in Efforts, NEW i \in S
  PROVE  /\ Rank(PackEffort(S)) >= Rank(i.effort)
         /\ i.effort = "deep" => PackEffort(S) = "deep"
<1>1. CASE \E j \in S : j.effort = "deep"
  <2>1. ~\A j \in S : Rank(j.effort) = 1
    BY <1>1 DEF Rank
  <2>2. PackEffort(S) = "deep"
    BY <1>1, <2>1, Zenon DEF PackEffort
  <2> QED
    BY <2>2 DEF Rank, Efforts
<1>2. CASE (~\E j \in S : j.effort = "deep") /\ \A j \in S : Rank(j.effort) = 1
  <2>1. PackEffort(S) = "light"
    BY <1>2, Zenon DEF PackEffort
  <2>2. i.effort # "deep" /\ Rank(i.effort) = 1
    BY <1>2
  <2> QED
    BY <2>1, <2>2 DEF Rank
<1>3. CASE (~\E j \in S : j.effort = "deep") /\ ~\A j \in S : Rank(j.effort) = 1
  <2>1. PackEffort(S) = "normal"
    BY <1>3, Zenon DEF PackEffort
  <2>2. i.effort \in {"light", "bounded", "normal"}
    BY <1>3 DEF Efforts
  <2> QED
    BY <2>1, <2>2 DEF Rank
<1> QED
  BY <1>1, <1>2, <1>3

LEMMA MapImpliesNothingIsDropped == MapIInv => NothingIsDropped
<1> SUFFICES ASSUME MapIInv, stage \in {"case", "done"}
             PROVE  /\ \A u \in units : \E i \in items : i.id = <<u.reg, u.def>>
                    /\ \A i \in items : \E k \in DOMAIN packs :
                         /\ \A l \in DOMAIN packs : i \in packs[l].members <=> l = k
                         /\ Rank(packs[k].effort) >= Rank(i.effort)
                         /\ i.effort = "deep" => packs[k].members = {i}
                         /\ i.source = "v6.1_fallback" =>
                              \A j \in packs[k].members : j.source = i.source
  BY DEF NothingIsDropped
<1>1. \A u \in units : \E i \in items : i.id = <<u.reg, u.def>>
  BY DEF MapIInv, ItemsFit
<1>2. ASSUME NEW i \in items
      PROVE  \E k \in DOMAIN packs :
               /\ \A l \in DOMAIN packs : i \in packs[l].members <=> l = k
               /\ Rank(packs[k].effort) >= Rank(i.effort)
               /\ i.effort = "deep" => packs[k].members = {i}
               /\ i.source = "v6.1_fallback" =>
                    \A j \in packs[k].members : j.source = i.source
  <2>1. PICK k \in DOMAIN packs : i \in packs[k].members
    BY DEF MapIInv, PacksFit, Packed
  <2>2. \A l \in DOMAIN packs : i \in packs[l].members <=> l = k
    BY <2>1 DEF MapIInv, PacksFit
  <2>3. packs[k].members \subseteq items
    BY DEF MapIInv, PacksFit, Packed
  <2>4. Rank(packs[k].effort) >= Rank(i.effort)
    <3>1. \A j \in packs[k].members : j.effort \in Efforts
      BY <2>3 DEF MapIInv, ItemsFit
    <3>2. packs[k].effort = PackEffort(packs[k].members)
      BY DEF MapIInv, PacksFit
    <3> QED
      BY <2>1, <3>1, <3>2, PackEffortIsEnough
  <2>5. ASSUME NEW j \in packs[k].members
        PROVE  \E s, t \in Theme : PackKey(i, s) = PackKey(j, t)
    BY <2>1 DEF MapIInv, PacksFit
  <2>6. i.effort = "deep" => packs[k].members = {i}
    <3> SUFFICES ASSUME i.effort = "deep", NEW j \in packs[k].members PROVE j = i
      BY <2>1
    <3>1. i.source # "v6.1_fallback"
      BY DEF MapIInv, ItemsFit
    <3>2. i.source = j.source /\ i.id = j.id
      BY <2>5, <3>1, KeysApart
    <3> QED
      BY <2>3, <3>2 DEF MapIInv, ItemsFit
  <2>7. i.source = "v6.1_fallback" =>
          \A j \in packs[k].members : j.source = i.source
    BY <2>5, KeysApart
  <2> QED
    BY <2>1, <2>2, <2>4, <2>6, <2>7
<1> QED
  BY <1>1, <1>2

LEMMA MapImpliesPublicFlowIsDeep == MapIInv => PublicFlowIsDeep
<1> SUFFICES ASSUME MapIInv, stage \in {"case", "done"},
                    NEW r \in registrations, NEW d \in Callbacks(r),
                    LowPrivilege(r), ReadsInReach(d),
                    EffectsInReach(d) \cap HighImpact # {}
             PROVE  \E k \in DOMAIN packs :
                      /\ packs[k].effort = "deep"
                      /\ {i.id : i \in packs[k].members} = {<<r, d>>}
  BY DEF PublicFlowIsDeep
<1>1. r.surface # "internal"
  BY MapAssumption DEF MapIInv, UnitsFit, LowPrivilege, MayRegister
<1>2. SecurityRelevant(d)
  BY DEF SecurityRelevant
<1>3. PICK u \in units : u.reg = r /\ u.def = d
  BY <1>1, <1>2 DEF MapIInv, UnitsFit
<1>4. PICK i \in items : i.id = <<r, d>> /\ i.effort = "deep"
  BY <1>3 DEF MapIInv, ItemsFit, AsksForDepth
<1>5. PICK k \in DOMAIN packs : packs[k].members = {i}
  BY <1>4, MapImpliesNothingIsDropped DEF NothingIsDropped
<1>6. packs[k].effort = "deep"
  <2>1. packs[k].effort = PackEffort({i})
    BY <1>5 DEF MapIInv, PacksFit
  <2> QED
    BY <1>4, <2>1, PackEffortIsEnough DEF Efforts
<1> QED
  BY <1>4, <1>5, <1>6

\* Every unit and item lies in exactly one pack, a deep one alone, and no pack
\* is reviewed with less effort than a member asks for.
THEOREM PacksDropNothing == Spec => []NothingIsDropped
  BY MapInvariance, MapImpliesNothingIsDropped, PTL

\* A callback anyone may reach, with a high-impact effect and request data in
\* reach of it, is reviewed deeply whatever the walks over it found.
THEOREM PublicCallbacksAreReviewedDeeply == Spec => []PublicFlowIsDeep
  BY MapInvariance, MapImpliesPublicFlowIsDeep, PTL
=============================================================================
