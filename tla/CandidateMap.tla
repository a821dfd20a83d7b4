----------------------------- MODULE CandidateMap -----------------------------
(***************************************************************************)
(* What the candidate mapper hands to the model that reviews a WordPress   *)
(* plugin: the callbacks registered with it that do something sensitive    *)
(* (V5), the functions that change security state (V6) and the sensitive   *)
(* functions neither of those names (V6.1), batched into packs (V6.2) and  *)
(* offered as cases to investigate (V6.3).                                 *)
(*                                                                         *)
(* A registration is [surface, unclear, name, class]: whether its hook is  *)
(* reached from outside, whether its permission callback could not be      *)
(* read, and the callback.                                                 *)
(***************************************************************************)
EXTENDS CandidateFlow

CONSTANTS
  Program,       \* the plugins
  Registrations, \* the sets of registrations they may make
  HintsOf,       \* security words in a name
  Inside,        \* <<m, n>>: the name m occurs in the name n
  Theme,         \* themes of packs
  NoName         \* an item of V5 names its function in "callback" only

\* Only a REST route has a permission callback, and none is internal.
Registration == [surface: {"known_public", "conditional", "internal", "unknown"},
                 unclear: BOOLEAN, rest: BOOLEAN,
                 name: Name, class: Class \cup {NoClass}]
MayRegister(r) == r.unclear => r.rest /\ r.surface # "internal"

ASSUME MapAssumption ==
  /\ \A P \in Program : IsProgram(P)
  /\ \A R \in Registrations : R \subseteq {r \in Registration : MayRegister(r)}
  /\ HintsOf \in [Name -> Nat]
  /\ Inside \subseteq Name \X Name /\ \A n \in Name : <<n, n>> \in Inside
  /\ NoName \notin Name
  /\ Kind \subseteq {"role_change", "configuration_write", "object_lookup",
                     "json_response"}

VARIABLES
  registrations,
  stage,  \* "promote", "flow", "state", "orphan", "pack", "case", "done"
  units,  \* V5: a callback to review, with the answer of the walk over it
  items,  \* what is to be reviewed
  todo,   \* items the stage has still to see
  packs,  \* [key -> [effort, members]]
  cases   \* items that became a case

vars == <<program, walkVars, registrations, stage, units, items, todo, packs,
          cases>>

Init ==
  /\ program \in Program
  /\ registrations \in Registrations
  /\ stage = "promote" /\ phase = "idle" /\ flow = "none"
  /\ root = CHOOSE d \in Definition : TRUE
  /\ queue = <<>> /\ visited = {} /\ states = 0 /\ direct = "unknown"
  /\ nodes = {} /\ seeds = {} /\ paths = {} /\ cut = FALSE
  /\ units = {} /\ items = {} /\ todo = {} /\ packs = <<>> /\ cases = {}
-----------------------------------------------------------------------------
(* V5: registered callbacks                                                *)

HighImpact == {"role_change", "configuration_write"}
Writes == {"role_change", "configuration_write"}

Reads(d) == \E v \in Var \cup {NoVar} : <<d, v>> \in program.source
Effects(d) == {k \in Kind : \E v \in Var \cup {NoVar} : <<d, v, k>> \in program.effect}
Checked(d) == d \in program.check

\* The class of a callback narrows down its definitions only where it finds any.
Callbacks(r) ==
  LET named == {d \in Definition : NameOf[d] = r.name}
      ofClass == {d \in named : ClassOf[d] = r.class} IN
  IF r.class # NoClass /\ ofClass # {} THEN ofClass ELSE named

\* The profile of a callback is over everything in reach of it.
EffectsInReach(d) == UNION {Effects(e) : e \in Within(d, MaxDepth)}
ReadsInReach(d) == \E e \in Within(d, MaxDepth) : Reads(e)
RelevantFunctions(d) ==
  {e \in Within(d, MaxDepth) : Reads(e) \/ Effects(e) # {} \/ Checked(e)}
SecurityRelevant(d) ==
  /\ EffectsInReach(d) # {}
  /\ \/ ReadsInReach(d)
     \/ EffectsInReach(d) \cap {"object_lookup", "json_response"} # {}

Promote ==
  /\ stage = "promote" /\ stage' = "flow"
  /\ units' = UNION {{[reg |-> r, def |-> d, flow |-> "none"] :
                        d \in {e \in Callbacks(r) : SecurityRelevant(e)}} :
                       r \in {q \in registrations : q.surface # "internal"}}
  /\ UNCHANGED <<program, walkVars, registrations, items, todo, packs, cases>>

\* The walks over the callbacks, one after the other.
WalkUnit ==
  /\ stage = "flow" /\ phase = "idle" /\ flow = "none"
  /\ \E u \in units : u.flow = "none" /\ StartFlow(u.def)
  /\ UNCHANGED <<program, registrations, stage, units, items, todo, packs, cases>>

Walk ==
  /\ WalkStep
  /\ UNCHANGED <<registrations, stage, units, items, todo, packs, cases>>

KeepFlow ==
  /\ stage = "flow" /\ phase = "idle" /\ flow # "none"
  /\ units' = {IF u.def = root THEN [u EXCEPT !.flow = flow] ELSE u : u \in units}
  /\ flow' = "none"
  /\ UNCHANGED <<program, root, phase, queue, visited, states, direct, nodes,
                 seeds, paths, cut, registrations, stage, items, todo, packs,
                 cases>>

Points(p, n) == IF p THEN n ELSE 0
LowPrivilege(r) == r.surface = "known_public" \/ r.unclear

Score(u) ==
  LET effects == EffectsInReach(u.def) IN
    Points(u.reg.surface = "known_public", 50)
  + Points(u.reg.surface = "conditional", 30)
  + [confirmed |-> 60, probable |-> 35, reachability_only |-> 15,
     unknown |-> 20][u.flow]
  + Points(ReadsInReach(u.def), 20)
  + Points("object_lookup" \in effects, 25)
  + Points(effects \cap HighImpact # {}, 35)
  + Points("json_response" \in effects, 20)

\* The score, with a floor under what could do most.
\* Mutant: no floor.
ScoreAlone(u) ==
  IF Score(u) >= 120 THEN "deep"
  ELSE IF Score(u) >= 80 THEN "normal" ELSE "bounded"
Effort(u) ==
  IF \/ Score(u) >= 120
     \/ /\ EffectsInReach(u.def) \cap HighImpact # {}
        /\ LowPrivilege(u.reg) \/ u.flow = "unknown"
  THEN "deep" ELSE IF Score(u) >= 80 THEN "normal" ELSE "bounded"

Item(source, id, function, effort, effects) ==
  [source |-> source, id |-> id, function |-> function, effort |-> effort,
   effects |-> effects]

IndexUnits ==
  /\ stage = "flow" /\ \A u \in units : u.flow # "none"
  /\ stage' = "state"
  /\ items' = {Item("v5", <<u.reg, u.def>>, NoName, Effort(u),
                    EffectsInReach(u.def)) : u \in units}
  /\ UNCHANGED <<program, walkVars, registrations, units, todo, packs, cases>>
-----------------------------------------------------------------------------
(* V6: changes of security state; V6.1: what is named by neither           *)

\* The bodies of all definitions of a name are looked at together.
BodiesOf(n) == {d \in Definition : NameOf[d] = n}
EffectsOf(n) == UNION {Effects(d) : d \in BodiesOf(n)}

Registered(n) ==
  \/ \E r \in registrations : ~r.rest /\ r.name = n
  \/ \E u \in units : u.reg.rest /\ NameOf[u.def] = n
StateEffort(n) ==
  LET score == 50 + 70 + Points(Registered(n), 25)
               + Points(Registered(n) /\ ~\E d \in BodiesOf(n) : Checked(d), 50)
  IN IF score >= 180 THEN "deep" ELSE IF score >= 120 THEN "normal" ELSE "light"

IndexState ==
  /\ stage = "state" /\ stage' = "orphan"
  /\ items' = items \cup
       {Item("v6", n, n, StateEffort(n), {}) :
          n \in {m \in Name : "role_change" \in EffectsOf(m)}}
  /\ UNCHANGED <<program, walkVars, registrations, units, todo, packs, cases>>

\* The names in the text of what V5 and V6 found. A name that occurs in
\* another one is taken to be there as well.
InIndex ==
  UNION {{NameOf[d] : d \in {u.def} \cup RelevantFunctions(u.def)} : u \in units}
  \cup ({i.function : i \in items} \ {NoName})
Represented(m) == \E n \in InIndex : <<m, n>> \in Inside

\* The names that call n. The reverse index reads names, not classes.
Callers(n) ==
  {NameOf[c.caller] : c \in {x \in program.calls : x.name = n}} \ {n}
\* An object lookup is one that reads the metadata of a user here.
StructuralSignal(n) ==
  \/ EffectsOf(n) \cap (Writes \cup {"object_lookup"}) # {}
  \/ \E d \in BodiesOf(n) : Checked(d)
Orphan(n) == HintsOf[n] > 0 /\ StructuralSignal(n) /\ ~Represented(n)

AtMost(a, b) == IF a < b THEN a ELSE b
OrphanScore(n) ==
  70 + AtMost(10 * HintsOf[n], 50)
  + AtMost(15 * Cardinality(EffectsOf(n) \cap Writes), 45)
  + Points(Callers(n) # {}, 20)
OrphanItem(n) ==
  IF OrphanScore(n) >= 130 THEN Item("v6.1_orphan", n, n, "deep", {})
  ELSE IF OrphanScore(n) >= 90 THEN Item("v6.1_orphan", n, n, "normal", {})
  ELSE Item("v6.1_fallback", n, n, "light", {})

IndexOrphans ==
  /\ stage = "orphan" /\ stage' = "pack"
  /\ items' = items \cup {OrphanItem(n) : n \in {m \in Name : Orphan(m)}}
  /\ todo' = items'
  /\ UNCHANGED <<program, walkVars, registrations, units, packs, cases>>
-----------------------------------------------------------------------------
(* V6.2: packs                                                             *)

Rank(effort) == [light |-> 1, bounded |-> 1, normal |-> 2, deep |-> 3][effort]
PackEffort(members) ==
  CASE \E i \in members : i.effort = "deep" -> "deep"
    [] \A i \in members : Rank(i.effort) = 1 -> "light"
    [] OTHER -> "normal"

\* What lies in one pack. The theme is read off the text of the item.
\* Mutant: deep items share a pack per function.
PackOfFunction(i, theme) ==
  IF i.source = "v6.1_fallback" THEN <<"fallback", theme>>
  ELSE IF i.effort = "deep" THEN <<"deep", i.source, i.function>>
  ELSE <<"primary", theme>>
PackKey(i, theme) ==
  IF i.source = "v6.1_fallback" THEN <<"fallback", theme>>
  ELSE IF i.effort = "deep" THEN <<"deep", i.source, i.id>>
  ELSE <<"primary", theme>>

AddPack ==
  /\ stage = "pack"
  /\ \E i \in todo, theme \in Theme :
       LET k == PackKey(i, theme)
           members == {i} \cup IF k \in DOMAIN packs THEN packs[k].members
                               ELSE {} IN
       /\ packs' = [l \in DOMAIN packs \cup {k} |->
                      IF l = k THEN [effort |-> PackEffort(members),
                                     members |-> members] ELSE packs[l]]
       /\ todo' = todo \ {i}
  /\ UNCHANGED <<program, walkVars, registrations, stage, units, items, cases>>

EndPacks ==
  /\ stage = "pack" /\ todo = {}
  /\ stage' = "case" /\ todo' = items
  /\ UNCHANGED <<program, walkVars, registrations, units, items, packs, cases>>
-----------------------------------------------------------------------------
(* V6.3: cases                                                             *)

\* Items of V6 and later have a theme that counts.  One of V5 counts for its
\* effects alone here; in the code, themes found in its text may add to them.
SecuritySignal(i) == i.source # "v5" \/ i.effects \cap HighImpact # {}

\* An index item has neither "file" nor "line" nor "state" of its own.
CaseKey(i) == i.function

AddCase ==
  /\ stage = "case"
  /\ \E i \in todo :
       /\ todo' = todo \ {i}
       /\ cases' = IF SecuritySignal(i) /\ \A j \in cases : CaseKey(j) # CaseKey(i)
                   THEN cases \cup {i} ELSE cases
  /\ UNCHANGED <<program, walkVars, registrations, stage, units, items, packs>>

EndCases ==
  /\ stage = "case" /\ todo = {} /\ stage' = "done"
  /\ UNCHANGED <<program, walkVars, registrations, units, items, todo, packs,
                 cases>>

Next == \/ Promote \/ WalkUnit \/ Walk \/ KeepFlow
        \/ IndexUnits \/ IndexState \/ IndexOrphans
        \/ AddPack \/ EndPacks \/ AddCase \/ EndCases

Spec == Init /\ [][Next]_vars
-----------------------------------------------------------------------------
(* Properties                                                              *)

\* The walk over the call graph (build_reachable_graph), which keeps the path
\* of every visit and never goes round a cycle, still reaches every definition
\* within max_depth calls of the callback and none beyond.
ReachIsWithin ==
  phase = "seed" => nodes = Within(root, MaxDepth)

\* A flow is "confirmed" (security_flow_v5) only where request data does get
\* from a definition in reach into an effect over at most max_depth calls and,
\* unless a walk ran into max_states or a chain of assignments is longer than
\* max_rounds passes follow, wherever it does: neither the order of the visits
\* nor what the walks take for already visited hides a flow.
FlowIsExact ==
  phase = "idle" /\ flow # "none" =>
    /\ flow = "confirmed" => FlowExists
    /\ FlowExists => flow = "confirmed" \/ cut \/ ~RoundsSuffice

\* Every unit promoted and every item of the four queues lies in exactly one
\* pack (build_semantic_review_packs_v62); a deep item lies alone, a fallback
\* item never with others than fallback items, and no pack is reviewed with
\* less effort than a member of it asks for.
NothingIsDropped ==
  stage \in {"case", "done"} =>
    /\ \A u \in units : \E i \in items : i.id = <<u.reg, u.def>>
    /\ \A i \in items : \E k \in DOMAIN packs :
         /\ \A l \in DOMAIN packs : i \in packs[l].members <=> l = k
         /\ Rank(packs[k].effort) >= Rank(i.effort)
         /\ i.effort = "deep" => packs[k].members = {i}
         /\ i.source = "v6.1_fallback" =>
              \A j \in packs[k].members : j.source = i.source

\* A callback that anyone may reach (known public, or with a permission
\* callback the mapper could not read), with a high-impact effect and request
\* data in reach of it, is reviewed deeply in a pack of its own, whatever the
\* walks over it found.
PublicFlowIsDeep ==
  stage \in {"case", "done"} =>
    \A r \in registrations : \A d \in Callbacks(r) :
      LowPrivilege(r) /\ ReadsInReach(d) /\ EffectsInReach(d) \cap HighImpact # {} =>
        \E k \in DOMAIN packs :
          /\ packs[k].effort = "deep"
          /\ {i.id : i \in packs[k].members} = {<<r, d>>}

\* Every item with a security signal becomes a case to investigate
\* (build_adaptive_security_investigation_v63): none is suppressed in favour
\* of another function's.
EverySignalHasACase ==
  stage = "done" => \A i \in items : SecuritySignal(i) => i \in cases
=============================================================================
