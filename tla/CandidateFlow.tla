---------------------------- MODULE CandidateFlow ----------------------------
(***************************************************************************)
(* Does request data that enters a callback of a WordPress plugin reach a  *)
(* sensitive effect?  The candidate mapper answers in up to three walks    *)
(* over the call graph, each bounded in depth: a taint walk from the       *)
(* callback, a walk that collects the functions in reach and, from each of *)
(* those that reads request data itself, another taint walk.               *)
(*                                                                         *)
(* A program is what the mapper's expressions find in it: who calls whom   *)
(* with which variables, which variables are read from the request, which  *)
(* are assigned to which, and which occur in a call with an effect.        *)
(***************************************************************************)
EXTENDS Naturals, Sequences, FiniteSets, SequencesExt

CONSTANTS
  Definition,  \* function definitions of the plugin
  Name,        \* their names; several definitions may share one
  Class,       \* classes
  Var,         \* variables
  Kind,        \* kinds of effects
  NoVar,       \* request data, or an effect, without a variable
  NameOf, ClassOf, Params,  \* of each definition
  NoClass,     \* the class of a global function
  MaxDepth,    \* calls a walk follows: 3
  MaxStates,   \* states a taint walk visits: 256
  MaxRounds    \* passes over the assignments of a body: 8

ASSUME FlowAssumption ==
  /\ NoVar \notin Var
  /\ NoClass \notin Class \cup {"self"}
  /\ NameOf \in [Definition -> Name]
  /\ ClassOf \in [Definition -> Class \cup {NoClass}]
  /\ \A d \in Definition : Params[d] \in Seq(Var)
  /\ MaxDepth \in Nat /\ MaxStates \in Nat \ {0} /\ MaxRounds \in Nat \ {0}
  /\ IsFiniteSet(Definition) /\ IsFiniteSet(Var)

VARIABLES
  program,  \* [calls, source, assign, effect, check]: never changes
  root,     \* the callback
  phase,    \* the walk: "direct", "reach", "seed", or "idle" between two
  queue,    \* what the walk has still to visit
  visited,  \* what the taint walk has visited
  states,   \* how much that was
  direct,   \* the confidence the first walk ended with
  nodes,    \* definitions in reach of the callback
  seeds,    \* those of them still to be walked from
  paths,    \* the paths found to carry request data into an effect
  flow,     \* the answer: a confidence, or "none" before there is one
  cut       \* history: a taint walk ended with states still to visit

walkVars == <<root, phase, queue, visited, states, direct, nodes, seeds, paths,
              flow, cut>>

Confidence == {"unknown", "reachability_only", "probable", "confirmed"}

CallSite == [caller: Definition,
             type: {"instance_method", "static_method", "function"},
             class: Class \cup {NoClass, "self"},
             name: Name, args: Seq(Var)]
\* What a plugin consists of.
IsProgram(P) ==
  /\ P.calls \subseteq CallSite
  /\ P.source \subseteq Definition \X (Var \cup {NoVar})
  /\ P.assign \in Seq(Definition \X Var \X Var)  \* in the order of the text
  /\ P.effect \subseteq Definition \X (Var \cup {NoVar}) \X Kind
  /\ P.check \subseteq Definition
-----------------------------------------------------------------------------
(* What is found in the body of one definition                             *)

\* The body of a definition starts at its name, so that its own head is taken
\* for a plain call with its parameters as arguments.
Declaration(d) == [caller |-> d, type |-> "function", class |-> NoClass,
                   name |-> NameOf[d], args |-> Params[d]]
CallsOf(d) == {c \in program.calls : c.caller = d} \cup {Declaration(d)}

\* The functions step[1] to step[n], applied in turn.
Repeated(step, x, n) ==
  LET after[k \in 0..n] == IF k = 0 THEN x ELSE step[k][after[k - 1]]
  IN after[n]

\* One pass over the assignments of the body: what is added by one of them is
\* seen by those after it.
AssignmentsOf(d) ==
  [k \in DOMAIN program.assign |-> LET a == program.assign[k] IN
     [vars \in SUBSET Var |->
        IF a[1] = d /\ a[2] \in vars THEN vars \cup {a[3]} ELSE vars]]
Pass(d) == [vars \in SUBSET Var |->
              Repeated(AssignmentsOf(d), vars, Len(program.assign))]

\* The variables that vars are assigned to, and so on, in up to MaxRounds passes.
Assigned(d, vars) == Repeated([k \in 1..MaxRounds |-> Pass(d)], vars, MaxRounds)

SourceVars(d) == {v \in Var : <<d, v>> \in program.source}
Tainted(d) == Assigned(d, SourceVars(d))
HasEffect(d, vars) ==
  \E v \in Assigned(d, vars), k \in Kind : <<d, v, k>> \in program.effect
-----------------------------------------------------------------------------
(* Who is called                                                           *)

TargetClass(c) ==
  IF c.type = "instance_method" \/ c.class = "self"
  THEN ClassOf[c.caller] ELSE c.class

Named(c) == {d \in Definition : NameOf[d] = c.name}
OfClass(c, class) == {d \in Named(c) : ClassOf[d] = class}

\* For the taint walk, and for the walk that collects what is in reach: they
\* differ where $this or self is used outside of a class.
TaintTargets(c) ==
  IF c.type = "function" THEN OfClass(c, NoClass)
  ELSE IF TargetClass(c) = NoClass THEN {} ELSE OfClass(c, TargetClass(c))
ReachTargets(c) ==
  IF c.type = "function" THEN OfClass(c, NoClass)
  ELSE IF TargetClass(c) = NoClass THEN Named(c) ELSE OfClass(c, TargetClass(c))

CalledBy(d) == UNION {ReachTargets(c) : c \in CallsOf(d)}

\* The parameters of d that receive a tainted argument, by position.
TaintedParams(c, d, vars) ==
  {Params[d][i] : i \in {j \in DOMAIN c.args \cap DOMAIN Params[d] :
                           c.args[j] \in vars}}
-----------------------------------------------------------------------------
(* The taint walk                                                          *)

TaintState(d, vars, depth, path) ==
  [def |-> d, vars |-> vars, depth |-> depth, path |-> path]

\* Start at d with vars, where there are any.
StartTaint(d, vars) ==
  /\ queue' = IF vars = {} THEN <<>> ELSE <<TaintState(d, vars, 0, <<d>>)>>
  /\ visited' = {}
  /\ states' = 0

\* Every call with a tainted argument leads on to all its targets.
Onward(s) ==
  {t \in UNION {{TaintState(d, Assigned(d, TaintedParams(c, d, s.vars)),
                            s.depth + 1, Append(s.path, d)) :
                   d \in TaintTargets(c)} : c \in CallsOf(s.def)} :
     t.vars # {}}

\* What makes two states the same.
\* Mutant: a definition is not visited again with other variables.
IdentityOfDefinition(s) == <<s.def, s.depth>>
Identity(s) == <<s.def, s.vars, s.depth>>

Visit ==
  LET s == Head(queue) IN
  /\ phase \in {"direct", "seed"}
  /\ queue # <<>> /\ states < MaxStates
  /\ IF Identity(s) \in visited
     THEN queue' = Tail(queue) /\ UNCHANGED <<visited, states, paths>>
     ELSE /\ visited' = visited \cup {Identity(s)}
          /\ states' = states + 1
          /\ paths' = IF HasEffect(s.def, s.vars) THEN paths \cup {s.path}
                      ELSE paths
          /\ queue' = Tail(queue) \o
                      (IF s.depth >= MaxDepth THEN <<>> ELSE SetToSeq(Onward(s)))
  /\ UNCHANGED <<program, root, phase, direct, nodes, seeds, flow, cut>>

WalkIsOver == queue = <<>> \/ states >= MaxStates

\* A walk that visited only its start tells by the calls in that body.
LocalConfidence(d) ==
  IF \E c \in CallsOf(d) : \E i \in DOMAIN c.args : c.args[i] \in SourceVars(d)
  THEN "probable" ELSE "reachability_only"
-----------------------------------------------------------------------------
(* The three walks                                                         *)

StartFlow(d) ==
  /\ root' = d
  /\ phase' = "direct"
  /\ StartTaint(d, Tainted(d))
  /\ paths' = {}
  /\ direct' = "unknown"
  /\ nodes' = {} /\ seeds' = {}
  /\ flow' = "none"
  /\ cut' = FALSE

DirectConfidence ==
  IF Tainted(root) = {} THEN "unknown"
  ELSE IF paths # {} THEN "confirmed"
  ELSE IF states > 1 THEN "probable"
  ELSE LocalConfidence(root)

EndDirect ==
  /\ phase = "direct" /\ WalkIsOver
  /\ direct' = DirectConfidence
  /\ IF DirectConfidence = "confirmed"
     THEN /\ phase' = "idle" /\ flow' = "confirmed"
          /\ UNCHANGED <<queue, nodes>>
     ELSE /\ phase' = "reach"
          /\ queue' = <<[def |-> root, depth |-> 0, seen |-> {root}]>>
          /\ nodes' = {root}
          /\ UNCHANGED flow
  /\ cut' = (queue # <<>>)
  /\ UNCHANGED <<program, root, visited, states, seeds, paths>>

\* The calls of one path; a definition does not occur twice on a path.
\* Mutant: the depth is compared after the calls were followed.
TooDeepAfter(s) == s.depth > MaxDepth
TooDeep(s) == s.depth >= MaxDepth

Explore ==
  LET s == Head(queue)
      next == IF TooDeep(s) THEN {}
              ELSE CalledBy(s.def) \ s.seen
  IN
  /\ phase = "reach" /\ queue # <<>>
  /\ nodes' = nodes \cup next
  /\ queue' = Tail(queue) \o SetToSeq(
       {[def |-> d, depth |-> s.depth + 1, seen |-> s.seen \cup {d}] : d \in next})
  /\ UNCHANGED <<program, root, phase, visited, states, direct, seeds, paths,
                 flow, cut>>

\* The definitions in reach that read request data are walked from in turn.
EndReach ==
  /\ phase = "reach" /\ queue = <<>>
  /\ seeds' = {d \in nodes : Tainted(d) # {}}
  /\ phase' = "seed"
  /\ states' = 0
  /\ UNCHANGED <<program, root, queue, visited, direct, nodes, paths, flow, cut>>

NextSeed ==
  /\ phase = "seed" /\ WalkIsOver
  /\ \E d \in seeds :
       /\ StartTaint(d, Tainted(d))
       /\ seeds' = seeds \ {d}
  /\ cut' = (cut \/ queue # <<>>)
  /\ UNCHANGED <<program, root, phase, direct, nodes, paths, flow>>

\* The confidence of the whole.
Answer ==
  IF paths # {} THEN "confirmed"
  ELSE IF \E d \in nodes : Tainted(d) # {} THEN "probable"
  ELSE direct

EndFlow ==
  /\ phase = "seed" /\ WalkIsOver /\ seeds = {}
  /\ flow' = Answer
  /\ phase' = "idle"
  /\ cut' = (cut \/ queue # <<>>)
  /\ UNCHANGED <<program, root, queue, visited, states, direct, nodes, seeds,
                 paths>>

WalkStep == Visit \/ EndDirect \/ Explore \/ EndReach \/ NextSeed \/ EndFlow
-----------------------------------------------------------------------------
(* The reference: what the walks are to find                               *)

\* Where at most n steps lead from S, each from some x into next[x].
Spread(next, S, n) ==
  LET after[k \in 0..n] ==
        IF k = 0 THEN S
        ELSE after[k - 1] \cup UNION {next[x] : x \in after[k - 1]}
  IN after[n]

\* All variables that vars are assigned to, however long the chain is.
AssignedFrom(d) ==
  [u \in Var |-> {v \in Var : \E k \in DOMAIN program.assign :
                                program.assign[k] = <<d, u, v>>}]
AllAssigned(d, vars) == Spread(AssignedFrom(d), vars, Cardinality(Var))

\* No chain of assignments in a body needs more passes than are made.
RoundsSuffice ==
  \A d \in Definition : \A vars \in SUBSET Var :
    Assigned(d, vars) = AllAssigned(d, vars)

\* The definitions at most n calls away from d.
Called == [e \in Definition |-> CalledBy(e)]
Within(d, n) == Spread(Called, {d}, n)

\* The pairs of a definition and a single variable that request data read in d
\* gets into over at most n calls.
CarriedFrom(e, v) ==
  {p \in Definition \X Var :
     \E c \in CallsOf(e) :
       /\ p[1] \in TaintTargets(c)
       /\ p[2] \in AllAssigned(p[1], TaintedParams(c, p[1], {v}))}
Carried(d, n) ==
  Spread([q \in Definition \X Var |-> CarriedFrom(q[1], q[2])],
         {<<d, v>> : v \in AllAssigned(d, SourceVars(d))}, n)

\* Request data read in d gets into an effect.
Reaches(d) ==
  \E p \in Carried(d, MaxDepth), k \in Kind : <<p[1], p[2], k>> \in program.effect
FlowExists == \E d \in Within(root, MaxDepth) : Reaches(d)
=============================================================================
