---------------------------- MODULE MCCandidateMap ----------------------------
(***************************************************************************)
(* A method and a function of the same name, and a second function.  The   *)
(* plugins have at most two calls and one of each fact about a variable.   *)
(***************************************************************************)
EXTENDS CandidateMap

CONSTANTS d1, d2, d3, n, m, A, p, x, y

MCNameOf == d1 :> n @@ d2 :> n @@ d3 :> m
MCClassOf == d1 :> A @@ d2 :> NoClass @@ d3 :> NoClass
MCParams == [d \in Definition |-> <<p, x>>]
MCHintsOf == n :> 1 @@ m :> 5
MCInside == {<<n, n>>, <<m, m>>}

Call(d, type, name, args) == [caller |-> d, type |-> type, class |-> NoClass,
                            name |-> name, args |-> args]
Args == {<<x>>, <<p, x>>}
Calls == {Call(d, "function", k, a) : d \in Definition, k \in Name, a \in Args}
         \cup {Call(d1, "instance_method", k, a) : k \in Name, a \in Args}
AtMostTwo == {{}} \cup {{a, b} : a \in Calls, b \in Calls}

Lookup == <<d1, p, "object_lookup">>
Config == <<d3, x, "configuration_write">>
Roles == {<<d, v, "role_change">> : d \in Definition, v \in {p, x}}

\* One pass takes x to y only, and not on to p.
Backwards == <<<<d2, y, p>>, <<d2, x, y>>>>

MCProgram ==
  [calls: AtMostTwo,
   source: {{}, {<<d1, NoVar>>}} \cup {{<<d, x>>} : d \in Definition},
   assign: {<<>>, <<<<d2, p, x>>>>, Backwards},
   effect: {{}, {Lookup}, {Config}, {Config, Lookup}} \cup {{e} : e \in Roles},
   check: {{}}]

Reg(surface, unclear, class) ==
  [surface |-> surface, unclear |-> unclear, rest |-> unclear,
   name |-> n, class |-> class]
Public == Reg("known_public", FALSE, A)
Rest == Reg("unknown", TRUE, NoClass)
Plain == Reg("unknown", FALSE, NoClass)
MCRegistrations == {{}, {Public}, {Rest}, {Plain}, {Public, Rest}}
=============================================================================
