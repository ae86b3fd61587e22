----------------------------- MODULE Parameters -----------------------------
(***************************************************************************)
(* evaluate_parameter_list (hdl_parsers_utils.py): parameters refer to     *)
(* each other by name, in any order, and the ones that cannot be evaluated *)
(* are returned.  They are tried from a queue; one that fails goes back to *)
(* its other end, and it ends when all that are left have failed since the *)
(* last one that did not.  What raises an exception that is not caught     *)
(* there ends it too, whatever was evaluated before.                       *)
(*                                                                         *)
(* A value is abstracted to the names it is computed from.  Names are kept *)
(* for all cores together, as in the code: a name of one core serves the   *)
(* expressions of another.                                                 *)
(***************************************************************************)
EXTENDS Naturals, Sequences, SequencesExt

CONSTANTS Uses,        \* the names an expression refers to: value -> set of names
          Numerals,    \* the values that are numbers
          Raising      \* the values that raise: no text, and statements that are no expressions

\* A value with a name that is not known, or that cannot be read as Python at all, fails:
\* NameNotDefined, SyntaxError and ValueError are caught.
Evaluates(value, names) ==
    value \in Numerals \/ (value \in DOMAIN Uses /\ Uses[value] \subseteq names)

\* simple_eval raises an InvalidExpression of another kind, which is not caught.
Raises(value) == value \in Raising

Start(params) == [work |-> params, names |-> {}, fails |-> 0, raised |-> FALSE]

Try(s) ==
    LET p == Last(s.work)
        rest == Front(s.work)
    IN  IF s.raised \/ s.work = <<>> \/ s.fails >= Len(s.work) THEN s
        ELSE IF Raises(p.value) THEN [s EXCEPT !.raised = TRUE]
        ELSE IF Evaluates(p.value, s.names)
        THEN [s EXCEPT !.work = rest, !.names = @ \cup {p.name}, !.fails = 0]
        ELSE [s EXCEPT !.work = <<p>> \o rest, !.fails = @ + 1]

\* The loop ends after so many steps.
Evaluate(params) ==
    LET after[k \in Nat] == IF k = 0 THEN Start(params) ELSE Try(after[k - 1])
    IN  after[Len(params) * (Len(params) + 1)]
=============================================================================
