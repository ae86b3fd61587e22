-------------------------- MODULE MCDesignDomains --------------------------
(***************************************************************************)
(* Two instances of modules with up to two clocks and two resets, in a     *)
(* design with up to two clock domains and two reset domains.              *)
(***************************************************************************)
EXTENDS DesignDomains

CONSTANTS c1, c2

TwoComps == <<c1, c2>>

\* A clock with a reset of its own, an asynchronous reset with an interface
\* whose clock is not known, and two clocks with a reset for the second.
TheModules ==
    {[clocks |-> {"ck"}, bus |-> "ck",
      resets |-> <<[name |-> "r", low |-> TRUE, sync |-> "ck"]>>],
     [clocks |-> {}, bus |-> None,
      resets |-> <<[name |-> "r", low |-> FALSE, sync |-> None]>>],
     [clocks |-> {"ck", "ck2"}, bus |-> "ck2",
      resets |-> <<[name |-> "r", low |-> TRUE, sync |-> "ck2"],
                   [name |-> "q", low |-> FALSE, sync |-> None]>>]}

TheResetDoms == {[low |-> TRUE, sync |-> "default"], [low |-> FALSE, sync |-> "other"],
                 [low |-> FALSE, sync |-> None]}

TheLinks == {{<<c1, c2>>}}
=============================================================================
