------------------------ MODULE DesignDomainsProofs ------------------------
(***************************************************************************)
(* Proofs about DesignDomains, for designs of any number of instances,     *)
(* modules of any clocks and resets, and any domains.                      *)
(***************************************************************************)
EXTENDS DesignDomains, TLAPS

Working == pc \in {"assign", "clocks", "resets"}

\* The inputs are what Init chose, and the positions are within bounds.
Shape ==
    /\ mods \in [Insts -> Modules] /\ cdoms \subseteq Names
    /\ rdoms \in [Names -> ResetDoms \cup {None}]
    /\ asked \in [Insts -> [Clocks -> Mentioned \cup {None}]]
    /\ askedR \in [Insts -> [Resets -> Mentioned \cup {None}]]
    /\ links \in Links
    /\ pc \in {"assign", "clocks", "resets", "ok", "failed"}
    /\ rst \in Nat \ {0}
    /\ at \in 1..(Len(Comps) + 1)
    /\ Working => at <= Len(Comps)
    /\ clocks \in [Insts -> [Clocks -> Names \cup {None}]]
    /\ resets \in [Insts -> [Resets -> Names \cup {None}]]

\* Instance c has its domains.
Assigned(c) ==
    /\ ~BadNames(c)
    /\ clocks[c] = Given(Clocks, asked[c], mods[c].clocks)
    /\ resets[c] = Given(Resets, askedR[c], ResetNames(c))

\* How far the assignment is, how far the resets are checked, and that the
\* connections were looked at in the end.
Assignments ==
    \A j \in 1..Len(Comps) :
        (pc \in {"clocks", "resets", "ok"} \/ (pc = "assign" /\ j < at))
            => Assigned(Comps[j])

Checked(j, i) == ~Mismatch(Comps[j], mods[Comps[j]].resets[i])

Checks ==
    \A j \in 1..Len(Comps) : \A i \in 1..Len(mods[Comps[j]].resets) :
        (\/ pc = "ok"
         \/ pc \in {"clocks", "resets"} /\ j < at
         \/ pc = "resets" /\ j = at /\ i < rst) => Checked(j, i)

Looked == pc = "ok" => \A l \in links : ~Crosses(l)

\* The inductive invariant.
IInv == Shape /\ Assignments /\ Checks /\ Looked /\ RefusedForAReason

\* Each instance has a position in the design.
LEMMA Positions == \A c \in Insts : \E j \in 1..Len(Comps) : c = Comps[j]
  BY DEF Insts

\* The elements of a sequence over a set are in the set.
LEMMA Elements ==
    ASSUME NEW S, NEW s \in Seq(S)
    PROVE  Len(s) \in Nat /\ \A i \in 1..Len(s) : s[i] \in S
  OBVIOUS

\* A module of the design has the shape of one, and so have its resets.
LEMMA Parts ==
    ASSUME Shape, NEW c \in Insts
    PROVE  /\ mods[c].clocks \subseteq Clocks
           /\ mods[c].bus \in mods[c].clocks \cup {None}
           /\ Len(mods[c].resets) \in Nat
           /\ \A i \in 1..Len(mods[c].resets) :
                 /\ mods[c].resets[i].name \in Resets
                 /\ mods[c].resets[i].sync \in mods[c].clocks \cup {None}
<1>1. mods[c] \in Modules BY DEF Shape
<1>2. ModuleType(mods[c]) BY <1>1, Shapes
<1>3. mods[c].resets \in Seq([name : Resets, low : BOOLEAN,
                              sync : mods[c].clocks \cup {None}])
  BY <1>2 DEF ModuleType
<1>4. Len(mods[c].resets) \in Nat BY <1>3, Elements
<1>5. \A i \in 1..Len(mods[c].resets) :
         mods[c].resets[i] \in [name : Resets, low : BOOLEAN,
                                sync : mods[c].clocks \cup {None}]
  BY <1>3, Elements
<1> QED BY <1>2, <1>4, <1>5 DEF ModuleType

\* An instance that has its domains has those the description means.
LEMMA Meaning ==
    ASSUME Shape, NEW c \in Insts, Assigned(c)
    PROVE  /\ \A k \in mods[c].clocks : clocks[c][k] = DomainOf(c, k)
           /\ \A i \in 1..Len(mods[c].resets) :
                 resets[c][mods[c].resets[i].name]
                    = ResetDomainOf(c, mods[c].resets[i].name)
<1>1. \A k \in mods[c].clocks : clocks[c][k] = DomainOf(c, k)
  BY Parts DEF Assigned, Given, DomainOf
<1>2. \A i \in 1..Len(mods[c].resets) : mods[c].resets[i].name \in ResetNames(c)
  BY DEF ResetNames
<1>3. \A i \in 1..Len(mods[c].resets) :
         resets[c][mods[c].resets[i].name] = ResetDomainOf(c, mods[c].resets[i].name)
  BY <1>2, Parts DEF Assigned, Given, ResetDomainOf
<1> QED BY <1>1, <1>3

\* The design begins with nothing assigned and nothing checked.
LEMMA StartInv == Init => IInv
<1> SUFFICES ASSUME Init PROVE IInv OBVIOUS
<1>1. Len(Comps) \in Nat BY Shapes
<1>2. Comps = <<>> \/ 1 <= Len(Comps) BY <1>1, Shapes
<1>3. Comps = <<>> => Insts = {} /\ Len(Comps) = 0 BY DEF Insts
<1>4. Shape BY <1>1, <1>2, Shapes DEF Shape, Init, Working
<1>5. Assignments BY <1>1, <1>3 DEF Assignments, Init
<1>6. Checks BY <1>1, <1>3 DEF Checks, Init
<1>7. Looked BY <1>3, Shapes DEF Looked, Init
<1>8. RefusedForAReason BY DEF RefusedForAReason, Init
<1> QED BY <1>4, <1>5, <1>6, <1>7, <1>8 DEF IInv

-----------------------------------------------------------------------------
\* The instance that is worked on.
LEMMA Here ==
    ASSUME Shape, Working
    PROVE  /\ Len(Comps) \in Nat
           /\ at \in 1..Len(Comps)
           /\ Comp \in Insts
<1>1. Len(Comps) \in Nat BY Shapes
<1>2. at \in 1..Len(Comps) BY <1>1 DEF Shape
<1> QED BY <1>1, <1>2 DEF Comp, Insts

\* The links of a design are pairs of its instances.
LEMMA Pairs ==
    ASSUME Shape, NEW l \in links
    PROVE  l[1] \in Insts /\ l[2] \in Insts
<1>1. links \subseteq Insts \X Insts BY Shapes DEF Shape
<1> QED BY <1>1

\* Where nothing but positions and connections changes, what was assigned
\* and checked stays so.
LEMMA Kept ==
    ASSUME UNCHANGED <<inputs, clocks, resets>>
    PROVE  /\ \A c : Assigned(c)' <=> Assigned(c)
           /\ \A j, i : Checked(j, i)' <=> Checked(j, i)
           /\ \A l : Crosses(l)' <=> Crosses(l)
           /\ mods' = mods /\ links' = links
  BY DEF inputs, Assigned, BadNames, ResetNames, Given, Checked, Mismatch, Crosses

\* A wrong name is the reason for which an assignment fails.
LEMMA BadIsWrong ==
    ASSUME Shape, NEW c \in Insts, BadNames(c)
    PROVE  NameWrong(c)
<1>1. ResetNames(c) \subseteq Resets BY Parts DEF ResetNames
<1>2. mods[c].clocks \subseteq Clocks BY Parts
<1> QED BY <1>1, <1>2 DEF BadNames, NameWrong, Given, DomainOf, ResetDomainOf

\* A reset that does not fit is one the description puts wrongly, and the
\* other way round.
LEMMA MismatchIsWrong ==
    ASSUME Shape, NEW c \in Insts, Assigned(c), NEW i \in 1..Len(mods[c].resets)
    PROVE  Mismatch(c, mods[c].resets[i]) <=> ResetWrong(c, mods[c].resets[i])
<1>1. mods[c].resets[i].sync \in mods[c].clocks \cup {None} BY Parts
<1> QED BY <1>1, Meaning DEF Mismatch, ResetWrong

\* A connection crosses between clock domains if the description says so.
LEMMA CrossIsWrong ==
    ASSUME Shape, NEW l \in links, Assigned(l[1]), Assigned(l[2])
    PROVE  Crosses(l) <=> LinkWrong(l)
<1>1. l[1] \in Insts /\ l[2] \in Insts BY Pairs
<1>2. mods[l[1]].bus \in mods[l[1]].clocks \cup {None} BY <1>1, Parts
<1>3. mods[l[2]].bus \in mods[l[2]].clocks \cup {None} BY <1>1, Parts
<1> QED BY <1>1, <1>2, <1>3, Meaning DEF Crosses, LinkWrong
-----------------------------------------------------------------------------
\* What is wrong with a description, and the reason of every refusal.
Reason ==
    \/ \E c \in Insts : NameWrong(c)
    \/ \E c \in Insts : \E i \in 1..Len(mods[c].resets) :
          ResetWrong(c, mods[c].resets[i])
    \/ \E l \in links : LinkWrong(l)

\* What is wrong with a description does not change.
LEMMA ReasonKept == ASSUME UNCHANGED inputs PROVE Reason' <=> Reason
  BY DEF inputs, Reason, NameWrong, ResetWrong, LinkWrong, ResetNames,
         DomainOf, ResetDomainOf

\* A design refused for a reason leaves the invariant true.
LEMMA FailInv == ASSUME IInv, Working, Reason, Fail PROVE IInv'
<1> USE DEF Fail
<1>1. Shape' BY DEF IInv, Shape, inputs, Working
<1>2. Assignments' BY DEF Assignments
<1>3. Checks' BY DEF Checks
<1>4. Looked' BY DEF Looked
<1>5. Reason' BY ReasonKept
<1>6. RefusedForAReason' BY <1>5 DEF RefusedForAReason, Reason
<1> QED BY <1>1, <1>2, <1>3, <1>4, <1>6 DEF IInv

\* An assignment is refused for a name that does not exist.
LEMMA AssignFailsInv == IInv /\ AssignFails => IInv'
<1> SUFFICES ASSUME IInv, AssignFails PROVE IInv' OBVIOUS
<1>1. Shape /\ Working BY DEF IInv, AssignFails, Working
<1>2. Comp \in Insts /\ BadNames(Comp) BY <1>1, Here DEF AssignFails
<1>3. NameWrong(Comp) BY <1>1, <1>2, BadIsWrong
<1>4. Reason BY <1>2, <1>3 DEF Reason
<1> QED BY <1>1, <1>4, FailInv DEF AssignFails

\* A reset is refused because the description puts it wrongly.
LEMMA ResetFailsInv == IInv /\ ResetFails => IInv'
<1> SUFFICES ASSUME IInv, ResetFails PROVE IInv' OBVIOUS
<1>1. Shape /\ Working BY DEF IInv, ResetFails, Working
<1>2. Comp \in Insts /\ at \in 1..Len(Comps) BY <1>1, Here
<1>3. Assigned(Comp) BY <1>2 DEF IInv, Assignments, ResetFails, Comp
<1>4. rst \in 1..Len(mods[Comp].resets)
  BY <1>1, <1>2, Parts DEF Shape, ResetFails
<1>5. ResetWrong(Comp, mods[Comp].resets[rst])
  BY <1>1, <1>2, <1>3, <1>4, MismatchIsWrong DEF ResetFails, Reset
<1>6. Reason BY <1>2, <1>4, <1>5 DEF Reason
<1> QED BY <1>1, <1>6, FailInv DEF ResetFails

\* A connection is refused because it crosses between domains.
LEMMA CdcFailsInv == IInv /\ CdcFails => IInv'
<1> SUFFICES ASSUME IInv, CdcFails PROVE IInv' OBVIOUS
<1>1. Shape /\ Working /\ pc = "resets" BY DEF IInv, CdcFails, Working
<1>2. PICK l \in links : Crosses(l) BY DEF CdcFails
<1>3. l[1] \in Insts /\ l[2] \in Insts BY <1>1, Pairs
<1>4. \A c \in Insts : Assigned(c) BY <1>1, Positions DEF IInv, Assignments
<1>5. LinkWrong(l) BY <1>1, <1>2, <1>3, <1>4, CrossIsWrong
<1>6. Reason BY <1>5 DEF Reason
<1> QED BY <1>1, <1>6, FailInv DEF CdcFails

-----------------------------------------------------------------------------
\* What is given to an input is a name, or None where there is no such input.
LEMMA GivenType ==
    ASSUME NEW names, NEW known, NEW given \in [names -> Mentioned \cup {None}]
    PROVE  Given(names, given, known) \in [names -> Names \cup {None}]
  BY Shapes DEF Given

\* The description does not change, nor what is wrong with its names.
LEMMA NamesSame ==
    ASSUME UNCHANGED inputs, NEW d
    PROVE  /\ BadNames(d)' <=> BadNames(d)
           /\ Given(Clocks, asked[d], mods[d].clocks)'
                = Given(Clocks, asked[d], mods[d].clocks)
           /\ Given(Resets, askedR[d], ResetNames(d))'
                = Given(Resets, askedR[d], ResetNames(d))
  BY DEF inputs, BadNames, ResetNames, Given

\* An assignment gives the instance its domains and leaves the others alone.
LEMMA AssignInv == IInv /\ Assign => IInv'
<1> SUFFICES ASSUME IInv, Assign PROVE IInv' OBVIOUS
<1> USE DEF Assign
<1>1. Shape /\ Working /\ pc = "assign" BY DEF IInv, Working
<1>2. at \in 1..Len(Comps) /\ Len(Comps) \in Nat BY <1>1, Here
<1>c. PICK c \in Insts : c = Comp /\ c = Comps[at] BY <1>1, Here DEF Comp
<1>3. UNCHANGED <<mods, asked, askedR, cdoms, rdoms, links, rst, conns>>
  BY DEF inputs
<1>4. clocks' \in [Insts -> [Clocks -> Names \cup {None}]]
  <2>1. asked[c] \in [Clocks -> Mentioned \cup {None}] BY <1>1 DEF Shape
  <2>2. Given(Clocks, asked[c], mods[c].clocks) \in [Clocks -> Names \cup {None}]
    BY <2>1, GivenType
  <2> QED BY <1>1, <1>c, <2>2 DEF Shape
<1>5. resets' \in [Insts -> [Resets -> Names \cup {None}]]
  <2>1. askedR[c] \in [Resets -> Mentioned \cup {None}] BY <1>1 DEF Shape
  <2>2. Given(Resets, askedR[c], ResetNames(c)) \in [Resets -> Names \cup {None}]
    BY <2>1, GivenType
  <2> QED BY <1>1, <1>c, <2>2 DEF Shape
<1>6. Shape'
  <2>1. /\ pc' \in {"assign", "clocks"} /\ at' \in 1..(Len(Comps) + 1)
        /\ Working' => at' <= Len(Comps)
    BY <1>1, <1>2 DEF Working
  <2> QED BY <1>1, <1>3, <1>4, <1>5, <2>1 DEF Shape
<1>7. Assigned(c)'
  <2>1. clocks'[c] = Given(Clocks, asked[c], mods[c].clocks)
    BY <1>1, <1>c DEF Shape
  <2>2. resets'[c] = Given(Resets, askedR[c], ResetNames(c))
    BY <1>1, <1>c DEF Shape
  <2>3. ~BadNames(c) /\ UNCHANGED inputs BY <1>c
  <2> HIDE DEF Assign
  <2> QED BY <2>1, <2>2, <2>3, NamesSame DEF Assigned
<1>8. ASSUME NEW d \in Insts, d # c, Assigned(d) PROVE Assigned(d)'
  <2>1. clocks'[d] = clocks[d] /\ resets'[d] = resets[d] /\ UNCHANGED inputs
    BY <1>1, <1>8, <1>c DEF Shape
  <2> HIDE DEF Assign
  <2> QED BY <1>8, <2>1, NamesSame DEF Assigned
<1>9. Assignments'
  <2> SUFFICES ASSUME NEW j \in 1..Len(Comps),
                      pc' \in {"clocks", "resets", "ok"} \/ (pc' = "assign" /\ j < at')
               PROVE  Assigned(Comps[j])'
    BY DEF Assignments
  <2>1. Comps[j] \in Insts BY DEF Insts
  <2>2. j <= at BY <1>1, <1>2
  <2>3. CASE j = at BY <2>3, <1>7, <1>c
  <2>4. CASE j < at
    <3>1. Assigned(Comps[j]) BY <1>1, <2>4 DEF IInv, Assignments
    <3> QED BY <2>1, <3>1, <1>7, <1>8
  <2> QED BY <1>2, <2>2, <2>3, <2>4
<1>10. Checks' BY <1>1, <1>2 DEF Checks
<1>11. Looked' BY <1>1 DEF Looked
<1>12. RefusedForAReason' BY <1>1 DEF RefusedForAReason
<1> QED BY <1>6, <1>9, <1>10, <1>11, <1>12 DEF IInv

\* A step that neither assigns nor refuses keeps what was assigned, checked
\* and connected.
LEMMA KeptInv ==
    ASSUME IInv, pc \in {"clocks", "resets"}, pc' \in {"clocks", "resets", "ok"},
           UNCHANGED <<inputs, clocks, resets>>
    PROVE  /\ Assignments' /\ RefusedForAReason'
           /\ \A j \in 1..Len(Comps) : \A i \in 1..Len(mods[Comps[j]].resets) :
                 Checked(j, i) => Checked(j, i)'
<1>1. Assignments' BY Kept DEF IInv, Assignments
<1>2. RefusedForAReason' BY DEF RefusedForAReason
<1> QED BY <1>1, <1>2, Kept

\* The clocks of an instance become connections.
LEMMA LowerClocksInv == IInv /\ LowerClocks => IInv'
<1> SUFFICES ASSUME IInv, LowerClocks PROVE IInv' OBVIOUS
<1> USE DEF LowerClocks
<1>1. Shape' BY DEF IInv, Shape, inputs, Working
<1>2. Assignments' /\ RefusedForAReason' BY KeptInv
<1>3. Checks'
  <2> SUFFICES ASSUME NEW j \in 1..Len(Comps), NEW i \in 1..Len(mods[Comps[j]].resets),
                      j < at \/ (j = at /\ i < 1)
               PROVE  Checked(j, i)'
    BY DEF Checks, inputs
  <2>1. Len(mods[Comps[j]].resets) \in Nat BY Parts DEF IInv, Insts
  <2>2. j < at BY <2>1
  <2>3. Checked(j, i) BY <2>2 DEF IInv, Checks
  <2> QED BY <2>3, KeptInv
<1>4. Looked' BY DEF Looked
<1> QED BY <1>1, <1>2, <1>3, <1>4 DEF IInv

\* A reset that fits becomes a connection.
LEMMA LowerResetInv == IInv /\ LowerReset => IInv'
<1> SUFFICES ASSUME IInv, LowerReset PROVE IInv' OBVIOUS
<1> USE DEF LowerReset
<1>1. Shape' BY DEF IInv, Shape, inputs, Working
<1>2. Assignments' /\ RefusedForAReason' BY KeptInv
<1>3. Checks'
  <2> SUFFICES ASSUME NEW j \in 1..Len(Comps), NEW i \in 1..Len(mods[Comps[j]].resets),
                      j < at \/ (j = at /\ i < rst + 1)
               PROVE  Checked(j, i)'
    BY DEF Checks, inputs
  <2>1. Len(mods[Comps[j]].resets) \in Nat BY Parts DEF IInv, Insts
  <2>2. j < at \/ (j = at /\ i < rst) \/ (j = at /\ i = rst)
    BY <2>1 DEF IInv, Shape
  <2>3. Checked(at, rst) BY DEF Checked, Comp, Reset
  <2>4. Checked(j, i) BY <2>2, <2>3 DEF IInv, Checks
  <2> QED BY <2>4, KeptInv
<1>4. Looked' BY DEF Looked
<1> QED BY <1>1, <1>2, <1>3, <1>4 DEF IInv

\* With no connection that crosses, the next instance is lowered or the
\* design is accepted.
LEMMA CheckCdcInv == IInv /\ CheckCdc => IInv'
<1> SUFFICES ASSUME IInv, CheckCdc PROVE IInv' OBVIOUS
<1> USE DEF CheckCdc
<1>1. Shape /\ Working BY DEF IInv, Working
<1>2. at \in 1..Len(Comps) /\ Len(Comps) \in Nat BY <1>1, Here
<1>3. Shape'
  <2>1. /\ pc' \in {"clocks", "ok"} /\ at' \in 1..(Len(Comps) + 1)
        /\ Working' => at' <= Len(Comps)
    BY <1>1, <1>2 DEF Working
  <2> QED BY <1>1, <2>1 DEF Shape, inputs
<1>4. Assignments' /\ RefusedForAReason' BY KeptInv
<1>5. Checks'
  <2> SUFFICES ASSUME NEW j \in 1..Len(Comps), NEW i \in 1..Len(mods[Comps[j]].resets),
                      pc' = "ok" \/ (pc' = "clocks" /\ j < at')
               PROVE  Checked(j, i)'
    BY DEF Checks, inputs
  <2>1. Len(mods[Comps[j]].resets) \in Nat BY <1>1, Parts DEF Insts
  <2>2. j < at \/ j = at BY <1>1, <1>2
  <2>3. i < rst \/ j # at BY <1>1, <2>1 DEF Comp, Shape
  <2>4. Checked(j, i) BY <2>2, <2>3 DEF IInv, Checks
  <2> QED BY <2>4, KeptInv
<1>6. Looked' BY Kept DEF Looked
<1> QED BY <1>3, <1>4, <1>5, <1>6 DEF IInv

\* Nothing changes in a stuttering step.
LEMMA StutterInv == IInv /\ UNCHANGED vars => IInv'
<1> SUFFICES ASSUME IInv, UNCHANGED vars PROVE IInv' OBVIOUS
<1>1. UNCHANGED inputs /\ UNCHANGED <<pc, at, rst, clocks, resets, conns>>
  BY DEF vars
<1>2. Shape' BY <1>1 DEF IInv, Shape, inputs, Working
<1>3. Assignments' BY <1>1, Kept DEF IInv, Assignments
<1>4. Checks' BY <1>1, Kept DEF IInv, Checks
<1>5. Looked' BY <1>1, Kept DEF IInv, Looked
<1>6. RefusedForAReason' BY <1>1, ReasonKept DEF IInv, RefusedForAReason, Reason
<1> QED BY <1>2, <1>3, <1>4, <1>5, <1>6 DEF IInv

\* The invariant holds in every state of the program.
THEOREM Invariance == Spec => []IInv
<1>1. Init => IInv BY StartInv
<1>2. IInv /\ [Next]_vars => IInv'
  BY AssignInv, AssignFailsInv, LowerClocksInv, LowerResetInv, ResetFailsInv,
     CheckCdcInv, CdcFailsInv, StutterInv DEF Next
<1> QED BY <1>1, <1>2, PTL DEF Spec

-----------------------------------------------------------------------------
\* In a design that is accepted, a synchronous reset is in a reset domain
\* that is synchronous to the domain of its clock.
THEOREM ResetsFit == Spec => []ResetsInStep
<1>1. IInv => ResetsInStep
  <2> SUFFICES ASSUME IInv, pc = "ok", NEW c \in Insts,
                      NEW i \in 1..Len(mods[c].resets)
               PROVE  ~ResetWrong(c, mods[c].resets[i])
    BY DEF ResetsInStep
  <2>1. PICK j \in 1..Len(Comps) : c = Comps[j] BY Positions
  <2>2. Assigned(c) BY <2>1 DEF IInv, Assignments
  <2>3. ~Mismatch(c, mods[c].resets[i]) BY <2>1 DEF IInv, Checks, Checked
  <2> QED BY <2>2, <2>3, MismatchIsWrong DEF IInv
<1> QED BY <1>1, Invariance, PTL

\* No connection of a design that is accepted crosses between the domains of
\* known clocks.
THEOREM NothingCrosses == Spec => []NoCrossing
<1>1. IInv => NoCrossing
  <2> SUFFICES ASSUME IInv, pc = "ok", NEW l \in links
               PROVE  ~LinkWrong(l)
    BY DEF NoCrossing
  <2>1. l[1] \in Insts /\ l[2] \in Insts BY Pairs DEF IInv
  <2>2. Assigned(l[1]) /\ Assigned(l[2])
    BY <2>1, Positions DEF IInv, Assignments
  <2>3. ~Crosses(l) BY DEF IInv, Looked
  <2> QED BY <2>2, <2>3, CrossIsWrong DEF IInv
<1> QED BY <1>1, Invariance, PTL

\* A design is refused only when something is wrong with it.
THEOREM NoIdleRefusal == Spec => []RefusedForAReason
<1>1. IInv => RefusedForAReason BY DEF IInv
<1> QED BY <1>1, Invariance, PTL

\* The variables have their types, and an instance that has its domains has
\* domains that exist.
THEOREM TypeCorrect == Spec => []TypeOK
<1>1. IInv => TypeOK
  <2> SUFFICES ASSUME IInv PROVE TypeOK OBVIOUS
  <2>1. Shape BY DEF IInv
  <2>2. ASSUME pc \in {"clocks", "resets", "ok"}, NEW c \in Insts
        PROVE  /\ \A k \in mods[c].clocks : clocks[c][k] \in cdoms
               /\ \A r \in ResetNames(c) : resets[c][r] \in Names
    <3>1. Assigned(c) BY <2>2, Positions DEF IInv, Assignments
    <3>2. mods[c].clocks \subseteq Clocks BY <2>1, Parts
    <3>3. ResetNames(c) \subseteq Resets BY <2>1, Parts DEF ResetNames
    <3>4. \A k \in mods[c].clocks : clocks[c][k] \in cdoms
      BY <3>1, <3>2 DEF Assigned, BadNames
    <3>5. ASSUME NEW r \in ResetNames(c) PROVE resets[c][r] \in Names
      <4>1. resets[c][r] = IF askedR[c][r] = None THEN Default ELSE askedR[c][r]
        BY <3>1, <3>3 DEF Assigned, Given
      <4>2. askedR[c][r] \in Mentioned \cup {None} BY <2>1, <3>3 DEF Shape
      <4> QED BY <4>1, <4>2, Shapes
    <3> QED BY <3>4, <3>5
  <2> QED BY <2>1, <2>2 DEF TypeOK, Shape
<1> QED BY <1>1, Invariance, PTL

-----------------------------------------------------------------------------
(***************************************************************************)
(* The connections made so far.                                            *)
(***************************************************************************)
ClocksDone(j) == \/ pc = "ok"
                 \/ pc \in {"clocks", "resets"} /\ j < at
                 \/ pc = "resets" /\ j = at

ResetDone(j, i) == \/ pc = "ok"
                   \/ pc \in {"clocks", "resets"} /\ j < at
                   \/ pc = "resets" /\ j = at /\ i < rst

OfClock(j, k) == ClockConn(Comps[j], k, clocks[Comps[j]][k])

OfReset(j, i) == LET r == mods[Comps[j]].resets[i] IN
                 ResetConn(Comps[j], r, resets[Comps[j]][r.name])

AllMade ==
    /\ \A j \in 1..Len(Comps) : ClocksDone(j) =>
          \A k \in mods[Comps[j]].clocks : OfClock(j, k) \in conns
    /\ \A j \in 1..Len(Comps) : \A i \in 1..Len(mods[Comps[j]].resets) :
          ResetDone(j, i) => OfReset(j, i) \in conns

NoneElse ==
    pc # "failed" => \A x \in conns :
        \/ \E j \in 1..Len(Comps) : /\ ClocksDone(j)
                                    /\ \E k \in mods[Comps[j]].clocks : x = OfClock(j, k)
        \/ \E j \in 1..Len(Comps) : \E i \in 1..Len(mods[Comps[j]].resets) :
              ResetDone(j, i) /\ x = OfReset(j, i)

\* The connections are named by the description, and it does not change.
LEMMA SameConns ==
    ASSUME UNCHANGED <<inputs, clocks, resets>>
    PROVE  /\ \A j, k : OfClock(j, k)' = OfClock(j, k)
           /\ \A j, i : OfReset(j, i)' = OfReset(j, i)
           /\ mods' = mods
  BY DEF inputs, OfClock, OfReset, ClockConn, ResetConn

LEMMA MadeStart == Init => AllMade /\ NoneElse
<1> SUFFICES ASSUME Init PROVE AllMade /\ NoneElse OBVIOUS
<1>1. conns = {} /\ (pc = "assign" \/ Comps = <<>>) BY DEF Init
<1>2. Comps = <<>> => Len(Comps) = 0 BY Shapes
<1> QED BY <1>1, <1>2 DEF AllMade, NoneElse, ClocksDone, ResetDone

\* A step that lowers nothing.
LEMMA MadeWaits ==
    ASSUME Shape, AllMade, NoneElse, UNCHANGED conns, UNCHANGED <<inputs, clocks, resets>>,
           \A j \in 1..Len(Comps) : ClocksDone(j)' <=> ClocksDone(j),
           \A j \in 1..Len(Comps) : \A i \in 1..Len(mods[Comps[j]].resets) :
              ResetDone(j, i)' <=> ResetDone(j, i),
           pc # "failed"
    PROVE  AllMade' /\ NoneElse'
<1>1. AllMade' BY SameConns DEF AllMade
<1>2. NoneElse' BY SameConns DEF NoneElse
<1> QED BY <1>1, <1>2

\* A step that adds the connections of instance `at', or the one of a reset.
LEMMA MadeLowerClocks ==
    ASSUME IInv, AllMade, NoneElse, LowerClocks PROVE AllMade' /\ NoneElse'
<1>1. /\ Shape /\ pc = "clocks" /\ pc' = "resets" /\ at' = at /\ rst' = 1
      /\ UNCHANGED <<inputs, clocks, resets>> /\ mods' = mods
      /\ conns' = conns \cup {OfClock(at, k) : k \in mods[Comps[at]].clocks}
  BY DEF IInv, LowerClocks, inputs, OfClock, Comp
<1>2. at \in 1..Len(Comps) /\ Len(Comps) \in Nat BY <1>1, Here DEF Working
<1>3. \A j \in 1..Len(Comps) : ClocksDone(j)' <=> ClocksDone(j) \/ j = at
  BY <1>1, <1>2 DEF ClocksDone
<1>4. \A j \in 1..Len(Comps) : \A i \in 1..Len(mods[Comps[j]].resets) :
         ResetDone(j, i)' <=> ResetDone(j, i)
  <2> SUFFICES ASSUME NEW j \in 1..Len(Comps), NEW i \in 1..Len(mods[Comps[j]].resets)
               PROVE  ResetDone(j, i)' <=> ResetDone(j, i)
    OBVIOUS
  <2>1. Comps[j] \in Insts BY DEF Insts
  <2>2. ~(i < 1) BY <1>1, <2>1, Parts
  <2> QED BY <1>1, <2>2 DEF ResetDone
<1>5. AllMade'
  <2>1. ASSUME NEW j \in 1..Len(Comps), ClocksDone(j)', NEW k \in mods[Comps[j]].clocks
        PROVE  OfClock(j, k)' \in conns'
    BY <1>1, <1>3, <2>1, SameConns DEF AllMade
  <2>2. ASSUME NEW j \in 1..Len(Comps), NEW i \in 1..Len(mods[Comps[j]].resets), ResetDone(j, i)'
        PROVE  OfReset(j, i)' \in conns'
    BY <1>1, <1>4, <2>2, SameConns DEF AllMade
  <2> QED BY <1>1, <2>1, <2>2 DEF AllMade
<1>6. NoneElse'
  <2> SUFFICES ASSUME NEW x \in conns'
               PROVE  \/ \E j \in 1..Len(Comps) :
                            ClocksDone(j)' /\ \E k \in mods[Comps[j]].clocks : x = OfClock(j, k)
                      \/ \E j \in 1..Len(Comps) : \E i \in 1..Len(mods[Comps[j]].resets) :
                            ResetDone(j, i)' /\ x = OfReset(j, i)
    BY <1>1, SameConns DEF NoneElse
  <2>1. CASE x \in conns
    BY <1>1, <1>3, <1>4, <2>1 DEF NoneElse
  <2>2. CASE x \notin conns
    BY <1>1, <1>2, <1>3, <2>2
  <2> QED BY <2>1, <2>2
<1> QED BY <1>5, <1>6

LEMMA MadeLowerReset ==
    ASSUME IInv, AllMade, NoneElse, LowerReset PROVE AllMade' /\ NoneElse'
<1>1. /\ Shape /\ pc = "resets" /\ pc' = "resets" /\ at' = at /\ rst' = rst + 1
      /\ rst <= Len(mods[Comps[at]].resets) /\ rst \in Nat \ {0}
      /\ UNCHANGED <<inputs, clocks, resets>> /\ mods' = mods
      /\ conns' = conns \cup {OfReset(at, rst)}
  BY DEF IInv, Shape, LowerReset, inputs, OfReset, Comp, Reset
<1>2. at \in 1..Len(Comps) /\ Len(Comps) \in Nat BY <1>1, Here DEF Working
<1>3. \A j \in 1..Len(Comps) : ClocksDone(j)' <=> ClocksDone(j)
  BY <1>1 DEF ClocksDone
<1>4. \A j \in 1..Len(Comps) : \A i \in 1..Len(mods[Comps[j]].resets) :
         ResetDone(j, i)' <=> ResetDone(j, i) \/ (j = at /\ i = rst)
  <2> SUFFICES ASSUME NEW j \in 1..Len(Comps), NEW i \in 1..Len(mods[Comps[j]].resets)
               PROVE  ResetDone(j, i)' <=> ResetDone(j, i) \/ (j = at /\ i = rst)
    OBVIOUS
  <2>1. Comps[j] \in Insts BY DEF Insts
  <2>2. i < rst + 1 <=> i < rst \/ i = rst BY <1>1, <2>1, Parts
  <2>3. ~(at < at) BY <1>2
  <2> QED BY <1>1, <2>2, <2>3 DEF ResetDone
<1>5. rst \in 1..Len(mods[Comps[at]].resets)
  <2>1. Comps[at] \in Insts BY <1>2 DEF Insts
  <2> QED BY <1>1, <2>1, Parts
<1>6. AllMade'
  <2>1. ASSUME NEW j \in 1..Len(Comps), ClocksDone(j)', NEW k \in mods[Comps[j]].clocks
        PROVE  OfClock(j, k)' \in conns'
    BY <1>1, <1>3, <2>1, SameConns DEF AllMade
  <2>2. ASSUME NEW j \in 1..Len(Comps), NEW i \in 1..Len(mods[Comps[j]].resets), ResetDone(j, i)'
        PROVE  OfReset(j, i)' \in conns'
    BY <1>1, <1>4, <2>2, SameConns DEF AllMade
  <2> QED BY <1>1, <2>1, <2>2 DEF AllMade
<1>7. NoneElse'
  <2> SUFFICES ASSUME NEW x \in conns'
               PROVE  \/ \E j \in 1..Len(Comps) :
                            ClocksDone(j)' /\ \E k \in mods[Comps[j]].clocks : x = OfClock(j, k)
                      \/ \E j \in 1..Len(Comps) : \E i \in 1..Len(mods[Comps[j]].resets) :
                            ResetDone(j, i)' /\ x = OfReset(j, i)
    BY <1>1, SameConns DEF NoneElse
  <2>1. CASE x \in conns
    BY <1>1, <1>3, <1>4, <2>1 DEF NoneElse
  <2>2. CASE x \notin conns
    BY <1>1, <1>2, <1>4, <1>5, <2>2
  <2> QED BY <2>1, <2>2
<1> QED BY <1>6, <1>7

\* An instance is done when its connections were checked, the design with
\* the last one.
LEMMA MadeCheck ==
    ASSUME IInv, AllMade, NoneElse, CheckCdc PROVE AllMade' /\ NoneElse'
<1>1. /\ Shape /\ pc = "resets" /\ rst > Len(mods[Comps[at]].resets) /\ rst \in Nat
      /\ \/ at < Len(Comps) /\ at' = at + 1 /\ pc' = "clocks"
         \/ at = Len(Comps) /\ pc' = "ok"
      /\ UNCHANGED <<inputs, clocks, resets, conns>> /\ mods' = mods
  <2>1. Shape /\ Working BY DEF IInv, CheckCdc, Working
  <2>2. at \in 1..Len(Comps) /\ Len(Comps) \in Nat BY <2>1, Here
  <2> QED BY <2>1, <2>2 DEF Shape, CheckCdc, inputs, Comp
<1>2. at \in 1..Len(Comps) /\ Len(Comps) \in Nat BY <1>1, Here DEF Working
<1>3. \A j \in 1..Len(Comps) : ClocksDone(j)' <=> ClocksDone(j)
  BY <1>1, <1>2 DEF ClocksDone
<1>4. \A j \in 1..Len(Comps) : \A i \in 1..Len(mods[Comps[j]].resets) :
         ResetDone(j, i)' <=> ResetDone(j, i)
  <2> SUFFICES ASSUME NEW j \in 1..Len(Comps), NEW i \in 1..Len(mods[Comps[j]].resets)
               PROVE  ResetDone(j, i)' <=> ResetDone(j, i)
    OBVIOUS
  <2>1. Comps[j] \in Insts BY DEF Insts
  <2>2. j = at => i < rst BY <1>1, <2>1, Parts
  <2>3. j <= at <=> j < at \/ j = at BY <1>2
  <2>4. j < at + 1 <=> j <= at BY <1>2
  <2>5. at = Len(Comps) => j <= at BY <1>2
  <2> QED BY <1>1, <2>2, <2>3, <2>4, <2>5 DEF ResetDone
<1> QED BY <1>1, <1>3, <1>4, MadeWaits

LEMMA MadeAssign ==
    ASSUME IInv, AllMade, NoneElse, Assign PROVE AllMade' /\ NoneElse'
<1>1. Shape /\ pc = "assign" /\ pc' \in {"assign", "clocks"} /\ conns' = conns
  BY DEF IInv, Assign
<1>2. pc' = "clocks" => at' = 1 BY <1>1 DEF Assign
<1>3. \A j \in 1..Len(Comps) : ~ClocksDone(j) /\ \A i : ~ResetDone(j, i)
  BY <1>1 DEF ClocksDone, ResetDone
<1>4. \A j \in 1..Len(Comps) : ~ClocksDone(j)' /\ \A i : ~ResetDone(j, i)'
  BY <1>1, <1>2 DEF ClocksDone, ResetDone
<1>5. conns' = {} BY <1>1, <1>3 DEF NoneElse
<1> QED BY <1>4, <1>5 DEF AllMade, NoneElse

LEMMA MadeInv == Spec => [](IInv /\ AllMade /\ NoneElse)
<1>1. ASSUME IInv, AllMade, NoneElse, [Next]_vars PROVE AllMade' /\ NoneElse'
  <2>1. CASE Fail
    <3>1. pc' = "failed" BY <2>1 DEF Fail
    <3>2. \A j : ~ClocksDone(j)' /\ \A i : ~ResetDone(j, i)'
      BY <3>1 DEF ClocksDone, ResetDone
    <3> QED BY <3>1, <3>2 DEF AllMade, NoneElse
  <2>2. CASE UNCHANGED vars
    <3>1. UNCHANGED <<inputs, clocks, resets>> /\ UNCHANGED <<pc, at, rst, conns>> /\ mods' = mods
      BY <2>2 DEF vars, inputs
    <3>2. /\ \A j : ClocksDone(j)' <=> ClocksDone(j)
          /\ \A j, i : ResetDone(j, i)' <=> ResetDone(j, i)
      BY <3>1 DEF ClocksDone, ResetDone
    <3>3. AllMade' BY <1>1, <3>1, <3>2, SameConns DEF AllMade
    <3>4. NoneElse' BY <1>1, <3>1, <3>2, SameConns DEF NoneElse
    <3> QED BY <3>3, <3>4
  <2> QED
    BY <1>1, <2>1, <2>2, MadeAssign, MadeLowerClocks, MadeLowerReset, MadeCheck
       DEF Next, AssignFails, ResetFails, CdcFails
<1> QED BY <1>1, MadeStart, Invariance, PTL DEF Spec

\* A design that is accepted has for each clock and reset input of each
\* instance the connection from its domain, inverted where the polarities
\* differ, and no other (lower_domains).
THEOREM ExactlyLowered == Spec => []Lowered
<1>1. IInv /\ AllMade /\ NoneElse => Lowered
  <2> SUFFICES ASSUME IInv, AllMade, NoneElse, pc = "ok" PROVE Lowered
    BY DEF Lowered
  <2> DEFINE want(c, i) == [from |-> ResetDomainOf(c, mods[c].resets[i].name),
                            to |-> <<c, mods[c].resets[i].name>>,
                            invert |-> rdoms[ResetDomainOf(c, mods[c].resets[i].name)].low
                                          # mods[c].resets[i].low]
  <2> DEFINE wantC(c, k) == [from |-> DomainOf(c, k), to |-> <<c, k>>, invert |-> FALSE]
  <2>1. \A j \in 1..Len(Comps) : Comps[j] \in Insts /\ Assigned(Comps[j])
    BY DEF IInv, Assignments, Insts
  <2>2. \A j \in 1..Len(Comps) : \A k \in mods[Comps[j]].clocks :
           OfClock(j, k) = wantC(Comps[j], k)
    BY <2>1, Meaning DEF IInv, OfClock, ClockConn
  <2>3. \A j \in 1..Len(Comps) : \A i \in 1..Len(mods[Comps[j]].resets) :
           OfReset(j, i) = want(Comps[j], i)
    BY <2>1, Meaning DEF IInv, OfReset, ResetConn
  <2> HIDE DEF want, wantC
  <2>4. \A c \in Insts : \A k \in mods[c].clocks : wantC(c, k) \in conns
    BY <2>2, Positions DEF AllMade, ClocksDone
  <2>5. \A c \in Insts : \A i \in 1..Len(mods[c].resets) : want(c, i) \in conns
    BY <2>3, Positions DEF AllMade, ResetDone
  <2>6. \A x \in conns : \/ \E c \in Insts : \E k \in mods[c].clocks : x = wantC(c, k)
                         \/ \E c \in Insts : \E i \in 1..Len(mods[c].resets) : x = want(c, i)
    BY <2>1, <2>2, <2>3 DEF NoneElse
  <2>7. conns = (UNION {{wantC(c, k) : k \in mods[c].clocks} : c \in Insts})
                \cup (UNION {{want(c, i) : i \in 1..Len(mods[c].resets)} : c \in Insts})
    <3> DEFINE C(c) == {wantC(c, k) : k \in mods[c].clocks}
    <3> DEFINE R(c) == {want(c, i) : i \in 1..Len(mods[c].resets)}
    <3>1. \A c \in Insts : \A x : x \in C(c) <=> \E k \in mods[c].clocks : x = wantC(c, k)
      OBVIOUS
    <3>2. \A c \in Insts : \A x : x \in R(c) <=> \E i \in 1..Len(mods[c].resets) : x = want(c, i)
      OBVIOUS
    <3> HIDE DEF C, R
    <3>3. \A x : x \in conns <=> \E c \in Insts : x \in C(c) \/ x \in R(c)
      <4>1. \A c \in Insts : \A x \in C(c) : x \in conns BY <2>4, <3>1
      <4>2. \A c \in Insts : \A x \in R(c) : x \in conns BY <2>5, <3>2
      <4>3. ASSUME NEW x \in conns PROVE \E c \in Insts : x \in C(c) \/ x \in R(c)
        <5>1. CASE \E c \in Insts : \E k \in mods[c].clocks : x = wantC(c, k)
          BY <3>1, <5>1
        <5>2. CASE \E c \in Insts : \E i \in 1..Len(mods[c].resets) : x = want(c, i)
          BY <3>2, <5>2
        <5> QED BY <2>6, <5>1, <5>2
      <4> QED BY <4>1, <4>2, <4>3
    <3>4. conns = (UNION {C(c) : c \in Insts}) \cup (UNION {R(c) : c \in Insts})
      <4> DEFINE A == UNION {C(c) : c \in Insts}
      <4> DEFINE B == UNION {R(c) : c \in Insts}
      <4>1. \A x : x \in A <=> \E c \in Insts : x \in C(c) OBVIOUS
      <4>2. \A x : x \in B <=> \E c \in Insts : x \in R(c) OBVIOUS
      <4> HIDE DEF A, B
      <4>3. \A x : x \in conns <=> x \in A \cup B BY <3>3, <4>1, <4>2
      <4>4. conns = A \cup B BY <4>3
      <4> QED BY <4>4 DEF A, B
    <3> QED BY <3>4 DEF C, R
  <2> QED BY <2>7 DEF Lowered, want, wantC
<1> QED BY <1>1, MadeInv, PTL
=============================================================================
