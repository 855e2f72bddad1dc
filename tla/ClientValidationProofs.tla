----------------------- MODULE ClientValidationProofs -----------------------
(***************************************************************************)
(* The invariants of ClientValidation hold for every form, whatever its    *)
(* fields, attributes and texts.  VerdictsAreShown and ResetForgets do not *)
(* depend on the rules; RulesMeanTheMarkup and OnlyBlanksAreRefused rest   *)
(* on what the registered adapters make of an element (RulesOfElement),    *)
(* shown by induction over their turns.                                    *)
(***************************************************************************)
EXTENDS ClientValidation, TLAPS, WellFoundedInduction

(* The container of a judged field, as VerdictsAreShown wants it.          *)
ShowsVerdict(n) ==
    Element(n).slot # "none" =>
       IF Valid(n, value[n])
       THEN container[n].class = "valid"
       ELSE /\ container[n].class = "error"
            /\ Element(n).slot = "replace" => container[n].message = "label"

Forgotten(n) ==
    container[n].class = "valid" /\ n \notin submitted /\ n \notin invalid

Typing ==
    /\ value \in [Fields -> Texts]
    /\ default \in [Fields -> Texts]
    /\ container \in [Fields -> [class : Classes, message : Messages]]
    /\ judged \in [Fields -> {"none", "fresh", "stale"}]
    /\ isReset \in BOOLEAN

(* No field of a page that is loading has been judged; of the others, what *)
(* is shown agrees with the history.                                       *)
IInv ==
    /\ Typing
    /\ phase = "loading" => \A n \in Fields : judged[n] = "none"
    /\ phase = "ready" =>
          \A n \in Fields : judged[n] = "fresh" => ShowsVerdict(n)
    /\ isReset => \A n \in Fields : judged[n] = "none" => Forgotten(n)

(* A verdict that is shown by ShowLabel is shown rightly. *)
LEMMA LabelShowsVerdict ==
    ASSUME NEW n \in Fields, NEW v,
           container[n] \in [class : Classes, message : Messages],
           Element(n).slot # "none"
    PROVE  /\ Valid(n, v) => ShowLabel(n, v).class = "valid"
           /\ ~Valid(n, v) =>
                 /\ ShowLabel(n, v).class = "error"
                 /\ Element(n).slot = "replace"
                       => ShowLabel(n, v).message = "label"
  BY DEF ShowLabel, OnSuccess, OnError, Classes, Messages

LEMMA LabelType ==
    ASSUME NEW n \in Fields, NEW v,
           container[n] \in [class : Classes, message : Messages]
    PROVE  ShowLabel(n, v) \in [class : Classes, message : Messages]
  BY DEF ShowLabel, OnSuccess, OnError, Classes, Messages

LEMMA SameForm ==
    ASSUME form' = form
    PROVE  Fields' = Fields /\ \A n : Element(n)' = Element(n)
  BY DEF Fields, Element

LEMMA SamePlugin ==
    ASSUME options' = options
    PROVE  \A n, v : Valid(n, v)' = Valid(n, v)
  BY DEF Valid

(* Judging the fields N, with the texts that the fields then have, keeps   *)
(* the invariant of the fields, provided the others are left as they are.  *)
LEMMA JudgeKeeps ==
    ASSUME IInv, phase = "ready", form' = form, options' = options,
           isReset' = isReset, default' = default,
           value' \in [Fields -> Texts],
           NEW N \in SUBSET Fields,
           Judge(N, value'),
           \A n \in Fields \ N : value'[n] = value[n],
           submitted' \cup invalid' \subseteq submitted \cup invalid \cup N,
           phase' # "loading"
    PROVE  IInv'
<1>1. Fields' = Fields /\ \A n : Element(n)' = Element(n)
  BY SameForm
<1>2. \A n, v : Valid(n, v)' = Valid(n, v)
  BY SamePlugin
<1>3. ASSUME NEW n \in Fields
      PROVE  /\ container'[n] = IF n \in N THEN ShowLabel(n, value'[n])
                                           ELSE container[n]
             /\ judged'[n] = IF n \in N THEN "fresh" ELSE judged[n]
  BY DEF Judge
<1>4. Typing'
  <2>1. container' \in [Fields -> [class : Classes, message : Messages]]
    <3>1. ASSUME NEW n \in Fields
          PROVE  ShowLabel(n, value'[n]) \in [class : Classes, message : Messages]
      BY LabelType DEF IInv, Typing
    <3> QED
      BY <3>1 DEF Judge, IInv, Typing
  <2>2. judged' \in [Fields -> {"none", "fresh", "stale"}]
    BY DEF Judge, IInv, Typing
  <2> QED
    BY <1>1, <2>1, <2>2 DEF IInv, Typing
<1>5. ASSUME NEW n \in Fields, judged'[n] = "fresh"
      PROVE  ShowsVerdict(n)'
  <2>1. CASE n \in N
    BY <2>1, <1>1, <1>2, <1>3, LabelShowsVerdict DEF ShowsVerdict, IInv, Typing
  <2>2. CASE n \notin N
    BY <2>2, <1>1, <1>2, <1>3, <1>5 DEF ShowsVerdict, IInv
  <2> QED
    BY <2>1, <2>2
<1>6. ASSUME NEW n \in Fields, isReset', judged'[n] = "none"
      PROVE  Forgotten(n)'
  <2>1. n \notin N /\ judged[n] = "none"
    BY <1>3, <1>6
  <2> QED
    BY <2>1, <1>3, <1>6 DEF Forgotten, IInv
<1> QED
  BY <1>1, <1>4, <1>5, <1>6 DEF IInv

LEMMA RenderKeeps ==
    ASSUME NEW texts \in [Fields -> Texts], NEW refused, form' = form,
           Render(texts, refused)
    PROVE  IInv'
<1>1. Fields' = Fields
  BY SameForm
<1>2. container' \in [Fields -> [class : Classes, message : Messages]]
  BY DEF Render, Classes, Messages
<1> QED
  BY <1>1, <1>2 DEF Render, IInv, Typing

LEMMA InitIInv == Init => IInv
<1> SUFFICES ASSUME Init PROVE IInv
  OBVIOUS
<1>1. container \in [Fields -> [class : Classes, message : Messages]]
  BY DEF Init, Classes, Messages
<1>2. value \in [Fields -> Texts]
  BY TextsAssumption DEF Init
<1> QED
  BY <1>1, <1>2 DEF Init, IInv, Typing

LEMMA NextIInv == IInv /\ [Next]_vars => IInv'
<1> SUFFICES ASSUME IInv, [Next]_vars PROVE IInv'
  OBVIOUS
<1>typing. Typing
  BY DEF IInv
<1>1. CASE Ready
  <2>1. Fields' = Fields
    BY <1>1, SameForm DEF Ready
  <2>2. \A n \in Fields : judged'[n] = "none"
    BY <1>1 DEF Ready, IInv
  <2>3. Typing'
    BY <1>1, <1>typing, <2>1 DEF Ready, Typing, shown
  <2>4. isReset' => \A n \in Fields : Forgotten(n)'
    BY <1>1 DEF Ready, IInv, Forgotten, shown
  <2> QED
    BY <1>1, <2>1, <2>2, <2>3, <2>4 DEF IInv, Ready
<1>2. ASSUME NEW n \in TextFields, NEW v \in Texts, Paste(n, v)
      PROVE  IInv'
  <2>1. Fields' = Fields /\ (\A m : Element(m)' = Element(m))
    BY <1>2, SameForm DEF Paste
  <2>2. \A m, w : Valid(m, w)' = Valid(m, w)
    BY <1>2, SamePlugin DEF Paste, plugin
  <2>3. Typing'
    <3>1. value' \in [Fields -> Texts]
      BY <1>2, <1>typing DEF Paste, Typing
    <3>2. judged' \in [Fields -> {"none", "fresh", "stale"}]
      BY <1>2, <1>typing DEF Paste, Typing
    <3> QED
      BY <1>2, <1>typing, <2>1, <3>1, <3>2 DEF Paste, Typing, shown
  <2>4. ASSUME NEW m \in Fields
        PROVE  /\ judged'[m] = "fresh" => m # n /\ judged[m] = "fresh"
               /\ judged'[m] = "none" <=> judged[m] = "none"
    BY <1>2, <1>typing DEF Paste, Typing
  <2>5. ASSUME NEW m \in Fields, judged'[m] = "fresh", phase = "ready"
        PROVE  ShowsVerdict(m)'
    <3>1. m # n /\ ShowsVerdict(m)
      BY <2>4, <2>5 DEF IInv
    <3>2. value'[m] = value[m] /\ container' = container
      BY <1>2, <1>typing, <3>1 DEF Paste, Typing, shown
    <3> QED
      BY <3>1, <3>2, <2>1, <2>2 DEF ShowsVerdict
  <2>6. ASSUME NEW m \in Fields, judged'[m] = "none", isReset'
        PROVE  Forgotten(m)'
    BY <1>2, <2>4, <2>6 DEF Paste, IInv, Forgotten, plugin, shown
  <2>7. phase' = phase
    BY <1>2 DEF Paste
  <2> QED
    BY <2>1, <2>3, <2>4, <2>5, <2>6, <2>7 DEF IInv
<1>3. ASSUME NEW n \in TextFields, NEW v \in Texts, Type(n, v)
      PROVE  IInv'
  <2>1. n \in Fields
    BY DEF TextFields
  <2>2. value' \in [Fields -> Texts] /\ \A m \in Fields \ {n} : value'[m] = value[m]
    BY <1>3, <1>typing DEF Type, Typing
  <2>3. /\ Judge({n}, value')
        /\ submitted' \cup invalid' \subseteq submitted \cup invalid \cup {n}
    BY <1>3 DEF Type, JudgeOne
  <2> QED
    BY <1>3, <2>1, <2>2, <2>3, JudgeKeeps DEF Type
<1>4. ASSUME NEW n \in TextFields, FocusOut(n)
      PROVE  IInv'
  <2>1. n \in Fields
    BY DEF TextFields
  <2>2. value' = value /\ value' \in [Fields -> Texts]
    BY <1>4, <1>typing DEF FocusOut, Typing
  <2>3. /\ Judge({n}, value')
        /\ submitted' \cup invalid' \subseteq submitted \cup invalid \cup {n}
    BY <1>4, <2>2 DEF FocusOut, JudgeOne
  <2> QED
    BY <1>4, <2>1, <2>2, <2>3, JudgeKeeps DEF FocusOut
<1>5. CASE Submit
  <2>1. value' = value /\ value' \in [Fields -> Texts]
    BY <1>5, <1>typing DEF Submit, Typing
  <2>2. /\ Judge(Fields, value')
        /\ submitted' \cup invalid' \subseteq submitted \cup invalid \cup Fields
        /\ phase' # "loading"
    BY <1>5, <2>1 DEF Submit
  <2> QED
    BY <1>5, <2>1, <2>2, JudgeKeeps DEF Submit
<1>6. CASE SubmitUnchecked
  <2>1. Fields' = Fields
    BY <1>6, SameForm DEF SubmitUnchecked
  <2> QED
    BY <1>6, <2>1 DEF SubmitUnchecked, IInv, Typing, Forgotten, plugin, shown
<1>7. CASE Reset
  <2>1. Fields' = Fields
    BY <1>7, SameForm DEF Reset
  <2>2. ASSUME NEW n \in Fields
        PROVE  judged'[n] = "none" /\ Forgotten(n)'
    BY <1>7, <1>typing DEF Reset, ResetForm, Forgotten, Typing
  <2>3. Typing'
    BY <1>7, <1>typing, <2>1 DEF Reset, Typing, Classes
  <2> QED
    BY <1>7, <2>1, <2>2, <2>3 DEF Reset, IInv
<1>8. CASE RefuseFields \/ RefuseCredentials
  <2>1. PICK refused : Answer(refused)
    BY <1>8 DEF RefuseFields, RefuseCredentials
  <2>2. [n \in Fields |-> IF Element(n).kind = "password" THEN <<>> ELSE value[n]]
            \in [Fields -> Texts]
    BY <1>typing, TextsAssumption DEF Typing
  <2> QED
    BY <2>1, <2>2, RenderKeeps DEF Answer
<1>9. CASE SignIn
  <2>1. Fields' = Fields
    BY <1>9, SameForm DEF SignIn
  <2> QED
    BY <1>9, <2>1 DEF SignIn, IInv, Typing, Forgotten, plugin, shown
<1>10. CASE UNCHANGED vars
  <2>1. Fields' = Fields /\ \A n : Element(n)' = Element(n)
    BY <1>10, SameForm DEF vars
  <2>2. \A n, v : Valid(n, v)' = Valid(n, v)
    BY <1>10, SamePlugin DEF vars, plugin
  <2> QED
    BY <1>10, <2>1, <2>2
    DEF vars, plugin, shown, IInv, Typing, Forgotten, ShowsVerdict
<1> QED
  BY <1>1, <1>2, <1>3, <1>4, <1>5, <1>6, <1>7, <1>8, <1>9, <1>10 DEF Next

LEMMA IInvImplies == IInv => VerdictsAreShown /\ ResetForgets
  BY DEF IInv, VerdictsAreShown, ResetForgets, ShowsVerdict, Forgotten

(* What a field's container says is the verdict on the field's text.       *)
THEOREM VerdictCorrectness == Spec => []VerdictsAreShown
  BY InitIInv, NextIInv, IInvImplies, PTL DEF Spec

(* A reset leaves no verdict behind.                                       *)
THEOREM ResetCorrectness == Spec => []ResetForgets
  BY InitIInv, NextIInv, IInvImplies, PTL DEF Spec

----------------------------------------------------------------------------
(* Induction over the natural numbers.  The library states it for an       *)
(* operator, which the provers cannot instantiate; for a set it follows    *)
(* from the minimal element that the complement would have.                *)

LEMMA LessIsWellFounded ==
    IsWellFoundedOn({p \in Nat \X Nat : p[1] < p[2]}, Nat)
<1>1. OpToRel(<, Nat) = {p \in Nat \X Nat : p[1] < p[2]}
  BY DEF OpToRel
<1> QED
  BY <1>1, NatLessThanWellFounded

LEMMA SetInduction ==
    ASSUME NEW S, 0 \in S, \A n \in Nat : n \in S => n + 1 \in S
    PROVE  Nat \subseteq S
<1> DEFINE R == {p \in Nat \X Nat : p[1] < p[2]}
           T == Nat \ S
<1> SUFFICES ASSUME T # {} PROVE FALSE
  OBVIOUS
<1>1. IsWellFoundedOn(R, Nat) /\ T \subseteq Nat
  BY LessIsWellFounded
<1> HIDE DEF T, R
<1>2. PICK x \in T : \A y \in T : <<y, x>> \notin R
  BY <1>1, WFMin
<1> USE DEF T, R
<1>3. x \in Nat /\ x # 0 /\ x - 1 \in Nat /\ x - 1 < x
  BY <1>2
<1>4. x - 1 \in T
  BY <1>3
<1> QED
  BY <1>2, <1>3, <1>4

----------------------------------------------------------------------------
(* The turns of the adapters (ParseElement).                               *)

Start == [rules |-> Nothing, messages |-> Nothing]

(* f[i] is what the first i adapters have made of the element. *)
Turns(fm, e, n, f) ==
    f = [i \in 0 .. n |-> IF i = 0 THEN Start
                          ELSE Adapt(fm, e, Adapters[i], f[i - 1])]

LEMMA TurnsExist ==
    ASSUME NEW fm, NEW e, NEW n \in Nat
    PROVE  \E f : Turns(fm, e, n, f)
<1> DEFINE S == {k \in Nat : \E f : Turns(fm, e, k, f)}
<1>1. 0 \in S
  <2>1. Turns(fm, e, 0, [i \in 0 .. 0 |-> Start])
    BY DEF Turns
  <2> QED
    BY <2>1
<1>2. ASSUME NEW k \in Nat, k \in S PROVE k + 1 \in S
  <2>1. PICK f : Turns(fm, e, k, f)
    BY <1>2
  <2> DEFINE g == [i \in 0 .. k + 1 |->
                       IF i = k + 1 THEN Adapt(fm, e, Adapters[i], f[k])
                       ELSE f[i]]
  <2>2. ASSUME NEW i \in 0 .. k + 1
        PROVE  g[i] = IF i = 0 THEN Start ELSE Adapt(fm, e, Adapters[i], g[i - 1])
    <3>1. CASE i = k + 1
      BY <3>1
    <3>2. CASE i # k + 1 /\ i # 0
      <4>1. i \in 0 .. k /\ i - 1 \in 0 .. k + 1 /\ i - 1 # k + 1
        BY <3>2
      <4> QED
        BY <2>1, <3>2, <4>1 DEF Turns
    <3>3. CASE i = 0
      BY <2>1, <3>3 DEF Turns
    <3> QED
      BY <3>1, <3>2, <3>3
  <2>3. Turns(fm, e, k + 1, g)
    BY <2>2 DEF Turns
  <2> HIDE DEF g
  <2> QED
    BY <2>3
<1> HIDE DEF S
<1>3. Nat \subseteq S
  BY <1>1, <1>2, SetInduction
<1> USE DEF S
<1> QED
  BY <1>3

LEMMA ParseElementByTurns ==
    ASSUME NEW fm, NEW e
    PROVE  \E f : /\ Turns(fm, e, Len(Adapters), f)
                  /\ ParseElement(fm, e) =
                        [rules |-> Over(Only("__dummy__", TRUE),
                                        f[Len(Adapters)].rules),
                         messages |-> f[Len(Adapters)].messages]
<1> DEFINE N == Len(Adapters)
           parsed == CHOOSE f : f = [i \in 0 .. N |-> IF i = 0 THEN Start
                          ELSE Adapt(fm, e, Adapters[i], f[i - 1])]
<1>1. N \in Nat
  BY DEF Adapters
<1>2. Turns(fm, e, N, parsed)
  BY <1>1, TurnsExist DEF Turns
<1>3. ParseElement(fm, e) =
                        [rules |-> Over(Only("__dummy__", TRUE), parsed[N].rules),
                         messages |-> parsed[N].messages]
  BY DEF ParseElement, Start
<1> QED
  BY <1>2, <1>3

(* The adapter j has its attribute on the element, and what it makes.      *)
Has(e, j) == j \in 1 .. Len(Adapters) /\ Adapters[j].name \in DOMAIN e.messages
RulesAt(fm, e, j) == RulesOf(fm, e, Adapters[j])

(* Of the first n adapters, j is the last one to make the rule r. *)
LastToMake(fm, e, n, r, j) ==
    /\ j \in 1 .. n /\ Has(e, j) /\ r \in DOMAIN RulesAt(fm, e, j)
    /\ \A k \in j + 1 .. n : Has(e, k) => r \notin DOMAIN RulesAt(fm, e, k)

(* The rules are those that the first n adapters make, the last one first. *)
MadeByLast(fm, e, n, rules) ==
    /\ \A j \in 1 .. n :
          Has(e, j) => DOMAIN RulesAt(fm, e, j) \subseteq DOMAIN rules
    /\ \A r \in DOMAIN rules :
          \E j : LastToMake(fm, e, n, r, j) /\ rules[r] = RulesAt(fm, e, j)[r]

LEMMA OneMoreTurn ==
    ASSUME NEW fm, NEW e, NEW n \in Nat, n + 1 \in 1 .. Len(Adapters),
           NEW set, MadeByLast(fm, e, n, set.rules)
    PROVE  MadeByLast(fm, e, n + 1, Adapt(fm, e, Adapters[n + 1], set).rules)
<1> DEFINE old == set.rules
           new == RulesAt(fm, e, n + 1)
           after == Adapt(fm, e, Adapters[n + 1], set).rules
<1>0. Len(Adapters) \in Nat
  BY DEF Adapters
<1>1. CASE ~Has(e, n + 1)
  <2>1. after = old
    BY <1>1 DEF Adapt, Has
  <2>2. MadeByLast(fm, e, n, old)
    OBVIOUS
  <2> HIDE DEF after, old
  <2>3. \A j \in 1 .. n + 1 : Has(e, j) => j \in 1 .. n
    BY <1>1
  <2>4. \A j \in 1 .. n + 1 :
           Has(e, j) => DOMAIN RulesAt(fm, e, j) \subseteq DOMAIN old
    BY <2>2, <2>3 DEF MadeByLast
  <2>5. ASSUME NEW r \in DOMAIN old
        PROVE  \E j : /\ LastToMake(fm, e, n + 1, r, j)
                      /\ old[r] = RulesAt(fm, e, j)[r]
    <3>1. PICK j : LastToMake(fm, e, n, r, j) /\ old[r] = RulesAt(fm, e, j)[r]
      BY <2>2 DEF MadeByLast
    <3>2. LastToMake(fm, e, n + 1, r, j)
      BY <2>3, <3>1 DEF LastToMake
    <3> QED
      BY <3>1, <3>2
  <2>6. MadeByLast(fm, e, n + 1, old)
    BY <2>4, <2>5 DEF MadeByLast
  <2> QED
    BY <2>1, <2>6 DEF after
<1>2. CASE Has(e, n + 1)
  <2>1. after = Over(new, old)
    BY <1>2 DEF Adapt, Has, SetValidationValues, RulesAt
  <2> HIDE DEF after, old, new
  <2>2. /\ DOMAIN after = DOMAIN new \cup DOMAIN old
        /\ \A r \in DOMAIN after :
              after[r] = IF r \in DOMAIN new THEN new[r] ELSE old[r]
    BY <2>1 DEF Over
  <2>3. ASSUME NEW r \in DOMAIN new PROVE LastToMake(fm, e, n + 1, r, n + 1)
    BY <1>2, <2>3 DEF LastToMake, new
  <2>4. ASSUME NEW r, r \notin DOMAIN new, NEW j, LastToMake(fm, e, n, r, j)
        PROVE  LastToMake(fm, e, n + 1, r, j)
    BY <2>4 DEF LastToMake, new
  <2>5. \A j \in 1 .. n + 1 : j = n + 1 \/ j \in 1 .. n
    OBVIOUS
  <2>6. new = RulesAt(fm, e, n + 1) /\ MadeByLast(fm, e, n, old)
    BY DEF new, old
  <2>7. \A j \in 1 .. n + 1 :
           Has(e, j) => DOMAIN RulesAt(fm, e, j) \subseteq DOMAIN after
    BY <2>2, <2>5, <2>6 DEF MadeByLast
  <2>8. ASSUME NEW r \in DOMAIN after
        PROVE  \E j : /\ LastToMake(fm, e, n + 1, r, j)
                      /\ after[r] = RulesAt(fm, e, j)[r]
    <3>1. CASE r \in DOMAIN new
      BY <2>2, <2>3, <2>6, <3>1
    <3>2. CASE r \notin DOMAIN new
      <4>1. PICK j : LastToMake(fm, e, n, r, j) /\ old[r] = RulesAt(fm, e, j)[r]
        BY <2>2, <2>6, <3>2 DEF MadeByLast
      <4> QED
        BY <2>2, <2>4, <3>2, <4>1
    <3> QED
      BY <3>1, <3>2
  <2>9. MadeByLast(fm, e, n + 1, after)
    BY <2>7, <2>8 DEF MadeByLast
  <2> QED
    BY <2>9 DEF after
<1> QED
  BY <1>1, <1>2

LEMMA AllTurns ==
    ASSUME NEW fm, NEW e, NEW f, Turns(fm, e, Len(Adapters), f)
    PROVE  MadeByLast(fm, e, Len(Adapters), f[Len(Adapters)].rules)
<1> DEFINE N == Len(Adapters)
           S == {n \in Nat : n <= N => MadeByLast(fm, e, n, f[n].rules)}
<1>0. N \in Nat
  BY DEF Adapters
<1>1. 0 \in S
  <2>1. f[0] = Start
    BY <1>0 DEF Turns
  <2>2. DOMAIN f[0].rules = {}
    BY <2>1 DEF Start, Nothing
  <2> QED
    BY <2>2 DEF MadeByLast
<1>2. ASSUME NEW n \in Nat, n \in S PROVE n + 1 \in S
  <2> SUFFICES ASSUME n + 1 <= N
               PROVE  MadeByLast(fm, e, n + 1, f[n + 1].rules)
    OBVIOUS
  <2>1. MadeByLast(fm, e, n, f[n].rules)
    BY <1>0, <1>2
  <2>2. f[n + 1] = Adapt(fm, e, Adapters[n + 1], f[n])
    BY <1>0 DEF Turns
  <2>3. n + 1 \in 1 .. Len(Adapters)
    BY <1>0
  <2>4. PICK set : set = f[n]
    OBVIOUS
  <2>5. MadeByLast(fm, e, n, set.rules)
    BY <2>1, <2>4
  <2>6. MadeByLast(fm, e, n + 1, Adapt(fm, e, Adapters[n + 1], set).rules)
    BY <2>3, <2>5, OneMoreTurn
  <2> QED
    BY <2>2, <2>4, <2>6
<1> HIDE DEF S
<1>3. Nat \subseteq S
  BY <1>1, <1>2, SetInduction
<1> USE DEF S
<1> QED
  BY <1>0, <1>3

(* A rule that several of a field's adapters make has the parameter of the *)
(* one that was registered last; each rule is there, and no other but the  *)
(* one that every field has.                                               *)
THEOREM RulesOfElement ==
    ASSUME NEW fm, NEW e
    PROVE  LET rules == ParseElement(fm, e).rules
               N == Len(Adapters)
           IN /\ "__dummy__" \in DOMAIN rules
              /\ \A j \in 1 .. N :
                    Has(e, j) => DOMAIN RulesAt(fm, e, j) \subseteq DOMAIN rules
              /\ \A r \in DOMAIN rules \ {"__dummy__"} :
                    \E j : /\ LastToMake(fm, e, N, r, j)
                           /\ rules[r] = RulesAt(fm, e, j)[r]
<1> DEFINE N == Len(Adapters)
<1>1. PICK f : /\ Turns(fm, e, N, f)
               /\ ParseElement(fm, e) =
                        [rules |-> Over(Only("__dummy__", TRUE), f[N].rules),
                         messages |-> f[N].messages]
  BY ParseElementByTurns
<1>2. PICK made : made = f[N].rules
  OBVIOUS
<1>3. MadeByLast(fm, e, N, made)
  BY <1>1, <1>2, AllTurns
<1>4. PICK rules : rules = ParseElement(fm, e).rules
  OBVIOUS
<1>5. rules = Over(Only("__dummy__", TRUE), made)
  BY <1>1, <1>2, <1>4
<1>6. /\ DOMAIN rules = {"__dummy__"} \cup DOMAIN made
      /\ \A r \in DOMAIN rules \ {"__dummy__"} : rules[r] = made[r]
  BY <1>5 DEF Over, Only
<1> QED
  BY <1>3, <1>4, <1>6 DEF MadeByLast


----------------------------------------------------------------------------
(* What the rules of each adapter demand of a text.                        *)

Markup == {"required", "length", "minlength", "maxlength", "regex"}

(* The adapters that the markup of ASP.NET Core calls for. *)
Called == {2, 9, 11, 12, 14}

LEMMA CalledAdapters ==
    /\ Len(Adapters) = 17
    /\ Adapters[2] = AddSingleVal("regex", "pattern", "regex")
    /\ Adapters[9] = AddMinMax("length", "minlength", "maxlength", "rangelength")
    /\ Adapters[11] = AddMinMax("minlength", "minlength", "undefined", "undefined")
    /\ Adapters[12] = AddMinMax("maxlength", "minlength", "maxlength", "undefined")
    /\ Adapters[14] = AddOwn("required", Nothing)
  BY DEF Adapters

LEMMA OtherAdapters ==
    \A j \in 1 .. 17 \ Called : Adapters[j].name \notin Markup
<1> SUFFICES ASSUME NEW j \in {1, 3, 4, 5, 6, 7, 8, 10, 13, 15, 16, 17}
             PROVE  Adapters[j].name \notin Markup
  BY DEF Called
<1> QED
  BY DEF Adapters, AddBool, AddMinMax, AddSingleVal, AddOwn, Markup

LEMMA NamesOfCalled ==
    /\ Adapters[2].name = "regex"
    /\ Adapters[9].name = "length"
    /\ Adapters[11].name = "minlength"
    /\ Adapters[12].name = "maxlength"
    /\ Adapters[14].name = "required"
  BY CalledAdapters DEF AddSingleVal, AddMinMax, AddOwn

LEMMA HasCalled ==
    ASSUME NEW e, Annotated(e), NEW j
    PROVE  Has(e, j) <=> j \in Called /\ Adapters[j].name \in DOMAIN e.messages
  BY CalledAdapters, OtherAdapters DEF Has, Annotated, Called, Markup

RulesPass(fm, e, j, v) ==
    \A r \in DOMAIN RulesAt(fm, e, j) : Passes(r, RulesAt(fm, e, j)[r], v)

LEMMA MinMaxPass ==
    ASSUME NEW fm, NEW e, NEW name, NEW min, NEW max, NEW both, NEW v,
           NEW j, Adapters[j] = AddMinMax(name, min, max, both),
           <<name, "min">> \in DOMAIN e.params => min = "minlength",
           <<name, "max">> \in DOMAIN e.params => max = "maxlength",
           <<name, "min">> \in DOMAIN e.params /\ <<name, "max">> \in DOMAIN e.params
              => both = "rangelength"
    PROVE  RulesPass(fm, e, j, v) <=>
              (v # <<>> =>
                 /\ <<name, "min">> \in DOMAIN e.params
                       => Len(v) >= e.params[<<name, "min">>]
                 /\ <<name, "max">> \in DOMAIN e.params
                       => Len(v) <= e.params[<<name, "max">>])
<1> DEFINE a == Adapters[j]
           given == Given(e, a)
           P == e.params
<1>1. /\ a.name = name /\ a.adapt = "minMax"
      /\ a.rules = <<min, max, both>> /\ a.params = <<"min", "max">>
  BY DEF AddMinMax
<1>2. ToSet(a.params) = {"min", "max"}
  BY <1>1 DEF ToSet
<1>3. /\ "min" \in DOMAIN given <=> <<name, "min">> \in DOMAIN P
      /\ "max" \in DOMAIN given <=> <<name, "max">> \in DOMAIN P
      /\ <<name, "min">> \in DOMAIN P => given["min"] = P[<<name, "min">>]
      /\ <<name, "max">> \in DOMAIN P => given["max"] = P[<<name, "max">>]
  BY <1>1, <1>2 DEF Given
<1>4. RulesAt(fm, e, j) = MinMaxRules(a, given)
  BY <1>1 DEF RulesAt, RulesOf
<1> HIDE DEF given, a, P
<1>5. a.rules[1] = min /\ a.rules[2] = max /\ a.rules[3] = both
  BY <1>1
<1>6. CASE "min" \in DOMAIN given /\ "max" \in DOMAIN given
  <2>1. RulesAt(fm, e, j) = Only(both, <<given["min"], given["max"]>>)
    BY <1>4, <1>5, <1>6 DEF MinMaxRules
  <2>2. RulesPass(fm, e, j, v)
           <=> Passes("rangelength", <<given["min"], given["max"]>>, v)
    BY <1>3, <1>6, <2>1 DEF RulesPass, Only, P
  <2> QED
    BY <1>3, <1>6, <2>2 DEF Passes, Mandatory, P
<1>7. CASE "min" \in DOMAIN given /\ "max" \notin DOMAIN given
  <2>1. RulesAt(fm, e, j) = Over(Only(min, given["min"]), Nothing)
    BY <1>4, <1>5, <1>7 DEF MinMaxRules, When
  <2>2. RulesPass(fm, e, j, v) <=> Passes("minlength", given["min"], v)
    BY <1>3, <1>7, <2>1 DEF RulesPass, Over, Only, Nothing, P
  <2> QED
    BY <1>3, <1>7, <2>2 DEF Passes, Mandatory, P
<1>8. CASE "min" \notin DOMAIN given /\ "max" \in DOMAIN given
  <2>1. RulesAt(fm, e, j) = Over(Nothing, Only(max, given["max"]))
    BY <1>4, <1>5, <1>8 DEF MinMaxRules, When
  <2>2. RulesPass(fm, e, j, v) <=> Passes("maxlength", given["max"], v)
    BY <1>3, <1>8, <2>1 DEF RulesPass, Over, Only, Nothing, P
  <2> QED
    BY <1>3, <1>8, <2>2 DEF Passes, Mandatory, P
<1>9. CASE "min" \notin DOMAIN given /\ "max" \notin DOMAIN given
  <2>1. RulesAt(fm, e, j) = Over(Nothing, Nothing)
    BY <1>4, <1>5, <1>9 DEF MinMaxRules, When
  <2>2. RulesPass(fm, e, j, v)
    BY <2>1 DEF RulesPass, Over, Nothing
  <2> QED
    BY <1>3, <1>9, <2>2 DEF P
<1> QED
  BY <1>6, <1>7, <1>8, <1>9

LEMMA RegexPass ==
    ASSUME NEW fm, NEW e, NEW v, <<"regex", "pattern">> \in DOMAIN e.params
    PROVE  RulesPass(fm, e, 2, v) <=>
              (v # <<>> => RegexMethod(v, e.params[<<"regex", "pattern">>]))
<1> DEFINE a == Adapters[2]
           given == Given(e, a)
<1>1. a = AddSingleVal("regex", "pattern", "regex")
  BY CalledAdapters
<1>2. /\ a.name = "regex" /\ a.adapt = "singleVal"
      /\ a.rules = <<"regex">> /\ a.params = <<"pattern">>
  BY <1>1 DEF AddSingleVal
<1>3. ToSet(a.params) = {"pattern"}
  BY <1>2 DEF ToSet
<1>4. "pattern" \in DOMAIN given /\ given["pattern"] = e.params[<<"regex", "pattern">>]
  BY <1>2, <1>3 DEF Given
<1>5. RulesAt(fm, e, 2) = SingleValRules(a, given)
  BY <1>2 DEF RulesAt, RulesOf
<1> HIDE DEF given, a
<1>6. RulesAt(fm, e, 2) = Only("regex", e.params[<<"regex", "pattern">>])
  BY <1>2, <1>4, <1>5 DEF SingleValRules
<1>7. RulesPass(fm, e, 2, v) <=> Passes("regex", e.params[<<"regex", "pattern">>], v)
  BY <1>6 DEF RulesPass, Only
<1> QED
  BY <1>7 DEF Passes, Mandatory

LEMMA RequiredAt ==
    ASSUME NEW fm, NEW e
    PROVE  RulesAt(fm, e, 14) = RequiredRules(e)
  BY CalledAdapters DEF RulesAt, RulesOf, AddOwn

LEMMA RequiredPass ==
    ASSUME NEW fm, NEW e, NEW v
    PROVE  RulesPass(fm, e, 14, v) <=> (e.kind # "checkbox" => v # <<>>)
<1>1. CASE e.kind = "checkbox"
  <2>1. RulesAt(fm, e, 14) = Nothing
    BY <1>1, RequiredAt DEF RequiredRules, When
  <2>2. DOMAIN Nothing = {}
    BY DEF Nothing
  <2> QED
    BY <1>1, <2>1, <2>2 DEF RulesPass
<1>2. CASE e.kind # "checkbox"
  <2>1. RulesPass(fm, e, 14, v) <=> Passes("required", TRUE, v)
    BY <1>2, RequiredAt DEF RequiredRules, When, RulesPass, Only
  <2> QED
    BY <1>2, <2>1 DEF Passes, Mandatory
<1> QED
  BY <1>1, <1>2

(* Where no two adapters make one rule, a field passes its rules if and    *)
(* only if it passes those of each adapter.                                *)
LEMMA PassesByAdapters ==
    ASSUME NEW e, NEW v, Annotated(e), Unambiguous(e)
    PROVE  LET rules == ParseElement(form.elements, e).rules
           IN (\A r \in DOMAIN rules : Passes(r, rules[r], v))
                 <=> (\A j : Has(e, j) => RulesPass(form.elements, e, j, v))
<1> DEFINE fm == form.elements
           N == Len(Adapters)
<1>1. PICK rules : rules = ParseElement(fm, e).rules
  OBVIOUS
<1>2. /\ "__dummy__" \in DOMAIN rules
      /\ \A j \in 1 .. N :
            Has(e, j) => DOMAIN RulesAt(fm, e, j) \subseteq DOMAIN rules
      /\ \A r \in DOMAIN rules \ {"__dummy__"} :
            \E j : LastToMake(fm, e, N, r, j) /\ rules[r] = RulesAt(fm, e, j)[r]
  BY <1>1, RulesOfElement
<1>3. \A p : Passes("__dummy__", p, v)
  BY DEF Passes
<1>4. ASSUME NEW j, NEW k, Has(e, j), Has(e, k), j # k
      PROVE  DOMAIN RulesAt(fm, e, j) \cap DOMAIN RulesAt(fm, e, k) = {}
  <2>1. Adapters[j] # Adapters[k]
    BY <1>4, HasCalled, NamesOfCalled DEF Called
  <2>2. Adapters[j] \in ToSet(Adapters) /\ Adapters[k] \in ToSet(Adapters)
    BY <1>4, CalledAdapters DEF Has, ToSet, Adapters
  <2> QED
    BY <1>4, <2>1, <2>2 DEF Unambiguous, RulesAt, Has
<1>5. ASSUME \A r \in DOMAIN rules : Passes(r, rules[r], v),
             NEW j, Has(e, j), NEW r \in DOMAIN RulesAt(fm, e, j)
      PROVE  Passes(r, RulesAt(fm, e, j)[r], v)
  <2>1. CASE r = "__dummy__"
    BY <1>3, <2>1
  <2>2. CASE r # "__dummy__"
    <3>1. r \in DOMAIN rules
      BY <1>2, <1>5 DEF Has
    <3>2. PICK k : LastToMake(fm, e, N, r, k) /\ rules[r] = RulesAt(fm, e, k)[r]
      BY <1>2, <2>2, <3>1
    <3>3. k = j
      BY <1>4, <1>5, <3>2 DEF LastToMake
    <3> QED
      BY <1>5, <3>1, <3>2, <3>3
  <2> QED
    BY <2>1, <2>2
<1>6. ASSUME \A j : Has(e, j) => RulesPass(fm, e, j, v), NEW r \in DOMAIN rules
      PROVE  Passes(r, rules[r], v)
  <2>1. CASE r = "__dummy__"
    BY <1>3, <2>1
  <2>2. CASE r # "__dummy__"
    BY <1>2, <1>6, <2>2 DEF LastToMake, RulesPass
  <2> QED
    BY <2>1, <2>2
<1> QED
  BY <1>1, <1>5, <1>6 DEF RulesPass

(* What the called adapters' rules demand together.                        *)
LEMMA DemandedByAdapters ==
    ASSUME NEW e, NEW v, NEW fm, Annotated(e)
    PROVE  (\A j : Has(e, j) => RulesPass(fm, e, j, v)) <=> Demanded(e, v)
<1> DEFINE M == DOMAIN e.messages
           P == DOMAIN e.params
           AtLeast(a) == <<a, "min">> \in P => Len(v) >= e.params[<<a, "min">>]
           AtMost(a) == <<a, "max">> \in P => Len(v) <= e.params[<<a, "max">>]
           Like(a) == <<a, "pattern">> \in P
                         => RegexMethod(v, e.params[<<a, "pattern">>])
<1>1. (\A j : Has(e, j) => RulesPass(fm, e, j, v))
         <=> /\ "regex" \in M => RulesPass(fm, e, 2, v)
             /\ "length" \in M => RulesPass(fm, e, 9, v)
             /\ "minlength" \in M => RulesPass(fm, e, 11, v)
             /\ "maxlength" \in M => RulesPass(fm, e, 12, v)
             /\ "required" \in M => RulesPass(fm, e, 14, v)
  BY HasCalled, NamesOfCalled DEF Called
<1>2. "regex" \in M => (RulesPass(fm, e, 2, v) <=> (v # <<>> => Like("regex")))
  BY RegexPass DEF Annotated
<1>3. RulesPass(fm, e, 9, v) <=> (v # <<>> => AtLeast("length") /\ AtMost("length"))
  BY CalledAdapters, MinMaxPass
<1>4. RulesPass(fm, e, 11, v)
         <=> (v # <<>> => AtLeast("minlength") /\ AtMost("minlength"))
  <2>1. <<"minlength", "max">> \notin P
    BY DEF Annotated
  <2> QED
    BY <2>1, CalledAdapters, MinMaxPass
<1>5. RulesPass(fm, e, 12, v)
         <=> (v # <<>> => AtLeast("maxlength") /\ AtMost("maxlength"))
  <2>1. <<"maxlength", "min">> \notin P
    BY DEF Annotated
  <2> QED
    BY <2>1, CalledAdapters, MinMaxPass
<1>6. RulesPass(fm, e, 14, v) <=> (e.kind # "checkbox" => v # <<>>)
  BY RequiredPass
<1>7. Demanded(e, v) <=>
         /\ "required" \in M /\ e.kind # "checkbox" => v # <<>>
         /\ v # <<>> => \A a \in M : AtLeast(a) /\ AtMost(a) /\ Like(a)
  BY DEF Demanded
<1>8. M \subseteq Markup
  BY DEF Annotated, Markup
<1>9. \A a : /\ a # "regex" => Like(a)
             /\ a \in {"required", "regex"} => AtLeast(a) /\ AtMost(a)
  <2>1. /\ \A a : a # "regex" => <<a, "pattern">> \notin P
        /\ \A a \in {"required", "regex"} :
              <<a, "min">> \notin P /\ <<a, "max">> \notin P
    BY DEF Annotated
  <2> QED
    BY <2>1
<1> HIDE DEF M, P, AtLeast, AtMost, Like
<1> QED
  BY <1>1, <1>2, <1>3, <1>4, <1>5, <1>6, <1>7, <1>8, <1>9 DEF Markup

----------------------------------------------------------------------------
(* The options of the page's form.                                         *)

LEMMA OptionsOfField ==
    ASSUME options = Parse(form.elements), NEW n \in Fields
    PROVE  options[n] = ParseElement(form.elements, Element(n))
  BY DEF Parse, Fields, Element

LEMMA ValidMeansDemanded ==
    ASSUME options = Parse(form.elements), NEW n \in Fields, NEW v,
           Annotated(Element(n)), Unambiguous(Element(n))
    PROVE  Valid(n, v) <=> Demanded(Element(n), v)
<1>1. PICK e : e = Element(n)
  OBVIOUS
<1>2. PICK rules : rules = ParseElement(form.elements, e).rules
  OBVIOUS
<1>3. Valid(n, v) <=> (\A r \in DOMAIN rules : Passes(r, rules[r], v))
  BY <1>1, <1>2, OptionsOfField DEF Valid
<1>4. Annotated(e) /\ Unambiguous(e)
  BY <1>1
<1>5. (\A r \in DOMAIN rules : Passes(r, rules[r], v))
         <=> (\A j : Has(e, j) => RulesPass(form.elements, e, j, v))
  BY <1>2, <1>4, PassesByAdapters
<1> QED
  BY <1>1, <1>3, <1>4, <1>5, DemandedByAdapters

LEMMA RequiredIsNotEmpty ==
    ASSUME options = Parse(form.elements), NEW n \in Fields, NEW v,
           "required" \in DOMAIN Element(n).messages,
           Element(n).kind # "checkbox", Valid(n, v)
    PROVE  v # <<>>
<1>1. PICK e : e = Element(n)
  OBVIOUS
<1>2. PICK rules : rules = ParseElement(form.elements, e).rules
  OBVIOUS
<1>3. \A r \in DOMAIN rules : Passes(r, rules[r], v)
  BY <1>1, <1>2, OptionsOfField DEF Valid
<1>4. Has(e, 14) /\ 14 \in 1 .. Len(Adapters)
  BY <1>1, CalledAdapters, NamesOfCalled DEF Has
<1>5. DOMAIN RulesAt(form.elements, e, 14) \subseteq DOMAIN rules
  BY <1>2, <1>4, RulesOfElement
<1>6. "required" \in DOMAIN RulesAt(form.elements, e, 14)
  BY <1>1, RequiredAt DEF RequiredRules, When, Only
<1>7. Passes("required", rules["required"], v)
  BY <1>3, <1>5, <1>6
<1> QED
  BY <1>7 DEF Passes, Mandatory

(* The plugin is attached when the page is ready, with the options of its  *)
(* form; a form that it lets through is valid and stays as it was sent.    *)
Attached ==
    /\ phase = "loading" => options = Nothing
    /\ phase = "ready" => options = Parse(form.elements)
    /\ phase = "sent" /\ options # Nothing =>
          /\ options = Parse(form.elements)
          /\ \A n \in Fields : Valid(n, value[n])

LEMMA NextAttached == Attached /\ [Next]_vars => Attached'
<1> SUFFICES ASSUME Attached, [Next]_vars PROVE Attached'
  OBVIOUS
<1>1. CASE Ready
  BY <1>1 DEF Ready, Attached
<1>2. ASSUME NEW n \in TextFields, NEW v \in Texts, Paste(n, v)
      PROVE  Attached'
  BY <1>2 DEF Paste, Open, Attached, plugin
<1>3. ASSUME NEW n \in TextFields, NEW v \in Texts, Type(n, v)
      PROVE  Attached'
  BY <1>3 DEF Type, Attached
<1>4. ASSUME NEW n \in TextFields, FocusOut(n)
      PROVE  Attached'
  BY <1>4 DEF FocusOut, Attached
<1>5. CASE Submit
  <2>1. Fields' = Fields
    BY <1>5, SameForm DEF Submit
  <2>2. \A n, v : Valid(n, v)' = Valid(n, v)
    BY <1>5, SamePlugin DEF Submit
  <2>3. phase' = "sent" => \A n \in Fields : Valid(n, value[n])
    BY <1>5 DEF Submit
  <2>4. /\ phase = "ready" /\ phase' \in {"ready", "sent"}
        /\ options' = options /\ form' = form /\ value' = value
    BY <1>5 DEF Submit
  <2> QED
    BY <2>1, <2>2, <2>3, <2>4 DEF Attached
<1>6. CASE SubmitUnchecked
  BY <1>6 DEF SubmitUnchecked, Attached, plugin
<1>7. CASE Reset
  BY <1>7 DEF Reset, Attached
<1>8. CASE RefuseFields \/ RefuseCredentials
  <2>1. PICK refused : Answer(refused)
    BY <1>8 DEF RefuseFields, RefuseCredentials
  <2> QED
    BY <2>1 DEF Answer, Render, Attached
<1>9. CASE SignIn
  BY <1>9 DEF SignIn, Attached
<1>10. CASE UNCHANGED vars
  <2>1. Fields' = Fields
    BY <1>10, SameForm DEF vars
  <2>2. \A n, v : Valid(n, v)' = Valid(n, v)
    BY <1>10, SamePlugin DEF vars, plugin
  <2> QED
    BY <1>10, <2>1, <2>2 DEF vars, plugin, Attached
<1> QED
  BY <1>1, <1>2, <1>3, <1>4, <1>5, <1>6, <1>7, <1>8, <1>9, <1>10 DEF Next

LEMMA InitAttached == Init => Attached
  BY DEF Init, Attached

LEMMA AttachedImplies == Attached => RulesMeanTheMarkup /\ OnlyBlanksAreRefused
<1> SUFFICES ASSUME Attached PROVE RulesMeanTheMarkup /\ OnlyBlanksAreRefused
  OBVIOUS
<1>1. RulesMeanTheMarkup
  BY ValidMeansDemanded DEF RulesMeanTheMarkup, Attached
<1>2. OnlyBlanksAreRefused
  BY RequiredIsNotEmpty DEF OnlyBlanksAreRefused, Attached, Refused, TextFields
<1> QED
  BY <1>1, <1>2

(* The rules of the plugin accept what the attributes allow, whatever the  *)
(* forms, their fields, the bounds and patterns, and the texts.            *)
THEOREM RulesCorrectness == Spec => []RulesMeanTheMarkup
  BY InitAttached, NextAttached, AttachedImplies, PTL DEF Spec

(* What the plugin has checked, the server refuses for white space only.   *)
THEOREM BlanksCorrectness == Spec => []OnlyBlanksAreRefused
  BY InitAttached, NextAttached, AttachedImplies, PTL DEF Spec
=============================================================================
