---------------------------- MODULE ScreenProofs ----------------------------
(***************************************************************************)
(* Proofs about Screen.  What a thread has yet to draw is a sequence of    *)
(* calls; the proofs say what such a sequence will have done when it comes *)
(* to its n-th call, from the state it starts in, while the handler of the *)
(* clock may come in between any two calls.  That is said once for a       *)
(* concatenation, and every script follows from its parts.                 *)
(***************************************************************************)
EXTENDS Screen, Integers, SequenceTheorems, TLAPS

Users == {"main", "welcome", "psw", "count", "tags", "setup"}
Pens == {"pen"} \X {Black, Red}
Switches == {"irq"} \X BOOLEAN
Shows == {"show"} \X Areas \X Users

Calls == {<<"clear">>, <<"cleared">>} \cup Pens \cup Switches \cup Shows

\* The title of a dialog that must be red, and the calls that are not one.
Titles == {<<"show", "title", "psw">>, <<"show", "title", "tags">>}
Plain == Calls \ Titles

\* The calls that leave the interrupt alone; those of one dialog, cleared.
Quiet == {c \in Calls : c[1] # "irq"}
Owned(who) == Pens \cup ({"show"} \X Areas \X {who})

(***************************************************************************)
(* When the n-th call is made, the last call of that kind has left the     *)
(* value, or there was none and it is so now.                              *)
(***************************************************************************)
Before(calls, n, kind, now, value) ==
  \E j \in 0 .. (n - 1) :
    /\ IF j = 0 THEN now = value ELSE calls[j] = <<kind, value>>
    /\ \A k \in (j + 1) .. (n - 1) : calls[k][1] # kind

\* When all calls are made.
After(calls, kind, now, value) == Before(calls, Len(calls) + 1, kind, now, value)

(***************************************************************************)
(* When the i-th call is made the pen is red: it was set with the          *)
(* interrupt disabled, and neither has been touched since.                 *)
(***************************************************************************)
RedAt(calls, i, ink, on) ==
  \E j \in 0 .. (i - 1) :
    /\ IF j = 0 THEN ink = Red ELSE calls[j] = <<"pen", Red>>
    /\ \A k \in (j + 1) .. (i - 1) : calls[k][1] \notin {"pen", "irq"}
    /\ Before(calls, j + 1, "irq", on, FALSE)

TitledRed(calls, ink, on) ==
  \A i \in 1 .. Len(calls) : calls[i] \in Titles => RedAt(calls, i, ink, on)
-----------------------------------------------------------------------------
(***************************************************************************)
(* The inductive invariant.  Whose dialog a stage is.                      *)
(***************************************************************************)
HolderStage ==
  /\ stage = "none" <=> holder = "no one"
  /\ stage = "setup" => holder = "main"
  /\ stage \in {"psw", "count", "tags"} => holder = "touch"

\* Only the touch thread switches the interrupt, and it ends by enabling it.
Switching ==
  /\ holder # "touch" => nvic = TRUE /\ todo \in Seq(Quiet)
  /\ stage = "close" => After(todo, "irq", nvic, TRUE)

\* The pen will be black again.
Blackened == stage # "count" => After(todo, "pen", pen, Black)

(***************************************************************************)
(* A dialog that asks for a password or counts down has disabled the       *)
(* interrupt, or is about to, and then clears the display for itself.      *)
(***************************************************************************)
Alone == \A a \in Areas : \A layer \in screen[a] : layer[1] = stage

Undisturbed ==
  stage \in {"psw", "count"} =>
    \E rest \in Seq(Owned(stage)) :
      \/ todo = Disable \o (Clear \o rest)
      \/ nvic = FALSE /\ todo = Clear \o rest
      \/ nvic = FALSE /\ lost = FALSE /\ todo = <<<<"cleared">>>> \o rest
      \/ nvic = FALSE /\ Alone /\ todo = rest

ScInv ==
  /\ ScTypeOK /\ todo \in Seq(Calls)
  /\ HolderStage /\ Switching /\ Blackened
  /\ TitleRed /\ TitledRed(todo, pen, nvic)
  /\ Undisturbed
-----------------------------------------------------------------------------
(***************************************************************************)
(* Calls, one by one.                                                      *)
(***************************************************************************)
LEMMA CallShape ==
  ASSUME NEW c \in Calls
  PROVE  /\ c[1] \in {"clear", "cleared", "pen", "irq", "show"}
         /\ c[1] = "pen" => c[2] \in {Black, Red} /\ c = <<"pen", c[2]>>
         /\ c[1] = "irq" => c[2] \in BOOLEAN /\ c = <<"irq", c[2]>>
         /\ c[1] = "show" =>
              c[2] \in Areas /\ c[3] \in Users /\ c = <<"show", c[2], c[3]>>
<1>1. CASE c \in {<<"clear">>, <<"cleared">>}
  BY <1>1
<1>2. CASE c \in Pens
  BY <1>2 DEF Pens
<1>3. CASE c \in Switches
  BY <1>3 DEF Switches
<1>4. CASE c \in Shows
  BY <1>4 DEF Shows
<1> QED BY <1>1, <1>2, <1>3, <1>4 DEF Calls

\* The first call of a sequence and the others.
LEMMA FirstCall ==
  ASSUME NEW S, NEW calls \in Seq(S), calls # <<>>
  PROVE  /\ Head(calls) = calls[1] /\ Head(calls) \in S
         /\ Tail(calls) \in Seq(S)
         /\ Len(calls) \in Nat /\ Len(calls) > 0
         /\ Len(Tail(calls)) = Len(calls) - 1
         /\ \A k \in 1 .. (Len(calls) - 1) : Tail(calls)[k] = calls[k + 1]
<1>1. Len(calls) \in Nat /\ Len(calls) > 0
  BY EmptySeq
<1>2. Head(calls) = calls[1]
  OBVIOUS
<1> QED BY <1>1, <1>2, HeadTailProperties

\* A call before a sequence.
LEMMA ConsCall ==
  ASSUME NEW S, NEW c \in S, NEW rest \in Seq(S)
  PROVE  /\ <<c>> \o rest \in Seq(S) /\ <<c>> \o rest # <<>>
         /\ Head(<<c>> \o rest) = c
         /\ Tail(<<c>> \o rest) = rest
<1> DEFINE s == <<c>> \o rest
<1>1. <<c>> \in Seq(S) /\ Len(<<c>>) = 1 /\ <<c>>[1] = c
  OBVIOUS
<1>2. /\ s \in Seq(S) /\ Len(s) = 1 + Len(rest) /\ Len(rest) \in Nat
      /\ \A k \in 1 .. (1 + Len(rest)) : s[k] = IF k <= 1 THEN c ELSE rest[k - 1]
  BY <1>1, ConcatProperties, LenProperties
<1> HIDE DEF s
<1>3. s # <<>>
  BY <1>2, EmptySeq
<1>4. /\ Head(s) = s[1] /\ Tail(s) \in Seq(S) /\ Len(Tail(s)) = Len(s) - 1
      /\ \A k \in 1 .. (Len(s) - 1) : Tail(s)[k] = s[k + 1]
  BY <1>2, <1>3, FirstCall
<1>5. Tail(s) = rest
  <2>1. Len(Tail(s)) = Len(rest)
    BY <1>2, <1>4
  <2>2. \A k \in 1 .. Len(Tail(s)) : Tail(s)[k] = rest[k]
    BY <1>2, <1>4
  <2> QED BY <1>4, <2>1, <2>2, SeqEqual
<1>6. s[1] = c
  BY <1>2
<1> QED BY <1>2, <1>3, <1>4, <1>5, <1>6 DEF s
-----------------------------------------------------------------------------
\* The last call of its kind, and none.
LEMMA BeforeLast ==
  ASSUME NEW calls, NEW n \in Int, NEW kind, NEW now, NEW value, NEW j \in 1 .. (n - 1),
         calls[j] = <<kind, value>>,
         \A k \in (j + 1) .. (n - 1) : calls[k][1] # kind
  PROVE  Before(calls, n, kind, now, value)
BY DEF Before

LEMMA BeforeNone ==
  ASSUME NEW calls, NEW n \in Nat \ {0}, NEW kind, NEW value,
         \A k \in 1 .. (n - 1) : calls[k][1] # kind
  PROVE  Before(calls, n, kind, value, value)
<1>1. 0 \in 0 .. (n - 1) /\ \A k \in (0 + 1) .. (n - 1) : calls[k][1] # kind
  OBVIOUS
<1> QED BY <1>1 DEF Before

\* If the value is not the present one, the present one does not matter.
LEMMA BeforeOther ==
  ASSUME NEW calls, NEW n \in Int, NEW kind, NEW now, NEW value, NEW next,
         Before(calls, n, kind, now, value), now # value
  PROVE  Before(calls, n, kind, next, value)
<1>1. PICK j \in 0 .. (n - 1) :
        /\ IF j = 0 THEN now = value ELSE calls[j] = <<kind, value>>
        /\ \A k \in (j + 1) .. (n - 1) : calls[k][1] # kind
  BY DEF Before
<1>2. j \in 1 .. (n - 1) /\ calls[j] = <<kind, value>>
  BY <1>1
<1> QED BY <1>1, <1>2, BeforeLast

\* The call that set the pen.
LEMMA RedSince ==
  ASSUME NEW calls, NEW i \in Int, NEW ink, NEW on, NEW j \in 1 .. (i - 1),
         calls[j] = <<"pen", Red>>,
         \A k \in (j + 1) .. (i - 1) : calls[k][1] \notin {"pen", "irq"},
         NEW n, n = j + 1, Before(calls, n, "irq", on, FALSE)
  PROVE  RedAt(calls, i, ink, on)
<1>1. j # 0 /\ j \in 0 .. (i - 1)
  OBVIOUS
<1> QED BY <1>1 DEF RedAt

(***************************************************************************)
(* When a call is made the others come one earlier, from the state that it *)
(* leaves.                                                                 *)
(***************************************************************************)
LEMMA BeforeTail ==
  ASSUME NEW calls \in Seq(Calls), calls # <<>>, NEW n \in 1 .. Len(calls),
         NEW kind, NEW now, NEW value, NEW next,
         Before(calls, n + 1, kind, now, value),
         Head(calls)[1] # kind => next = now,
         Head(calls)[1] = kind => next = Head(calls)[2]
  PROVE  Before(Tail(calls), n, kind, next, value)
<1>1. /\ Head(calls) = calls[1]
      /\ Len(calls) \in Nat /\ n \in Nat
      /\ \A k \in 1 .. (Len(calls) - 1) : Tail(calls)[k] = calls[k + 1]
  BY FirstCall
<1>2. PICK j \in 0 .. n :
        /\ IF j = 0 THEN now = value ELSE calls[j] = <<kind, value>>
        /\ \A k \in (j + 1) .. n : calls[k][1] # kind
  BY <1>1 DEF Before
<1> DEFINE i == IF j = 0 THEN 0 ELSE j - 1
<1>3. i \in 0 .. (n - 1)
  BY <1>1, <1>2
<1>4. \A k \in (i + 1) .. (n - 1) : k + 1 \in (j + 1) .. n /\ Tail(calls)[k] = calls[k + 1]
  BY <1>1, <1>2
<1>5. \A k \in (i + 1) .. (n - 1) : Tail(calls)[k][1] # kind
  BY <1>2, <1>4
<1>6. IF i = 0 THEN next = value ELSE Tail(calls)[i] = <<kind, value>>
  <2>1. CASE j = 0
    <3>1. 1 \in (j + 1) .. n
      BY <1>1, <2>1
    <3>2. Head(calls)[1] # kind
      BY <1>1, <1>2, <3>1
    <3> QED BY <1>2, <2>1, <3>2
  <2>2. CASE j = 1
    <3>1. Head(calls) = <<kind, value>>
      BY <1>1, <1>2, <2>2
    <3> QED BY <2>2, <3>1
  <2>3. CASE j > 1
    BY <1>1, <1>2, <2>3
  <2> QED BY <1>2, <2>1, <2>2, <2>3
<1> HIDE DEF i
<1> QED BY <1>3, <1>5, <1>6 DEF Before

\* The same for a title.
LEMMA RedTail ==
  ASSUME NEW calls \in Seq(Calls), calls # <<>>,
         NEW ink, NEW on, NEW ink1, NEW on1,
         TitledRed(calls, ink, on),
         Head(calls)[1] # "pen" => ink1 = ink,
         Head(calls)[1] = "pen" => ink1 = Head(calls)[2],
         Head(calls)[1] # "irq" => on1 = on,
         Head(calls)[1] = "irq" => on1 = Head(calls)[2]
  PROVE  TitledRed(Tail(calls), ink1, on1)
<1>1. /\ Head(calls) = calls[1]
      /\ Len(calls) \in Nat /\ Len(Tail(calls)) = Len(calls) - 1
      /\ \A k \in 1 .. (Len(calls) - 1) : Tail(calls)[k] = calls[k + 1]
  BY FirstCall
<1> SUFFICES ASSUME NEW i \in 1 .. Len(Tail(calls)), Tail(calls)[i] \in Titles
             PROVE  RedAt(Tail(calls), i, ink1, on1)
  BY DEF TitledRed
<1>2. i \in Nat /\ i + 1 \in 1 .. Len(calls) /\ i \in 1 .. (Len(calls) - 1)
  BY <1>1
<1>3. RedAt(calls, i + 1, ink, on)
  BY <1>1, <1>2 DEF TitledRed
<1>4. PICK j \in 0 .. i :
        /\ IF j = 0 THEN ink = Red ELSE calls[j] = <<"pen", Red>>
        /\ \A k \in (j + 1) .. i : calls[k][1] \notin {"pen", "irq"}
        /\ Before(calls, j + 1, "irq", on, FALSE)
  <2>1. (i + 1) - 1 = i
    BY <1>2
  <2> QED BY <1>3, <2>1, Zenon DEF RedAt
<1>5. CASE j = 0
  <2>1. 1 \in (j + 1) .. i
    BY <1>2, <1>5
  <2>2. Head(calls)[1] \notin {"pen", "irq"}
    BY <1>1, <1>4, <2>1
  <2>3. on = FALSE
    BY <1>4, <1>5 DEF Before
  <2>4. ink1 = Red /\ on1 = FALSE
    BY <1>4, <1>5, <2>2, <2>3
  <2>5. Before(Tail(calls), 1, "irq", on1, FALSE)
    BY <2>4 DEF Before
  <2>6. \A k \in 1 .. (i - 1) : Tail(calls)[k][1] \notin {"pen", "irq"}
    BY <1>1, <1>2, <1>4, <1>5
  <2>7. 0 \in 0 .. (i - 1) /\ 0 + 1 = 1
    BY <1>2
  <2> QED BY <2>4, <2>5, <2>6, <2>7, Zenon DEF RedAt
<1>6. CASE j > 0
  <2>1. j \in 1 .. Len(calls) /\ j - 1 \in 0 .. (i - 1) /\ j - 1 + 1 = j
    BY <1>1, <1>2, <1>6
  <2>2. Before(Tail(calls), j, "irq", on1, FALSE)
    BY <1>4, <2>1, BeforeTail
  <2>3. \A k \in j .. (i - 1) : Tail(calls)[k][1] \notin {"pen", "irq"}
    BY <1>1, <1>2, <1>4, <1>6
  <2>4. IF j - 1 = 0 THEN ink1 = Red ELSE Tail(calls)[j - 1] = <<"pen", Red>>
    <3>1. CASE j = 1
      BY <1>1, <1>4, <3>1
    <3>2. CASE j > 1
      BY <1>1, <1>2, <1>4, <3>2
    <3> QED BY <1>6, <3>1, <3>2
  <2> QED BY <2>1, <2>2, <2>3, <2>4 DEF RedAt
<1> QED BY <1>4, <1>5, <1>6
-----------------------------------------------------------------------------
(***************************************************************************)
(* One sequence of calls after another.                                    *)
(***************************************************************************)
LEMMA ConcatCalls ==
  ASSUME NEW s \in Seq(Calls), NEW t \in Seq(Calls)
  PROVE  /\ s \o t \in Seq(Calls)
         /\ Len(s) \in Nat /\ Len(t) \in Nat /\ Len(s \o t) = Len(s) + Len(t)
         /\ \A k \in 1 .. Len(s) : (s \o t)[k] = s[k]
         /\ \A k \in 1 .. Len(t) : (s \o t)[Len(s) + k] = t[k]
<1>1. Len(s) \in Nat /\ Len(t) \in Nat
  BY LenProperties
<1> QED BY <1>1, ConcatProperties

\* What stands in the first part stays.
LEMMA BeforePart ==
  ASSUME NEW s \in Seq(Calls), NEW t \in Seq(Calls), NEW n \in 1 .. (Len(s) + 1),
         NEW kind, NEW now, NEW value, Before(s, n, kind, now, value)
  PROVE  Before(s \o t, n, kind, now, value)
<1>1. Len(s) \in Nat /\ \A k \in 1 .. Len(s) : (s \o t)[k] = s[k]
  BY ConcatCalls
<1> QED BY <1>1 DEF Before

\* What the first part leaves is what the second one starts from.
LEMMA BeforeConcat ==
  ASSUME NEW s \in Seq(Calls), NEW t \in Seq(Calls), NEW n \in 1 .. (Len(t) + 1),
         NEW m, m = Len(s) + n, NEW kind, NEW now, NEW mid, NEW value,
         After(s, kind, now, mid), Before(t, n, kind, mid, value)
  PROVE  Before(s \o t, m, kind, now, value)
<1>1. /\ Len(s) \in Nat /\ Len(t) \in Nat
      /\ \A k \in 1 .. Len(s) : (s \o t)[k] = s[k]
      /\ \A k \in 1 .. Len(t) : (s \o t)[Len(s) + k] = t[k]
  BY ConcatCalls
<1>2. PICK j \in 0 .. (n - 1) :
        /\ IF j = 0 THEN mid = value ELSE t[j] = <<kind, value>>
        /\ \A k \in (j + 1) .. (n - 1) : t[k][1] # kind
  BY DEF Before
<1>3. PICK i \in 0 .. Len(s) :
        /\ IF i = 0 THEN now = mid ELSE s[i] = <<kind, mid>>
        /\ \A k \in (i + 1) .. Len(s) : s[k][1] # kind
  <2>1. (Len(s) + 1) - 1 = Len(s)
    BY <1>1
  <2> QED BY <2>1, Zenon DEF After, Before
<1>4. CASE j > 0
  <2>1. Len(s) + j \in 0 .. (m - 1) /\ Len(s) + j # 0
    BY <1>1, <1>4
  <2>2. (s \o t)[Len(s) + j] = <<kind, value>>
    BY <1>1, <1>2, <1>4
  <2>3. \A k \in (Len(s) + j + 1) .. (m - 1) :
          k - Len(s) \in (j + 1) .. (n - 1) /\ k - Len(s) \in 1 .. Len(t)
          /\ Len(s) + (k - Len(s)) = k
    BY <1>1, <1>4
  <2>4. \A k \in (Len(s) + j + 1) .. (m - 1) : (s \o t)[k] = t[k - Len(s)]
    BY <1>1, <2>3
  <2>5. \A k \in (Len(s) + j + 1) .. (m - 1) : (s \o t)[k][1] # kind
    BY <1>2, <2>3, <2>4
  <2> DEFINE d == Len(s) + j
  <2>6. /\ d \in 1 .. (m - 1) /\ (s \o t)[d] = <<kind, value>>
        /\ \A k \in (d + 1) .. (m - 1) : (s \o t)[k][1] # kind
    BY <1>1, <2>1, <2>2, <2>5
  <2>7. m \in Int
    BY <1>1
  <2> HIDE DEF d
  <2> QED BY <2>6, <2>7, BeforeLast
<1>5. CASE j = 0
  <2>1. i \in 0 .. (m - 1)
    BY <1>1
  <2>2. IF i = 0 THEN now = value ELSE (s \o t)[i] = <<kind, value>>
    BY <1>1, <1>2, <1>3, <1>5
  <2>3. ASSUME NEW k \in (i + 1) .. (m - 1) PROVE (s \o t)[k][1] # kind
    <3>1. CASE k <= Len(s)
      <4>1. k \in (i + 1) .. Len(s) /\ k \in 1 .. Len(s)
        BY <1>1, <3>1
      <4> QED BY <1>1, <1>3, <4>1
    <3>2. CASE k > Len(s)
      <4>1. /\ k - Len(s) \in (0 + 1) .. (n - 1) /\ k - Len(s) \in 1 .. Len(t)
            /\ Len(s) + (k - Len(s)) = k
        BY <1>1, <3>2
      <4>2. (s \o t)[k] = t[k - Len(s)]
        BY <1>1, <4>1
      <4> QED BY <1>2, <1>5, <4>1, <4>2
    <3> QED BY <1>1, <3>1, <3>2
  <2>4. m \in Nat \ {0}
    BY <1>1
  <2>5. CASE i = 0
    <3>1. now = value /\ \A k \in 1 .. (m - 1) : (s \o t)[k][1] # kind
      BY <2>2, <2>3, <2>5
    <3> QED BY <2>4, <3>1, BeforeNone
  <2>6. CASE i > 0
    <3>1. i \in 1 .. (m - 1) /\ (s \o t)[i] = <<kind, value>>
      BY <2>1, <2>2, <2>6
    <3>2. \A k \in (i + 1) .. (m - 1) : (s \o t)[k][1] # kind
      BY <2>3
    <3>3. m \in Int
      BY <2>4
    <3> QED BY <3>1, <3>2, <3>3, BeforeLast
  <2> QED BY <1>1, <2>5, <2>6
<1> QED BY <1>1, <1>2, <1>4, <1>5

\* When both are made.
LEMMA AfterConcat ==
  ASSUME NEW s \in Seq(Calls), NEW t \in Seq(Calls),
         NEW kind, NEW now, NEW mid, NEW value,
         After(s, kind, now, mid), After(t, kind, mid, value)
  PROVE  After(s \o t, kind, now, value)
<1>1. /\ Len(s) \in Nat /\ Len(t) \in Nat /\ Len(s \o t) = Len(s) + Len(t)
      /\ Len(t) + 1 \in 1 .. (Len(t) + 1)
      /\ Len(s \o t) + 1 = Len(s) + (Len(t) + 1)
  BY ConcatCalls
<1>2. Before(t, Len(t) + 1, kind, mid, value)
  BY DEF After
<1>3. Before(s \o t, Len(s \o t) + 1, kind, now, value)
  BY <1>1, <1>2, BeforeConcat
<1> QED BY <1>3 DEF After

\* Calls of other kinds leave the value.
LEMMA AfterNone ==
  ASSUME NEW s, Len(s) \in Nat, NEW kind, NEW value,
         \A k \in 1 .. Len(s) : s[k][1] # kind
  PROVE  After(s, kind, value, value)
<1>1. Len(s) + 1 \in Nat \ {0} /\ \A k \in 1 .. (Len(s) + 1 - 1) : s[k][1] # kind
  OBVIOUS
<1> QED BY <1>1, BeforeNone DEF After

\* Quiet calls leave the interrupt.
LEMMA QuietLeaves ==
  ASSUME NEW s \in Seq(Quiet), NEW on
  PROVE  s \in Seq(Calls) /\ After(s, "irq", on, on)
<1>1. s \in Seq(Calls)
  BY SeqMonotonic DEF Quiet
<1>2. Len(s) \in Nat /\ \A k \in 1 .. Len(s) : s[k][1] # "irq"
  BY ElementOfSeq, LenProperties DEF Quiet
<1> QED BY <1>1, <1>2, AfterNone

\* A title is in one of two parts.
LEMMA TitledPart ==
  ASSUME NEW s \in Seq(Calls), NEW t \in Seq(Plain), NEW ink, NEW on,
         TitledRed(s, ink, on)
  PROVE  TitledRed(s \o t, ink, on)
<1>0. t \in Seq(Calls)
  BY SeqMonotonic DEF Plain
<1>1. /\ Len(s) \in Nat /\ Len(t) \in Nat /\ Len(s \o t) = Len(s) + Len(t)
      /\ \A k \in 1 .. Len(s) : (s \o t)[k] = s[k]
      /\ \A k \in 1 .. Len(t) : (s \o t)[Len(s) + k] = t[k]
  BY <1>0, ConcatCalls
<1> SUFFICES ASSUME NEW i \in 1 .. Len(s \o t), (s \o t)[i] \in Titles
             PROVE  RedAt(s \o t, i, ink, on)
  BY DEF TitledRed
<1>2. i \in 1 .. Len(s)
  <2> SUFFICES ASSUME i > Len(s) PROVE FALSE
    BY <1>1
  <2>1. i - Len(s) \in 1 .. Len(t) /\ Len(s) + (i - Len(s)) = i
    BY <1>1
  <2>2. (s \o t)[i] = t[i - Len(s)]
    BY <1>1, <2>1
  <2>3. t[i - Len(s)] \in Plain
    BY <2>1, ElementOfSeq
  <2> QED BY <2>2, <2>3 DEF Plain
<1>3. PICK j \in 0 .. (i - 1) :
        /\ IF j = 0 THEN ink = Red ELSE s[j] = <<"pen", Red>>
        /\ \A k \in (j + 1) .. (i - 1) : s[k][1] \notin {"pen", "irq"}
        /\ Before(s, j + 1, "irq", on, FALSE)
  BY <1>1, <1>2 DEF TitledRed, RedAt
<1>4. Before(s \o t, j + 1, "irq", on, FALSE)
  <2>1. j + 1 \in 1 .. (Len(s) + 1)
    BY <1>1, <1>2
  <2> QED BY <1>0, <1>3, <2>1, BeforePart
<1>5. IF j = 0 THEN ink = Red ELSE (s \o t)[j] = <<"pen", Red>>
  BY <1>1, <1>2, <1>3
<1>6. \A k \in (j + 1) .. (i - 1) : (s \o t)[k][1] \notin {"pen", "irq"}
  BY <1>1, <1>2, <1>3
<1> QED BY <1>3, <1>4, <1>5, <1>6 DEF RedAt

\* A part that sets the pen itself may come after others.
LEMMA TitledConcat ==
  ASSUME NEW s \in Seq(Plain), NEW t \in Seq(Calls), NEW on, NEW mid,
         After(s, "irq", on, mid), TitledRed(t, Black, mid)
  PROVE  TitledRed(s \o t, Black, on)
<1>0. s \in Seq(Calls)
  BY SeqMonotonic DEF Plain
<1>1. /\ Len(s) \in Nat /\ Len(t) \in Nat /\ Len(s \o t) = Len(s) + Len(t)
      /\ \A k \in 1 .. Len(s) : (s \o t)[k] = s[k]
      /\ \A k \in 1 .. Len(t) : (s \o t)[Len(s) + k] = t[k]
  BY <1>0, ConcatCalls
<1> SUFFICES ASSUME NEW i \in 1 .. Len(s \o t), (s \o t)[i] \in Titles
             PROVE  RedAt(s \o t, i, Black, on)
  BY DEF TitledRed
<1>2. i > Len(s)
  <2> SUFFICES ASSUME i \in 1 .. Len(s) PROVE FALSE
    BY <1>1
  <2>1. s[i] \in Plain /\ (s \o t)[i] = s[i]
    BY <1>1, ElementOfSeq
  <2> QED BY <2>1 DEF Plain
<1> DEFINE h == i - Len(s)
<1>3. h \in 1 .. Len(t) /\ Len(s) + h = i /\ (s \o t)[i] = t[h]
  <2>1. h \in 1 .. Len(t) /\ Len(s) + h = i
    BY <1>1, <1>2
  <2> QED BY <1>1, <2>1
<1> HIDE DEF h
<1>4. PICK j \in 0 .. (h - 1) :
        /\ IF j = 0 THEN Black = Red ELSE t[j] = <<"pen", Red>>
        /\ \A k \in (j + 1) .. (h - 1) : t[k][1] \notin {"pen", "irq"}
        /\ Before(t, j + 1, "irq", mid, FALSE)
  BY <1>3 DEF TitledRed, RedAt
<1>5. j > 0 /\ j \in 1 .. Len(t) /\ h \in Nat
  BY <1>1, <1>3, <1>4 DEF Black, Red
<1>6. Before(s \o t, Len(s) + j + 1, "irq", on, FALSE)
  <2>1. j + 1 \in 1 .. (Len(t) + 1) /\ Len(s) + j + 1 = Len(s) + (j + 1)
    BY <1>1, <1>5
  <2> QED BY <1>0, <1>4, <2>1, BeforeConcat
<1>7. Len(s) + j \in 0 .. (i - 1) /\ Len(s) + j # 0
  BY <1>1, <1>3, <1>5
<1>8. (s \o t)[Len(s) + j] = <<"pen", Red>>
  BY <1>1, <1>4, <1>5
<1>9. ASSUME NEW k \in (Len(s) + j + 1) .. (i - 1)
      PROVE  (s \o t)[k][1] \notin {"pen", "irq"}
  <2>1. /\ k - Len(s) \in (j + 1) .. (h - 1) /\ k - Len(s) \in 1 .. Len(t)
        /\ Len(s) + (k - Len(s)) = k
    BY <1>1, <1>3, <1>5
  <2>2. (s \o t)[k] = t[k - Len(s)]
    BY <1>1, <2>1
  <2> QED BY <1>4, <2>1, <2>2
<1> QED BY <1>6, <1>7, <1>8, <1>9 DEF RedAt
-----------------------------------------------------------------------------
(***************************************************************************)
(* The pieces that scripts are made of.  Calm calls are quiet and plain.   *)
(***************************************************************************)
Calm == Quiet \cap Plain

LEMMA CalmCalls ==
  ASSUME NEW s \in Seq(Calm)
  PROVE  s \in Seq(Quiet) /\ s \in Seq(Plain) /\ s \in Seq(Calls)
BY SeqMonotonic DEF Calm, Quiet, Plain

LEMMA Joined ==
  ASSUME NEW S, NEW s \in Seq(S), NEW t \in Seq(S)
  PROVE  s \o t \in Seq(S)
BY ConcatProperties

LEMMA ClearPiece ==
  ASSUME NEW ink
  PROVE  Clear \in Seq(Calm) /\ After(Clear, "pen", ink, ink)
<1>1. <<"clear">> \in Calm /\ <<"cleared">> \in Calm
  BY DEF Calm, Quiet, Plain, Calls, Titles
<1>2. Clear \in Seq(Calm)
  BY <1>1 DEF Clear
<1>3. Len(Clear) \in Nat /\ \A k \in 1 .. Len(Clear) : Clear[k][1] # "pen"
  BY DEF Clear
<1> QED BY <1>2, <1>3, AfterNone

LEMMA PenPiece ==
  ASSUME NEW color \in {Black, Red}, NEW ink
  PROVE  /\ Pen(color) \in Seq(Calm) /\ Pen(color) \in Seq(Pens)
         /\ After(Pen(color), "pen", ink, color)
<1>1. <<"pen", color>> \in Pens
  BY DEF Pens
<1>2. <<"pen", color>> \in Calm
  BY <1>1 DEF Calm, Quiet, Plain, Calls, Titles
<1>3. Pen(color) \in Seq(Calm) /\ Pen(color) \in Seq(Pens)
  BY <1>1, <1>2 DEF Pen
<1>4. Len(Pen(color)) = 1 /\ Pen(color)[1] = <<"pen", color>>
  BY DEF Pen
<1>5. 1 \in 1 .. (2 - 1) /\ \A k \in (1 + 1) .. (2 - 1) : Pen(color)[k][1] # "pen"
  OBVIOUS
<1>6. Before(Pen(color), 2, "pen", ink, color)
  BY <1>4, <1>5, BeforeLast
<1> QED BY <1>3, <1>4, <1>6 DEF After

LEMMA SwitchPiece ==
  ASSUME NEW flag \in BOOLEAN, NEW on, NEW ink
  PROVE  /\ <<<<"irq", flag>>>> \in Seq(Plain)
         /\ After(<<<<"irq", flag>>>>, "irq", on, flag)
         /\ After(<<<<"irq", flag>>>>, "pen", ink, ink)
<1> DEFINE s == <<<<"irq", flag>>>>
<1>1. <<"irq", flag>> \in Plain
  BY DEF Plain, Calls, Switches, Titles
<1>2. s \in Seq(Plain)
  BY <1>1
<1>3. Len(s) = 1 /\ s[1] = <<"irq", flag>>
  OBVIOUS
<1> HIDE DEF s
<1>4. 1 \in 1 .. (2 - 1) /\ \A k \in (1 + 1) .. (2 - 1) : s[k][1] # "irq"
  OBVIOUS
<1>5. Before(s, 2, "irq", on, flag)
  BY <1>3, <1>4, BeforeLast
<1>6. \A k \in 1 .. Len(s) : s[k][1] # "pen"
  BY <1>3
<1>7. After(s, "pen", ink, ink)
  BY <1>3, <1>6, AfterNone
<1> QED BY <1>2, <1>3, <1>5, <1>7 DEF After, s

\* Calls that only draw.
LEMMA ShownLeaves ==
  ASSUME NEW s \in Seq(Shows), NEW ink
  PROVE  s \in Seq(Quiet) /\ After(s, "pen", ink, ink)
<1>1. \A c \in Shows : c[1] = "show" /\ c \in Quiet
  BY DEF Shows, Quiet, Calls
<1>2. s \in Seq(Quiet)
  BY <1>1, SeqMonotonic
<1>3. Len(s) \in Nat /\ \A k \in 1 .. Len(s) : s[k][1] # "pen"
  BY <1>1, ElementOfSeq, LenProperties
<1> QED BY <1>2, <1>3, AfterNone

LEMMA ShowPiece ==
  ASSUME NEW area \in Areas, NEW by \in Users
  PROVE  /\ Show(area, by) \in Seq(Shows) /\ Show(area, by) \in Seq({"show"} \X Areas \X {by})
         /\ (area # "title" \/ by \notin {"psw", "tags"}) => Show(area, by) \in Seq(Calm)
<1>1. <<"show", area, by>> \in Shows /\ <<"show", area, by>> \in {"show"} \X Areas \X {by}
  BY DEF Shows
<1>2. Show(area, by) \in Seq(Shows) /\ Show(area, by) \in Seq({"show"} \X Areas \X {by})
  BY <1>1 DEF Show
<1>3. ASSUME area # "title" \/ by \notin {"psw", "tags"} PROVE Show(area, by) \in Seq(Calm)
  <2>1. <<"show", area, by>> \in Calm
    BY <1>1, <1>3 DEF Calm, Quiet, Plain, Calls, Titles
  <2> QED BY <2>1 DEF Show
<1> QED BY <1>2, <1>3

\* With the pen red and the interrupt disabled every title drawn is red.
LEMMA RedTitles ==
  ASSUME NEW s \in Seq(Shows), NEW ink
  PROVE  TitledRed(Pen(Red) \o s, ink, FALSE)
<1>1. Pen(Red) \in Seq(Calls) /\ Len(Pen(Red)) = 1 /\ Pen(Red)[1] = <<"pen", Red>>
  BY PenPiece, CalmCalls DEF Pen
<1>2. s \in Seq(Quiet) /\ s \in Seq(Calls)
  BY ShownLeaves, QuietLeaves
<1> DEFINE t == Pen(Red) \o s
<1>3. /\ Len(s) \in Nat /\ Len(t) = 1 + Len(s) /\ t[1] = <<"pen", Red>>
      /\ \A k \in 1 .. Len(s) : t[1 + k] = s[k]
  BY <1>1, <1>2, ConcatCalls
<1> HIDE DEF t
<1> SUFFICES ASSUME NEW i \in 1 .. Len(t), t[i] \in Titles PROVE RedAt(t, i, ink, FALSE)
  BY DEF TitledRed, t
<1>4. i # 1
  BY <1>3 DEF Titles
<1>5. 1 \in 0 .. (i - 1) /\ t[1] = <<"pen", Red>>
  BY <1>3, <1>4
<1>6. ASSUME NEW k \in (1 + 1) .. (i - 1) PROVE t[k][1] \notin {"pen", "irq"}
  <2>1. k - 1 \in 1 .. Len(s) /\ 1 + (k - 1) = k
    BY <1>3
  <2>2. t[k] = s[k - 1] /\ s[k - 1] \in Shows
    BY <1>3, <2>1, ElementOfSeq
  <2> QED BY <2>2 DEF Shows
<1>7. Before(t, 2, "irq", FALSE, FALSE)
  <2>1. \A k \in 1 .. (2 - 1) : t[k][1] # "irq"
    BY <1>3
  <2>2. 2 \in Nat \ {0}
    OBVIOUS
  <2> QED BY <2>1, <2>2, BeforeNone
<1>8. 2 = 1 + 1 /\ 1 \in 1 .. (i - 1) /\ i \in Int
  BY <1>3, <1>4
<1> QED BY <1>5, <1>6, <1>7, <1>8, RedSince

\* From any state, if from the one that helps least.
LEMMA TitledAnyhow ==
  ASSUME NEW s \in Seq(Calls), NEW ink, NEW on, TitledRed(s, Black, TRUE)
  PROVE  TitledRed(s, ink, on)
<1> SUFFICES ASSUME NEW i \in 1 .. Len(s), s[i] \in Titles PROVE RedAt(s, i, ink, on)
  BY DEF TitledRed
<1>0. i \in Nat
  BY LenProperties
<1>1. PICK j \in 0 .. (i - 1) :
        /\ IF j = 0 THEN Black = Red ELSE s[j] = <<"pen", Red>>
        /\ \A k \in (j + 1) .. (i - 1) : s[k][1] \notin {"pen", "irq"}
        /\ Before(s, j + 1, "irq", TRUE, FALSE)
  BY DEF TitledRed, RedAt
<1>2. j # 0
  BY <1>1 DEF Black, Red
<1>3. Before(s, j + 1, "irq", on, FALSE)
  <2>1. j + 1 \in Int /\ TRUE # FALSE
    BY <1>0
  <2> QED BY <1>1, <2>1, BeforeOther
<1> QED BY <1>1, <1>2, <1>3 DEF RedAt

\* Plain calls draw no such title.
LEMMA PlainTitled ==
  ASSUME NEW s \in Seq(Plain), NEW ink, NEW on
  PROVE  s \in Seq(Calls) /\ TitledRed(s, ink, on)
<1>1. s \in Seq(Calls)
  BY SeqMonotonic DEF Plain
<1>2. \A i \in 1 .. Len(s) : s[i] \in Plain
  BY ElementOfSeq
<1> QED BY <1>1, <1>2 DEF TitledRed, Plain
-----------------------------------------------------------------------------
(***************************************************************************)
(* The scripts.                                                            *)
(***************************************************************************)
LEMMA InRedPiece ==
  ASSUME NEW s \in Seq(Shows), NEW ink
  PROVE  /\ InRed(s) \in Seq(Quiet) /\ InRed(s) \in Seq(Calls)
         /\ s \in Seq(Calm) => InRed(s) \in Seq(Calm)
         /\ After(InRed(s), "pen", ink, Black)
         /\ TitledRed(InRed(s), Black, FALSE)
<1>1. /\ Pen(Red) \in Seq(Calm) /\ Pen(Black) \in Seq(Calm)
      /\ After(Pen(Red), "pen", ink, Red) /\ After(Pen(Black), "pen", Red, Black)
  BY PenPiece
<1>2. /\ Pen(Red) \in Seq(Quiet) /\ Pen(Red) \in Seq(Calls)
      /\ Pen(Black) \in Seq(Quiet) /\ Pen(Black) \in Seq(Calls) /\ Pen(Black) \in Seq(Plain)
  BY <1>1, CalmCalls
<1>3. s \in Seq(Quiet) /\ s \in Seq(Calls) /\ After(s, "pen", Red, Red)
  BY ShownLeaves, QuietLeaves
<1>4. Pen(Red) \o s \in Seq(Quiet) /\ Pen(Red) \o s \in Seq(Calls)
  BY <1>2, <1>3, Joined
<1>5. InRed(s) \in Seq(Quiet) /\ InRed(s) \in Seq(Calls)
  BY <1>2, <1>4, Joined DEF InRed
<1>6. s \in Seq(Calm) => InRed(s) \in Seq(Calm)
  BY <1>1, Joined DEF InRed
<1>7. After(Pen(Red) \o s, "pen", ink, Red)
  BY <1>1, <1>2, <1>3, AfterConcat
<1>8. After(InRed(s), "pen", ink, Black)
  BY <1>1, <1>2, <1>4, <1>7, AfterConcat DEF InRed
<1>9. TitledRed(Pen(Red) \o s, Black, FALSE)
  BY RedTitles
<1>10. TitledRed(InRed(s), Black, FALSE)
  BY <1>2, <1>4, <1>9, TitledPart DEF InRed
<1> QED BY <1>5, <1>6, <1>8, <1>10

\* Drawing after anything that leaves the pen black.
LEMMA ThenShow ==
  ASSUME NEW s \in Seq(Calls), NEW ink, After(s, "pen", ink, Black),
         NEW t \in Seq(Shows)
  PROVE  s \o t \in Seq(Calls) /\ After(s \o t, "pen", ink, Black)
<1>1. t \in Seq(Calls) /\ After(t, "pen", Black, Black)
  BY ShownLeaves, QuietLeaves
<1> QED BY <1>1, Joined, AfterConcat

\* The main window: security_door_window.
LEMMA WindowScript ==
  ASSUME NEW ink
  PROVE  /\ security_door_window \in Seq(Calm)
         /\ After(security_door_window, "pen", ink, Black)
<1> DEFINE s == Clear \o Pen(Black)
<1>1. /\ Clear \in Seq(Calm) /\ Pen(Black) \in Seq(Calm)
      /\ After(Clear, "pen", ink, ink) /\ After(Pen(Black), "pen", ink, Black)
  BY ClearPiece, PenPiece
<1>2. s \in Seq(Calm)
  BY <1>1, Joined
<1>3. s \in Seq(Calls) /\ After(s, "pen", ink, Black)
  BY <1>1, <1>2, CalmCalls, AfterConcat
<1>4. /\ Show("title", "main") \in Seq(Calm) /\ Show("title", "main") \in Seq(Shows)
      /\ Show("text", "main") \in Seq(Calm) /\ Show("text", "main") \in Seq(Shows)
      /\ Show("keys", "main") \in Seq(Calm) /\ Show("keys", "main") \in Seq(Shows)
  BY ShowPiece DEF Areas, Users
<1>5. security_door_window \in Seq(Calm)
  BY <1>2, <1>4, Joined DEF security_door_window
<1> HIDE DEF s
<1>6. /\ s \o Show("title", "main") \in Seq(Calls)
      /\ After(s \o Show("title", "main"), "pen", ink, Black)
  BY <1>3, <1>4, ThenShow
<1>7. /\ (s \o Show("title", "main")) \o Show("text", "main") \in Seq(Calls)
      /\ After((s \o Show("title", "main")) \o Show("text", "main"), "pen", ink, Black)
  BY <1>4, <1>6, ThenShow
<1>8. After(((s \o Show("title", "main")) \o Show("text", "main")) \o Show("keys", "main"),
            "pen", ink, Black)
  BY <1>4, <1>7, ThenShow
<1> QED BY <1>5, <1>8 DEF security_door_window, s

\* The end of an operation: the interrupt, then the main window.
LEMMA CloseScript ==
  ASSUME NEW on, NEW ink
  PROVE  /\ Close \in Seq(Plain) /\ Close \in Seq(Calls)
         /\ After(Close, "irq", on, TRUE) /\ After(Close, "pen", ink, Black)
<1>1. /\ Enable \in Seq(Plain) /\ After(Enable, "irq", on, TRUE)
      /\ After(Enable, "pen", ink, ink)
  BY SwitchPiece DEF Enable
<1>2. /\ security_door_window \in Seq(Plain) /\ security_door_window \in Seq(Quiet)
      /\ security_door_window \in Seq(Calls)
      /\ After(security_door_window, "pen", ink, Black)
  BY WindowScript, CalmCalls
<1>3. After(security_door_window, "irq", TRUE, TRUE)
  BY <1>2, QuietLeaves
<1>4. Enable \in Seq(Calls)
  BY <1>1, PlainTitled
<1>5. Close \in Seq(Plain)
  BY <1>1, <1>2, Joined DEF Close
<1>6. Close \in Seq(Calls)
  BY <1>5, PlainTitled
<1>7. After(Close, "irq", on, TRUE)
  BY <1>1, <1>2, <1>3, <1>4, AfterConcat DEF Close
<1>8. After(Close, "pen", ink, Black)
  BY <1>1, <1>2, <1>4, AfterConcat DEF Close
<1> QED BY <1>5, <1>6, <1>7, <1>8

\* Anything plain, then the end.
LEMMA ThenClose ==
  ASSUME NEW s \in Seq(Plain), NEW on, NEW mid, After(s, "irq", on, mid),
         NEW ink, NEW color, After(s, "pen", ink, color)
  PROVE  /\ s \o Close \in Seq(Plain)
         /\ After(s \o Close, "irq", on, TRUE) /\ After(s \o Close, "pen", ink, Black)
<1>1. s \in Seq(Calls)
  BY PlainTitled
<1>2. /\ Close \in Seq(Plain) /\ Close \in Seq(Calls)
      /\ After(Close, "irq", mid, TRUE) /\ After(Close, "pen", color, Black)
  BY CloseScript
<1>3. s \o Close \in Seq(Plain)
  BY <1>2, Joined
<1>4. After(s \o Close, "irq", on, TRUE)
  BY <1>1, <1>2, AfterConcat
<1>5. After(s \o Close, "pen", ink, Black)
  BY <1>1, <1>2, AfterConcat
<1> QED BY <1>3, <1>4, <1>5

\* The dialog that asks for a password: Psd_setting_GUI.
LEMMA PsdScript ==
  ASSUME NEW by \in {"psw", "setup"}, NEW ink
  PROVE  /\ Psd_setting_GUI(by) \in Seq(Quiet) /\ Psd_setting_GUI(by) \in Seq(Calls)
         /\ by = "setup" => Psd_setting_GUI(by) \in Seq(Calm)
         /\ After(Psd_setting_GUI(by), "pen", ink, Black)
         /\ TitledRed(Psd_setting_GUI(by), Black, FALSE)
         /\ \E rest \in Seq(Owned(by)) : Psd_setting_GUI(by) = Clear \o rest
<1> DEFINE head == Show("title", by) \o Show("line", by)
           r == InRed(head)
           t == Show("text", by)
           k == Show("keys", by)
<1>1. /\ t \in Seq(Shows) /\ t \in Seq(Calm) /\ k \in Seq(Shows) /\ k \in Seq(Calm)
      /\ by = "setup" => Show("title", by) \in Seq(Calm)
      /\ Show("line", by) \in Seq(Calm)
      /\ Show("title", by) \in Seq(Shows) /\ Show("line", by) \in Seq(Shows)
  BY ShowPiece DEF Areas, Users
<1>2. head \in Seq(Shows) /\ (by = "setup" => head \in Seq(Calm))
  BY <1>1, Joined
<1>3. /\ r \in Seq(Quiet) /\ r \in Seq(Calls) /\ (by = "setup" => r \in Seq(Calm))
      /\ After(r, "pen", ink, Black) /\ TitledRed(r, Black, FALSE)
  <2> HIDE DEF head
  <2> QED BY <1>2, InRedPiece
<1>4. r \in Seq(Owned(by)) /\ t \in Seq(Owned(by)) /\ k \in Seq(Owned(by))
  <2> DEFINE O == {"show"} \X Areas \X {by}
  <2>1. O \subseteq Owned(by) /\ Pens \subseteq Owned(by)
    BY DEF Owned
  <2>2. /\ Show("title", by) \in Seq(O) /\ Show("line", by) \in Seq(O)
        /\ t \in Seq(O) /\ k \in Seq(O)
        /\ Pen(Red) \in Seq(Pens) /\ Pen(Black) \in Seq(Pens)
    BY ShowPiece, PenPiece DEF Areas, Users
  <2> HIDE DEF O, t, k
  <2>3. /\ Show("title", by) \in Seq(Owned(by)) /\ Show("line", by) \in Seq(Owned(by))
        /\ t \in Seq(Owned(by)) /\ k \in Seq(Owned(by))
        /\ Pen(Red) \in Seq(Owned(by)) /\ Pen(Black) \in Seq(Owned(by))
    BY <2>1, <2>2, SeqMonotonic
  <2> QED BY <2>3, Joined DEF InRed
<1>5. /\ Clear \in Seq(Calm) /\ Clear \in Seq(Quiet) /\ Clear \in Seq(Calls)
      /\ Clear \in Seq(Plain)
      /\ After(Clear, "pen", ink, ink) /\ After(Clear, "irq", FALSE, FALSE)
  BY ClearPiece, CalmCalls, QuietLeaves
<1>6. /\ t \in Seq(Quiet) /\ k \in Seq(Quiet) /\ t \in Seq(Calls) /\ k \in Seq(Calls)
      /\ t \in Seq(Plain) /\ k \in Seq(Plain)
  BY <1>1, CalmCalls
<1>7. Psd_setting_GUI(by) = ((Clear \o r) \o t) \o k
  BY DEF Psd_setting_GUI
<1> HIDE DEF r, t, k
<1>8. Psd_setting_GUI(by) \in Seq(Quiet) /\ (by = "setup" => Psd_setting_GUI(by) \in Seq(Calm))
  BY <1>1, <1>3, <1>5, <1>6, <1>7, Joined
<1>9. Clear \o r \in Seq(Calls) /\ After(Clear \o r, "pen", ink, Black)
  BY <1>3, <1>5, Joined, AfterConcat
<1>10. (Clear \o r) \o t \in Seq(Calls) /\ After((Clear \o r) \o t, "pen", ink, Black)
  BY <1>1, <1>9, ThenShow
<1>11. /\ Psd_setting_GUI(by) \in Seq(Calls)
       /\ After(Psd_setting_GUI(by), "pen", ink, Black)
  BY <1>1, <1>7, <1>10, ThenShow
<1>12. TitledRed(Psd_setting_GUI(by), Black, FALSE)
  <2>1. TitledRed(Clear \o r, Black, FALSE)
    BY <1>3, <1>5, TitledConcat
  <2>2. TitledRed((Clear \o r) \o t, Black, FALSE)
    BY <1>6, <1>9, <2>1, TitledPart
  <2> QED BY <1>6, <1>7, <1>10, <2>2, TitledPart
<1>13. \E rest \in Seq(Owned(by)) : Psd_setting_GUI(by) = Clear \o rest
  <2>1. (r \o t) \o k \in Seq(Owned(by))
    BY <1>4, Joined
  <2>2. (Clear \o r) \o t = Clear \o (r \o t)
    BY <1>3, <1>5, <1>6, ConcatAssociative
  <2>3. r \o t \in Seq(Calls)
    BY <1>3, <1>6, Joined
  <2>4. (Clear \o (r \o t)) \o k = Clear \o ((r \o t) \o k)
    <3> DEFINE rt == r \o t
    <3> SUFFICES (Clear \o rt) \o k = Clear \o (rt \o k)
      OBVIOUS
    <3>1. Clear \in Seq(Calls) /\ rt \in Seq(Calls) /\ k \in Seq(Calls)
      BY <1>5, <1>6, <2>3
    <3> HIDE DEF rt
    <3> QED BY <3>1, ConcatAssociative
  <2> QED BY <1>7, <2>1, <2>2, <2>4
<1> QED BY <1>8, <1>11, <1>12, <1>13

\* Match_psw: the interrupt is disabled first.
LEMMA PasswordScript ==
  ASSUME NEW ink
  PROVE  /\ Disable \o Psd_setting_GUI("psw") \in Seq(Calls)
         /\ After(Disable \o Psd_setting_GUI("psw"), "pen", ink, Black)
         /\ TitledRed(Disable \o Psd_setting_GUI("psw"), Black, TRUE)
<1>1. /\ Psd_setting_GUI("psw") \in Seq(Calls)
      /\ After(Psd_setting_GUI("psw"), "pen", ink, Black)
      /\ TitledRed(Psd_setting_GUI("psw"), Black, FALSE)
  BY PsdScript
<1>2. /\ Disable \in Seq(Plain) /\ After(Disable, "irq", TRUE, FALSE)
      /\ After(Disable, "pen", ink, ink)
  BY SwitchPiece DEF Disable
<1>3. Disable \in Seq(Calls)
  BY <1>2, PlainTitled
<1>4. Disable \o Psd_setting_GUI("psw") \in Seq(Calls)
  BY <1>1, <1>3, Joined
<1>5. After(Disable \o Psd_setting_GUI("psw"), "pen", ink, Black)
  BY <1>1, <1>2, <1>3, AfterConcat
<1>6. TitledRed(Disable \o Psd_setting_GUI("psw"), Black, TRUE)
  BY <1>1, <1>2, TitledConcat
<1> QED BY <1>4, <1>5, <1>6

\* down_count: the same, and the pen stays red.
LEMMA CountScript ==
  /\ Disable \o Clear \o Pen(Red) \in Seq(Plain)
  /\ Pen(Red) \in Seq(Owned("count"))
  /\ Disable \o Clear \o Pen(Red) = Disable \o (Clear \o Pen(Red))
<1>1. Clear \in Seq(Plain) /\ Pen(Red) \in Seq(Plain) /\ Disable \in Seq(Plain)
  BY ClearPiece, PenPiece, SwitchPiece, CalmCalls DEF Disable
<1>2. Disable \o Clear \o Pen(Red) \in Seq(Plain)
  BY <1>1, Joined
<1>3. Pen(Red) \in Seq(Pens) /\ Pens \subseteq Owned("count")
  BY PenPiece DEF Owned
<1>4. Pen(Red) \in Seq(Owned("count"))
  BY <1>3, SeqMonotonic
<1>5. Disable \o Clear \o Pen(Red) = Disable \o (Clear \o Pen(Red))
  BY <1>1, ConcatAssociative
<1> QED BY <1>2, <1>4, <1>5

\* The dialogs that register and delete: register_delete_GUI.
LEMMA TagsScript ==
  LET calls == Clear \o register_delete_GUI \o Show("text", "tags") IN
  /\ calls \in Seq(Calls) /\ After(calls, "pen", Black, Black)
  /\ TitledRed(calls, Black, TRUE)
<1> DEFINE a == Show("title", "tags")
           k == Show("keys", "tags")
           t == Show("text", "tags")
           r == InRed(a)
           cd == Clear \o Disable
           g == register_delete_GUI
<1>1. /\ a \in Seq(Shows) /\ k \in Seq(Shows) /\ t \in Seq(Shows)
      /\ k \in Seq(Calm) /\ t \in Seq(Calm)
  BY ShowPiece DEF Areas, Users
<1>2. k \in Seq(Plain) /\ t \in Seq(Plain)
  BY <1>1, CalmCalls
<1>3. /\ r \in Seq(Calls) /\ After(r, "pen", Black, Black)
      /\ TitledRed(r, Black, FALSE)
  <2> HIDE DEF a
  <2> QED BY <1>1, InRedPiece
<1>4. /\ Clear \in Seq(Plain) /\ Clear \in Seq(Calls)
      /\ After(Clear, "pen", Black, Black) /\ After(Clear, "irq", TRUE, TRUE)
  BY ClearPiece, CalmCalls, QuietLeaves
<1>5. /\ Disable \in Seq(Plain) /\ After(Disable, "irq", TRUE, FALSE)
      /\ After(Disable, "pen", Black, Black)
      /\ Enable \in Seq(Plain) /\ After(Enable, "pen", Black, Black)
  BY SwitchPiece DEF Disable, Enable
<1>6. Disable \in Seq(Calls) /\ Enable \in Seq(Calls)
  BY <1>5, PlainTitled
<1>7. /\ cd \in Seq(Plain) /\ cd \in Seq(Calls)
      /\ After(cd, "irq", TRUE, FALSE) /\ After(cd, "pen", Black, Black)
  BY <1>4, <1>5, <1>6, Joined, AfterConcat
<1>8. g = ((cd \o r) \o Enable) \o k
  BY DEF register_delete_GUI
<1> HIDE DEF r, cd, k, t, g
<1>9. /\ cd \o r \in Seq(Calls) /\ After(cd \o r, "pen", Black, Black)
      /\ TitledRed(cd \o r, Black, TRUE)
  BY <1>3, <1>7, Joined, AfterConcat, TitledConcat
<1>10. /\ (cd \o r) \o Enable \in Seq(Calls)
       /\ After((cd \o r) \o Enable, "pen", Black, Black)
       /\ TitledRed((cd \o r) \o Enable, Black, TRUE)
  BY <1>5, <1>6, <1>9, Joined, AfterConcat, TitledPart
<1>11. g \in Seq(Calls) /\ After(g, "pen", Black, Black) /\ TitledRed(g, Black, TRUE)
  BY <1>1, <1>2, <1>8, <1>10, ThenShow, TitledPart
<1>12. /\ Clear \o g \in Seq(Calls) /\ After(Clear \o g, "pen", Black, Black)
       /\ TitledRed(Clear \o g, Black, TRUE)
  BY <1>4, <1>11, Joined, AfterConcat, TitledConcat
<1>13. /\ (Clear \o g) \o t \in Seq(Calls)
       /\ After((Clear \o g) \o t, "pen", Black, Black)
       /\ TitledRed((Clear \o g) \o t, Black, TRUE)
  BY <1>1, <1>2, <1>12, ThenShow, TitledPart
<1> QED BY <1>13 DEF g, t
-----------------------------------------------------------------------------
(***************************************************************************)
(* The invariant between two scripts: nothing is left to draw.             *)
(***************************************************************************)
LEMMA AfterNothing ==
  ASSUME NEW kind, NEW now, NEW value, After(<<>>, kind, now, value)
  PROVE  now = value
<1>1. Len(<<>>) + 1 = 1
  OBVIOUS
<1>2. Before(<<>>, 1, kind, now, value)
  BY <1>1 DEF After
<1>3. PICK j \in 0 .. (1 - 1) : IF j = 0 THEN now = value ELSE <<>>[j] = <<kind, value>>
  BY <1>2 DEF Before
<1>4. j = 0
  BY <1>3
<1> QED BY <1>3, <1>4

\* A dialog's own calls are calls.
LEMMA OwnedCalls ==
  ASSUME NEW who \in Users, NEW rest \in Seq(Owned(who))
  PROVE  rest \in Seq(Calls)
<1>1. Owned(who) \subseteq Calls
  BY DEF Owned, Calls, Shows
<1> QED BY <1>1, SeqMonotonic

\* The two halves of a clear.
LEMMA ClearHalves ==
  ASSUME NEW rest \in Seq(Calls)
  PROVE  /\ <<<<"cleared">>>> \o rest \in Seq(Calls)
         /\ Clear \o rest = <<<<"clear">>>> \o (<<<<"cleared">>>> \o rest)
<1>1. <<"clear">> \in Calls /\ <<"cleared">> \in Calls
  BY DEF Calls
<1>2. <<<<"clear">>>> \in Seq(Calls) /\ <<<<"cleared">>>> \in Seq(Calls)
  BY <1>1
<1>3. Clear = <<<<"clear">>>> \o <<<<"cleared">>>>
  BY DEF Clear
<1> QED BY <1>2, <1>3, Joined, ConcatAssociative

\* What is first in the scripts of Undisturbed.
LEMMA FirstSteps ==
  ASSUME NEW rest \in Seq(Calls)
  PROVE  /\ Disable \o (Clear \o rest) # <<>>
         /\ Head(Disable \o (Clear \o rest)) = <<"irq", FALSE>>
         /\ Tail(Disable \o (Clear \o rest)) = Clear \o rest
         /\ Clear \o rest # <<>>
         /\ Head(Clear \o rest) = <<"clear">>
         /\ Tail(Clear \o rest) = <<<<"cleared">>>> \o rest
         /\ <<<<"cleared">>>> \o rest # <<>>
         /\ Head(<<<<"cleared">>>> \o rest) = <<"cleared">>
         /\ Tail(<<<<"cleared">>>> \o rest) = rest
<1>1. <<"clear">> \in Calls /\ <<"cleared">> \in Calls /\ <<"irq", FALSE>> \in Calls
  BY DEF Calls, Switches
<1> DEFINE s == <<<<"cleared">>>> \o rest
           t == Clear \o rest
<1>2. s \in Seq(Calls) /\ t = <<<<"clear">>>> \o s
  BY ClearHalves
<1>3. s # <<>> /\ Head(s) = <<"cleared">> /\ Tail(s) = rest
  BY <1>1, ConsCall
<1> HIDE DEF s
<1>4. t \in Seq(Calls) /\ t # <<>> /\ Head(t) = <<"clear">> /\ Tail(t) = s
  BY <1>1, <1>2, ConsCall
<1> HIDE DEF t
<1>5. /\ Disable \o t # <<>> /\ Head(Disable \o t) = <<"irq", FALSE>>
      /\ Tail(Disable \o t) = t
  <2> DEFINE c == <<"irq", FALSE>>
  <2>1. c \in Calls /\ Disable = <<c>>
    BY <1>1 DEF Disable
  <2> SUFFICES <<c>> \o t # <<>> /\ Head(<<c>> \o t) = c /\ Tail(<<c>> \o t) = t
    BY <2>1
  <2> HIDE DEF c
  <2> QED BY <1>4, <2>1, ConsCall
<1> QED BY <1>3, <1>4, <1>5 DEF s, t

LEMMA Idle ==
  ASSUME ScInv, todo = <<>>
  PROVE  /\ stage # "count" => pen = Black
         /\ stage = "close" => nvic = TRUE
         /\ stage \in {"psw", "count"} => nvic = FALSE /\ Alone
<1>1. stage # "count" => pen = Black
  BY AfterNothing DEF ScInv, Blackened
<1>2. stage = "close" => nvic = TRUE
  BY AfterNothing DEF ScInv, Switching
<1>3. ASSUME stage \in {"psw", "count"} PROVE nvic = FALSE /\ Alone
  <2>1. PICK rest \in Seq(Owned(stage)) :
          \/ todo = Disable \o (Clear \o rest)
          \/ nvic = FALSE /\ todo = Clear \o rest
          \/ nvic = FALSE /\ lost = FALSE /\ todo = <<<<"cleared">>>> \o rest
          \/ nvic = FALSE /\ Alone /\ todo = rest
    BY <1>3 DEF ScInv, Undisturbed
  <2>2. rest \in Seq(Calls)
    BY <1>3, OwnedCalls DEF Users
  <2> QED BY <2>1, <2>2, FirstSteps
<1> QED BY <1>1, <1>2, <1>3

(***************************************************************************)
(* A next script keeps the invariant if it is as the stage asks.           *)
(***************************************************************************)
LEMMA FromKeeps ==
  ASSUME ScInv, NEW dialog, NEW next, NEW calls, From(dialog, next, calls),
         \/ dialog \in {"psw", "count", "tags"} /\ next \in {dialog, "close"}
         \/ dialog = "psw" /\ next = "tags"
         \/ dialog = "setup" /\ next \in {"setup", "close"} /\ calls \in Seq(Quiet),
         calls \in Seq(Calls), TitledRed(calls, Black, TRUE),
         next \in {"psw", "count"} => calls \in Seq(Owned(next)),
         next = "close" => After(calls, "irq", nvic, TRUE),
         next # "count" => After(calls, "pen", pen, Black)
  PROVE  ScInv'
<1>1. /\ stage = dialog /\ todo = <<>> /\ stage' = next /\ todo' = calls
      /\ UNCHANGED <<holder, pen, nvic, second, screen, lost>>
  BY DEF From
<1>2. ScTypeOK' /\ HolderStage'
  <2>1. stage' \in {"setup", "psw", "count", "tags", "close"}
    BY <1>1
  <2>2. holder' = holder /\ pen' = pen /\ lost' = lost /\ second' = second
        /\ screen' = screen /\ nvic' = nvic
    BY <1>1
  <2>3. ScTypeOK'
    BY <2>1, <2>2 DEF ScInv, ScTypeOK
  <2>4. HolderStage'
    BY <1>1, <2>2 DEF ScInv, HolderStage
  <2> QED BY <2>3, <2>4
<1>3. Switching'
  <2>1. ASSUME holder # "touch" PROVE nvic = TRUE /\ calls \in Seq(Quiet)
    <3>1. dialog = "setup"
      BY <1>1, <2>1 DEF ScInv, HolderStage
    <3> QED BY <2>1, <3>1 DEF ScInv, Switching
  <2> QED BY <1>1, <2>1 DEF Switching
<1>4. Blackened' /\ TitledRed(todo', pen', nvic')
  BY <1>1, TitledAnyhow DEF Blackened
<1>5. TitleRed'
  BY <1>1 DEF ScInv, TitleRed
<1>6. Undisturbed'
  <2> SUFFICES ASSUME next \in {"psw", "count"}
               PROVE  calls \in Seq(Owned(next)) /\ nvic = FALSE /\ Alone'
    BY <1>1 DEF Undisturbed
  <2>1. dialog = next
    OBVIOUS
  <2>2. nvic = FALSE /\ Alone
    BY <1>1, <2>1, Idle
  <2> QED BY <1>1, <2>1, <2>2 DEF Alone
<1> QED BY <1>1, <1>2, <1>3, <1>4, <1>5, <1>6 DEF ScInv
-----------------------------------------------------------------------------
(***************************************************************************)
(* The actions, one by one.                                                *)
(***************************************************************************)
LEMMA PasswordKeeps == ASSUME ScInv, Password PROVE ScInv'
<1>0. ASSUME stage = "psw", todo = <<>> PROVE pen = Black
  BY <1>0, Idle
<1>1. CASE From("psw", "psw", Show("text", "psw"))
  <2> DEFINE calls == Show("text", "psw")
  <2>1. calls \in Seq(Shows) /\ calls \in Seq({"show"} \X Areas \X {"psw"}) /\ calls \in Seq(Calm)
    BY ShowPiece DEF Areas, Users
  <2>2. {"show"} \X Areas \X {"psw"} \subseteq Owned("psw")
    BY DEF Owned
  <2>3. pen = Black
    BY <1>0, <1>1 DEF From
  <2> HIDE DEF calls
  <2>4. calls \in Seq(Owned("psw"))
    BY <2>1, <2>2, SeqMonotonic
  <2>5. After(calls, "pen", pen, Black)
    BY <2>1, <2>3, ShownLeaves
  <2>6. calls \in Seq(Calls) /\ TitledRed(calls, Black, TRUE)
    BY <2>1, CalmCalls, PlainTitled
  <2>7. From("psw", "psw", calls)
    BY <1>1 DEF calls
  <2> QED BY <2>4, <2>5, <2>6, <2>7, FromKeeps
<1>2. CASE From("psw", "close", Close)
  <2>1. /\ Close \in Seq(Plain) /\ Close \in Seq(Calls)
        /\ After(Close, "irq", nvic, TRUE) /\ After(Close, "pen", pen, Black)
    BY CloseScript
  <2>2. TitledRed(Close, Black, TRUE)
    BY <2>1, PlainTitled
  <2> QED BY <1>2, <2>1, <2>2, FromKeeps
<1>3. CASE From("psw", "close", Verdict("psw") \o Close)
  <2> DEFINE s == Show("line", "psw") \o Show("text", "psw")
             v == Verdict("psw")
  <2>1. /\ Show("line", "psw") \in Seq(Shows) /\ Show("line", "psw") \in Seq(Calm)
        /\ Show("text", "psw") \in Seq(Shows) /\ Show("text", "psw") \in Seq(Calm)
    BY ShowPiece DEF Areas, Users
  <2>2. s \in Seq(Shows) /\ s \in Seq(Calm)
    BY <2>1, Joined
  <2>3. v = InRed(s)
    BY DEF Verdict
  <2> HIDE DEF s, v
  <2>4. v \in Seq(Calm) /\ After(v, "pen", pen, Black)
    BY <2>2, <2>3, InRedPiece
  <2>5. v \in Seq(Plain) /\ v \in Seq(Quiet)
    BY <2>4, CalmCalls
  <2>6. After(v, "irq", nvic, nvic)
    BY <2>5, QuietLeaves
  <2> DEFINE calls == v \o Close
  <2>7. /\ calls \in Seq(Plain)
        /\ After(calls, "irq", nvic, TRUE) /\ After(calls, "pen", pen, Black)
    BY <2>4, <2>5, <2>6, ThenClose
  <2>8. calls \in Seq(Calls) /\ TitledRed(calls, Black, TRUE)
    BY <2>7, PlainTitled
  <2>9. From("psw", "close", calls)
    BY <1>3 DEF v
  <2> HIDE DEF calls
  <2> QED BY <2>7, <2>8, <2>9, FromKeeps
<1>4. CASE From("psw", "tags", Clear \o register_delete_GUI \o Show("text", "tags"))
  <2> DEFINE calls == Clear \o register_delete_GUI \o Show("text", "tags")
  <2>1. /\ calls \in Seq(Calls) /\ After(calls, "pen", Black, Black)
        /\ TitledRed(calls, Black, TRUE)
    BY TagsScript
  <2>2. pen = Black
    BY <1>0, <1>4 DEF From
  <2>3. From("psw", "tags", calls)
    BY <1>4
  <2> HIDE DEF calls
  <2> QED BY <2>1, <2>2, <2>3, FromKeeps
<1> QED BY <1>1, <1>2, <1>3, <1>4 DEF Password

LEMMA CountdownKeeps == ASSUME ScInv, Countdown PROVE ScInv'
<1>1. CASE From("count", "count", Show("text", "count"))
  <2> DEFINE calls == Show("text", "count")
  <2>1. calls \in Seq({"show"} \X Areas \X {"count"}) /\ calls \in Seq(Calm)
    BY ShowPiece DEF Areas, Users
  <2>2. {"show"} \X Areas \X {"count"} \subseteq Owned("count")
    BY DEF Owned
  <2> HIDE DEF calls
  <2>3. calls \in Seq(Owned("count"))
    BY <2>1, <2>2, SeqMonotonic
  <2>4. calls \in Seq(Calls) /\ TitledRed(calls, Black, TRUE)
    BY <2>1, CalmCalls, PlainTitled
  <2>5. From("count", "count", calls)
    BY <1>1 DEF calls
  <2> QED BY <2>3, <2>4, <2>5, FromKeeps
<1>2. CASE From("count", "close", Pen(Black) \o Clear \o Close)
  <2> DEFINE s == Pen(Black) \o Clear
             calls == s \o Close
  <2>1. /\ Pen(Black) \in Seq(Calm) /\ Clear \in Seq(Calm)
        /\ After(Pen(Black), "pen", pen, Black) /\ After(Clear, "pen", Black, Black)
    BY PenPiece, ClearPiece
  <2>2. s \in Seq(Calm) /\ Pen(Black) \in Seq(Calls) /\ Clear \in Seq(Calls)
    BY <2>1, Joined, CalmCalls
  <2>3. After(s, "pen", pen, Black)
    BY <2>1, <2>2, AfterConcat
  <2>4. s \in Seq(Plain) /\ s \in Seq(Quiet)
    BY <2>2, CalmCalls
  <2>5. After(s, "irq", nvic, nvic)
    BY <2>4, QuietLeaves
  <2>6. From("count", "close", calls)
    BY <1>2
  <2> HIDE DEF s
  <2>7. /\ calls \in Seq(Plain)
        /\ After(calls, "irq", nvic, TRUE) /\ After(calls, "pen", pen, Black)
    BY <2>3, <2>4, <2>5, ThenClose
  <2>8. calls \in Seq(Calls) /\ TitledRed(calls, Black, TRUE)
    BY <2>7, PlainTitled
  <2> HIDE DEF calls
  <2> QED BY <2>6, <2>7, <2>8, FromKeeps
<1> QED BY <1>1, <1>2 DEF Countdown

LEMMA TagsKeeps == ASSUME ScInv, Tags PROVE ScInv'
<1>0. /\ Show("text", "tags") \in Seq(Shows) /\ Show("text", "tags") \in Seq(Calm)
      /\ Show("text", "tags") \in Seq(Plain)
  BY ShowPiece, CalmCalls DEF Areas, Users
<1>1. CASE From("tags", "tags", Show("text", "tags"))
  <2>1. pen = Black
    BY <1>1, Idle DEF From
  <2>2. After(Show("text", "tags"), "pen", pen, Black)
    BY <1>0, <2>1, ShownLeaves
  <2>3. Show("text", "tags") \in Seq(Calls) /\ TitledRed(Show("text", "tags"), Black, TRUE)
    BY <1>0, PlainTitled
  <2> QED BY <1>1, <2>2, <2>3, FromKeeps
<1>2. CASE From("tags", "tags", Message)
  <2>1. Message \in Seq(Calm) /\ After(Message, "pen", pen, Black)
    BY <1>0, InRedPiece DEF Message
  <2>2. Message \in Seq(Plain)
    BY <2>1, CalmCalls
  <2>3. Message \in Seq(Calls) /\ TitledRed(Message, Black, TRUE)
    BY <2>2, PlainTitled
  <2> QED BY <1>2, <2>1, <2>3, FromKeeps
<1>3. CASE From("tags", "close", security_door_window \o Close)
  <2> DEFINE calls == security_door_window \o Close
  <2>1. /\ security_door_window \in Seq(Plain) /\ security_door_window \in Seq(Quiet)
        /\ After(security_door_window, "pen", pen, Black)
    BY WindowScript, CalmCalls
  <2>2. After(security_door_window, "irq", nvic, nvic)
    BY <2>1, QuietLeaves
  <2>3. /\ calls \in Seq(Plain)
        /\ After(calls, "irq", nvic, TRUE) /\ After(calls, "pen", pen, Black)
    BY <2>1, <2>2, ThenClose
  <2>4. calls \in Seq(Calls) /\ TitledRed(calls, Black, TRUE)
    BY <2>3, PlainTitled
  <2>5. From("tags", "close", calls)
    BY <1>3
  <2> HIDE DEF calls
  <2> QED BY <2>3, <2>4, <2>5, FromKeeps
<1> QED BY <1>1, <1>2, <1>3 DEF Tags

LEMMA SetupKeeps == ASSUME ScInv, Setup PROVE ScInv'
<1>0. /\ Show("text", "setup") \in Seq(Shows) /\ Show("text", "setup") \in Seq(Calm)
      /\ Show("line", "setup") \in Seq(Shows) /\ Show("line", "setup") \in Seq(Calm)
  BY ShowPiece DEF Areas, Users
<1>1. CASE From("setup", "setup", Show("text", "setup"))
  <2>1. pen = Black
    BY <1>1, Idle DEF From
  <2>2. /\ After(Show("text", "setup"), "pen", pen, Black)
        /\ Show("text", "setup") \in Seq(Quiet)
    BY <1>0, <2>1, ShownLeaves
  <2>3. Show("text", "setup") \in Seq(Calls) /\ TitledRed(Show("text", "setup"), Black, TRUE)
    BY <1>0, CalmCalls, PlainTitled
  <2> QED BY <1>1, <2>2, <2>3, FromKeeps
<1>2. CASE From("setup", "close", InRed(Show("line", "setup")) \o Clear)
  <2> DEFINE r == InRed(Show("line", "setup"))
             calls == r \o Clear
  <2>1. r \in Seq(Calm) /\ After(r, "pen", pen, Black)
    BY <1>0, InRedPiece
  <2>2. Clear \in Seq(Calm) /\ After(Clear, "pen", Black, Black)
    BY ClearPiece
  <2>3. From("setup", "close", calls)
    BY <1>2
  <2> HIDE DEF r
  <2>4. calls \in Seq(Calm)
    BY <2>1, <2>2, Joined
  <2>5. r \in Seq(Calls) /\ Clear \in Seq(Calls)
    BY <2>1, <2>2, CalmCalls
  <2>6. After(calls, "pen", pen, Black)
    BY <2>1, <2>2, <2>5, AfterConcat
  <2>7. calls \in Seq(Quiet) /\ calls \in Seq(Plain)
    BY <2>4, CalmCalls
  <2>8. calls \in Seq(Calls) /\ TitledRed(calls, Black, TRUE)
    BY <2>7, PlainTitled
  <2>9. nvic = TRUE
    BY <1>2 DEF From, ScInv, HolderStage, Switching
  <2>10. After(calls, "irq", nvic, TRUE)
    BY <2>7, <2>9, QuietLeaves
  <2> HIDE DEF calls
  <2> QED BY <2>3, <2>6, <2>7, <2>8, <2>10, FromKeeps
<1> QED BY <1>1, <1>2 DEF Setup

LEMMA TakeKeeps ==
  ASSUME ScInv, NEW who, NEW dialog, NEW calls, Take(who, dialog, calls),
         \/ who = "touch" /\ dialog \in {"psw", "count"}
         \/ who = "match" /\ dialog = "close" /\ calls \in Seq(Quiet),
         calls \in Seq(Calls), TitledRed(calls, Black, TRUE),
         dialog \in {"psw", "count"} =>
           \E rest \in Seq(Owned(dialog)) : calls = Disable \o (Clear \o rest),
         dialog # "count" => After(calls, "pen", pen, Black)
  PROVE  ScInv'
<1>1. /\ holder = "no one" /\ holder' = who /\ stage' = dialog /\ todo' = calls
      /\ pen' = pen /\ nvic' = nvic /\ second' = second /\ screen' = screen /\ lost' = lost
  BY DEF Take
<1>2. nvic = TRUE
  BY <1>1 DEF ScInv, Switching
<1>3. ScTypeOK' /\ HolderStage'
  <2>1. ScTypeOK'
    BY <1>1, <1>2 DEF ScInv, ScTypeOK
  <2>2. HolderStage'
    BY <1>1 DEF HolderStage
  <2> QED BY <2>1, <2>2
<1>4. Switching'
  <2>1. ASSUME who # "touch" PROVE nvic = TRUE /\ calls \in Seq(Quiet)
    BY <1>2, <2>1
  <2>2. ASSUME dialog = "close" PROVE After(calls, "irq", nvic, TRUE)
    <3>1. calls \in Seq(Quiet)
      BY <2>2
    <3>2. After(calls, "irq", TRUE, TRUE)
      BY <3>1, QuietLeaves
    <3> QED BY <1>2, <3>2
  <2> QED BY <1>1, <2>1, <2>2 DEF Switching
<1>5. Blackened' /\ TitledRed(todo', pen', nvic')
  BY <1>1, TitledAnyhow DEF Blackened
<1>6. TitleRed'
  BY <1>1 DEF ScInv, TitleRed
<1>7. Undisturbed'
  BY <1>1 DEF Undisturbed
<1> QED BY <1>1, <1>3, <1>4, <1>5, <1>6, <1>7 DEF ScInv

LEMMA BeginKeeps == ASSUME ScInv, Begin PROVE ScInv'
<1>1. CASE Take("touch", "psw", Disable \o Psd_setting_GUI("psw"))
  <2> DEFINE calls == Disable \o Psd_setting_GUI("psw")
  <2>1. /\ calls \in Seq(Calls) /\ After(calls, "pen", pen, Black)
        /\ TitledRed(calls, Black, TRUE)
    BY PasswordScript
  <2>2. \E rest \in Seq(Owned("psw")) : calls = Disable \o (Clear \o rest)
    <3>1. PICK rest \in Seq(Owned("psw")) : Psd_setting_GUI("psw") = Clear \o rest
      BY PsdScript
    <3> QED BY <3>1
  <2>3. Take("touch", "psw", calls)
    BY <1>1
  <2> HIDE DEF calls
  <2> QED BY <2>1, <2>2, <2>3, TakeKeeps
<1>2. CASE Take("touch", "count", Disable \o Clear \o Pen(Red))
  <2> DEFINE calls == Disable \o Clear \o Pen(Red)
  <2>1. /\ calls \in Seq(Plain) /\ Pen(Red) \in Seq(Owned("count"))
        /\ calls = Disable \o (Clear \o Pen(Red))
    BY CountScript
  <2>2. calls \in Seq(Calls) /\ TitledRed(calls, Black, TRUE)
    BY <2>1, PlainTitled
  <2>3. Take("touch", "count", calls)
    BY <1>2
  <2> HIDE DEF calls
  <2> QED BY <2>1, <2>2, <2>3, TakeKeeps
<1> QED BY <1>1, <1>2 DEF Begin

LEMMA MatchKeeps == ASSUME ScInv, Match PROVE ScInv'
<1> DEFINE a == Show("text", "welcome")
           r == InRed(a)
           t == Show("text", "main")
<1>1. a \in Seq(Shows) /\ a \in Seq(Calm) /\ t \in Seq(Shows) /\ t \in Seq(Calm)
  BY ShowPiece DEF Areas, Users
<1>2. Welcome = r \o t
  BY DEF Welcome
<1>3. Take("match", "close", Welcome)
  BY DEF Match
<1> HIDE DEF a, t
<1>4. r \in Seq(Calm) /\ r \in Seq(Calls) /\ After(r, "pen", pen, Black)
  BY <1>1, InRedPiece
<1> HIDE DEF r
<1>5. Welcome \in Seq(Calm) /\ After(Welcome, "pen", pen, Black)
  BY <1>1, <1>2, <1>4, Joined, ThenShow
<1>6. Welcome \in Seq(Quiet) /\ Welcome \in Seq(Plain)
  BY <1>5, CalmCalls
<1>7. Welcome \in Seq(Calls) /\ TitledRed(Welcome, Black, TRUE)
  BY <1>6, PlainTitled
<1> QED BY <1>3, <1>5, <1>6, <1>7, TakeKeeps

LEMMA ReleaseKeeps == ASSUME ScInv, Release PROVE ScInv'
<1>1. /\ stage = "close" /\ todo = <<>> /\ holder' = "no one" /\ stage' = "none"
      /\ todo' = todo /\ pen' = pen /\ nvic' = nvic /\ second' = second
      /\ screen' = screen /\ lost' = lost
  BY DEF Release
<1>2. nvic = TRUE
  BY <1>1, Idle
<1>3. ScTypeOK' /\ HolderStage'
  BY <1>1, <1>2 DEF ScInv, ScTypeOK, HolderStage
<1>4. Switching'
  <2>1. <<>> \in Seq(Quiet)
    OBVIOUS
  <2> QED BY <1>1, <1>2, <2>1 DEF Switching
<1>5. Blackened' /\ TitledRed(todo', pen', nvic') /\ TitleRed'
  BY <1>1 DEF ScInv, Blackened, TitleRed
<1>6. Undisturbed'
  BY <1>1 DEF Undisturbed
<1> QED BY <1>1, <1>3, <1>4, <1>5, <1>6 DEF ScInv

LEMMA SecondKeeps == ASSUME ScInv, Second PROVE ScInv'
<1>1. second' = TRUE /\ holder' = holder /\ stage' = stage /\ todo' = todo /\ pen' = pen
      /\ nvic' = nvic /\ screen' = screen /\ lost' = lost
  BY DEF Second
<1>2. ScTypeOK'
  BY <1>1 DEF ScInv, ScTypeOK
<1>3. HolderStage' /\ Switching' /\ Blackened' /\ TitleRed' /\ TitledRed(todo', pen', nvic')
  BY <1>1 DEF ScInv, HolderStage, Switching, Blackened, TitleRed
<1>4. Undisturbed'
  BY <1>1 DEF ScInv, Undisturbed, Alone
<1> QED BY <1>1, <1>2, <1>3, <1>4 DEF ScInv

\* The handler draws and takes the pen: no title waits for a red one then.
LEMMA ClockKeeps == ASSUME ScInv, clock_demo PROVE ScInv'
<1>1. /\ nvic = TRUE /\ second' = FALSE /\ pen' = Black /\ lost' = TRUE
      /\ screen' = [screen EXCEPT !["line"] = @ \cup {<<"clock", Black>>}]
      /\ holder' = holder /\ stage' = stage /\ todo' = todo /\ nvic' = nvic
  BY DEF clock_demo, ScInv, ScTypeOK
<1>2. screen \in [Areas -> SUBSET Layers] /\ "line" \in Areas /\ <<"clock", Black>> \in Layers
  BY DEF ScInv, ScTypeOK, Areas, Layers
<1>3. ScTypeOK'
  <2>1. screen' \in [Areas -> SUBSET Layers]
    BY <1>1, <1>2
  <2> QED BY <1>1, <2>1 DEF ScInv, ScTypeOK
<1>4. HolderStage' /\ Switching'
  BY <1>1 DEF ScInv, HolderStage, Switching
<1>5. Blackened'
  <2> SUFFICES ASSUME stage # "count" PROVE After(todo, "pen", Black, Black)
    BY <1>1 DEF Blackened
  <2>1. After(todo, "pen", pen, Black)
    BY DEF ScInv, Blackened
  <2>2. Len(todo) + 1 \in Int
    BY LenProperties DEF ScInv
  <2>3. CASE pen = Black
    BY <2>1, <2>3
  <2>4. CASE pen # Black
    BY <2>1, <2>2, <2>4, BeforeOther DEF After
  <2> QED BY <2>3, <2>4
<1>6. TitleRed'
  <2>1. screen'["title"] = screen["title"]
    BY <1>1, <1>2 DEF Areas
  <2> QED BY <2>1 DEF ScInv, TitleRed
<1>7. TitledRed(todo, Black, TRUE)
  <2>1. TitledRed(todo, pen, TRUE)
    BY <1>1 DEF ScInv
  <2> SUFFICES ASSUME NEW i \in 1 .. Len(todo), todo[i] \in Titles
               PROVE  RedAt(todo, i, Black, TRUE)
    BY DEF TitledRed
  <2>2. PICK j \in 0 .. (i - 1) :
          /\ IF j = 0 THEN pen = Red ELSE todo[j] = <<"pen", Red>>
          /\ \A k \in (j + 1) .. (i - 1) : todo[k][1] \notin {"pen", "irq"}
          /\ Before(todo, j + 1, "irq", TRUE, FALSE)
    BY <2>1 DEF TitledRed, RedAt
  <2>3. j # 0
    <3> SUFFICES ASSUME j = 0 PROVE FALSE
      OBVIOUS
    <3>1. j + 1 - 1 = 0
      OBVIOUS
    <3>2. PICK m \in 0 .. (j + 1 - 1) :
            IF m = 0 THEN TRUE = FALSE ELSE todo[m] = <<"irq", FALSE>>
      BY <2>2 DEF Before
    <3> QED BY <3>1, <3>2
  <2> QED BY <2>2, <2>3 DEF RedAt
<1>8. Undisturbed'
  <2> SUFFICES ASSUME stage \in {"psw", "count"}
               PROVE  \E rest \in Seq(Owned(stage)) : todo = Disable \o (Clear \o rest)
    BY <1>1 DEF Undisturbed
  <2> QED BY <1>1 DEF ScInv, Undisturbed
<1> QED BY <1>1, <1>3, <1>4, <1>5, <1>6, <1>7, <1>8 DEF ScInv

(***************************************************************************)
(* What a call does, by its kind.                                          *)
(***************************************************************************)
LEMMA DrawEffect ==
  ASSUME ScInv, Draw
  PROVE  LET c == Head(todo) IN
         /\ todo # <<>> /\ todo' = Tail(todo) /\ c \in Calls
         /\ UNCHANGED <<holder, stage, second>>
         /\ IF c[1] = "pen" THEN pen' = c[2] ELSE pen' = pen
         /\ IF c[1] = "irq" THEN nvic' = c[2] ELSE nvic' = nvic
         /\ IF c[1] = "clear" THEN lost' = FALSE ELSE lost' = lost
         /\ c[1] \in {"pen", "irq"} => screen' = screen
         /\ c[1] = "show" =>
              screen' = [screen EXCEPT ![c[2]] = @ \cup {<<c[3], pen>>}]
         /\ c[1] = "clear" =>
              \E done \in Upper : screen' = [a \in Areas |-> IF a \in done THEN {} ELSE screen[a]]
         /\ c[1] = "cleared" => screen' = IF lost THEN screen ELSE Blank
<1> DEFINE c == Head(todo)
<1>1. todo \in Seq(Calls) /\ todo # <<>> /\ todo' = Tail(todo)
  BY DEF ScInv, Draw
<1>2. c \in Calls
  BY <1>1, FirstCall
<1>3. UNCHANGED <<holder, stage, second>>
  BY DEF Draw
<1>4. \/ c[1] = "pen" /\ pen' = c[2] /\ UNCHANGED <<nvic, screen, lost>>
      \/ c[1] = "irq" /\ nvic' = c[2] /\ UNCHANGED <<pen, screen, lost>>
      \/ /\ c[1] = "show" /\ UNCHANGED <<pen, nvic, lost>>
         /\ screen' = [screen EXCEPT ![c[2]] = @ \cup {<<c[3], pen>>}]
      \/ /\ c[1] = "clear" /\ lost' = FALSE /\ UNCHANGED <<pen, nvic>>
         /\ \E done \in Upper : screen' = [a \in Areas |-> IF a \in done THEN {} ELSE screen[a]]
      \/ /\ c[1] = "cleared" /\ UNCHANGED <<pen, nvic, lost>>
         /\ screen' = IF lost THEN screen ELSE Blank
  BY DEF Draw
<1> HIDE DEF c
<1>5. CASE c[1] = "pen" /\ pen' = c[2] /\ UNCHANGED <<nvic, screen, lost>>
  BY <1>1, <1>2, <1>3, <1>5 DEF c
<1>6. CASE c[1] = "irq" /\ nvic' = c[2] /\ UNCHANGED <<pen, screen, lost>>
  BY <1>1, <1>2, <1>3, <1>6 DEF c
<1>7. CASE /\ c[1] = "show" /\ UNCHANGED <<pen, nvic, lost>>
           /\ screen' = [screen EXCEPT ![c[2]] = @ \cup {<<c[3], pen>>}]
  BY <1>1, <1>2, <1>3, <1>7 DEF c
<1>8. CASE /\ c[1] = "clear" /\ lost' = FALSE /\ UNCHANGED <<pen, nvic>>
           /\ \E done \in Upper :
                screen' = [a \in Areas |-> IF a \in done THEN {} ELSE screen[a]]
  BY <1>1, <1>2, <1>3, <1>8 DEF c
<1>9. CASE /\ c[1] = "cleared" /\ UNCHANGED <<pen, nvic, lost>>
           /\ screen' = IF lost THEN screen ELSE Blank
  BY <1>1, <1>2, <1>3, <1>9 DEF c
<1> QED BY <1>4, <1>5, <1>6, <1>7, <1>8, <1>9

\* The display holds layers, and a title is drawn in red.
LEMMA DrawOnScreen ==
  ASSUME ScInv, Draw
  PROVE  screen' \in [Areas -> SUBSET Layers] /\ TitleRed'
<1> DEFINE c == Head(todo)
<1>1. /\ todo \in Seq(Calls) /\ todo # <<>> /\ c \in Calls
      /\ c[1] \in {"pen", "irq"} => screen' = screen
      /\ c[1] = "show" =>
           screen' = [screen EXCEPT ![c[2]] = @ \cup {<<c[3], pen>>}]
      /\ c[1] = "clear" =>
           \E done \in Upper : screen' = [a \in Areas |-> IF a \in done THEN {} ELSE screen[a]]
      /\ c[1] = "cleared" => screen' = IF lost THEN screen ELSE Blank
  BY DrawEffect DEF ScInv
<1>2. screen \in [Areas -> SUBSET Layers] /\ pen \in {Black, Red} /\ TitleRed
  BY DEF ScInv, ScTypeOK
<1>3. "title" \in Areas
  BY DEF Areas
<1>4. CASE c[1] \in {"pen", "irq"}
  BY <1>1, <1>2, <1>4 DEF TitleRed
<1>5. CASE c[1] = "show"
  <2>1. c[2] \in Areas /\ c[3] \in Users /\ c = <<"show", c[2], c[3]>>
    BY <1>1, <1>5, CallShape
  <2>2. <<c[3], pen>> \in Layers
    BY <1>2, <2>1 DEF Users, Layers
  <2>3. screen' = [screen EXCEPT ![c[2]] = @ \cup {<<c[3], pen>>}]
    BY <1>1, <1>5
  <2>4. screen' \in [Areas -> SUBSET Layers]
    BY <1>2, <2>1, <2>2, <2>3
  <2>5. ASSUME c[2] = "title", c[3] \in {"psw", "tags"} PROVE pen = Red
    <3>1. todo[1] \in Titles /\ 1 \in 1 .. Len(todo)
      <4>1. c \in Titles
        BY <2>1, <2>5 DEF Titles
      <4>2. todo[1] = c /\ Len(todo) \in Nat /\ Len(todo) > 0
        BY <1>1, FirstCall
      <4> QED BY <4>1, <4>2
    <3>2. RedAt(todo, 1, pen, nvic)
      BY <3>1 DEF ScInv, TitledRed
    <3>3. PICK j \in 0 .. (1 - 1) : IF j = 0 THEN pen = Red ELSE todo[j] = <<"pen", Red>>
      BY <3>2 DEF RedAt
    <3> QED BY <3>3
  <2>6. screen'["title"] = IF c[2] = "title" THEN screen["title"] \cup {<<c[3], pen>>}
                                             ELSE screen["title"]
    BY <1>2, <1>3, <2>3
  <2>7. ASSUME NEW layer \in screen'["title"], layer[1] \in {"psw", "tags"}
        PROVE  layer[2] = Red
    <3>1. CASE layer \in screen["title"]
      BY <1>2, <2>7, <3>1 DEF TitleRed
    <3>2. CASE c[2] = "title" /\ layer = <<c[3], pen>>
      BY <2>5, <2>7, <3>2
    <3> QED BY <2>6, <2>7, <3>1, <3>2
  <2> QED BY <2>4, <2>7 DEF TitleRed
<1>6. CASE c[1] = "clear"
  <2>1. PICK done \in Upper : screen' = [a \in Areas |-> IF a \in done THEN {} ELSE screen[a]]
    BY <1>1, <1>6
  <2>2. screen' \in [Areas -> SUBSET Layers]
    BY <1>2, <2>1
  <2>3. screen'["title"] \subseteq screen["title"]
    BY <1>2, <1>3, <2>1
  <2> QED BY <1>2, <2>2, <2>3 DEF TitleRed
<1>7. CASE c[1] = "cleared"
  <2>1. screen' = screen \/ screen' = Blank
    BY <1>1, <1>7
  <2>2. Blank \in [Areas -> SUBSET Layers] /\ Blank["title"] = {}
    BY <1>3 DEF Blank
  <2> QED BY <1>2, <2>1, <2>2 DEF TitleRed
<1> HIDE DEF c
<1>8. c[1] \in {"clear", "cleared", "pen", "irq", "show"}
  BY <1>1, CallShape
<1> QED BY <1>4, <1>5, <1>6, <1>7, <1>8

\* A dialog that is alone on the display stays alone, and comes to be so.
LEMMA DrawUndisturbed ==
  ASSUME ScInv, Draw
  PROVE  Undisturbed'
<1> DEFINE c == Head(todo)
<1>1. /\ todo \in Seq(Calls) /\ todo # <<>> /\ c \in Calls
      /\ todo' = Tail(todo) /\ stage' = stage
      /\ IF c[1] = "irq" THEN nvic' = c[2] ELSE nvic' = nvic
      /\ IF c[1] = "clear" THEN lost' = FALSE ELSE lost' = lost
      /\ c[1] = "pen" => screen' = screen
      /\ c[1] = "show" =>
           screen' = [screen EXCEPT ![c[2]] = @ \cup {<<c[3], pen>>}]
      /\ c[1] = "cleared" => screen' = IF lost THEN screen ELSE Blank
  BY DrawEffect DEF ScInv
<1> SUFFICES ASSUME stage \in {"psw", "count"}
             PROVE  \E rest \in Seq(Owned(stage)) :
                      \/ todo' = Disable \o (Clear \o rest)
                      \/ nvic' = FALSE /\ todo' = Clear \o rest
                      \/ nvic' = FALSE /\ lost' = FALSE /\ todo' = <<<<"cleared">>>> \o rest
                      \/ nvic' = FALSE /\ Alone' /\ todo' = rest
  BY <1>1 DEF Undisturbed
<1>2. PICK rest \in Seq(Owned(stage)) :
        \/ todo = Disable \o (Clear \o rest)
        \/ nvic = FALSE /\ todo = Clear \o rest
        \/ nvic = FALSE /\ lost = FALSE /\ todo = <<<<"cleared">>>> \o rest
        \/ nvic = FALSE /\ Alone /\ todo = rest
  BY DEF ScInv, Undisturbed
<1>3. rest \in Seq(Calls)
  BY OwnedCalls DEF Users
<1>4. CASE todo = Disable \o (Clear \o rest)
  <2>1. c = <<"irq", FALSE>> /\ Tail(todo) = Clear \o rest
    BY <1>3, <1>4, FirstSteps
  <2>2. c[1] = "irq" /\ c[2] = FALSE
    <3>1. <<"irq", FALSE>>[1] = "irq" /\ <<"irq", FALSE>>[2] = FALSE
      OBVIOUS
    <3> QED BY <2>1, <3>1, Zenon
  <2> QED BY <1>1, <2>1, <2>2
<1>5. CASE nvic = FALSE /\ todo = Clear \o rest
  <2>1. c = <<"clear">> /\ Tail(todo) = <<<<"cleared">>>> \o rest
    BY <1>3, <1>5, FirstSteps
  <2>2. c[1] = "clear"
    BY <2>1
  <2> QED BY <1>1, <1>5, <2>1, <2>2
<1>6. CASE nvic = FALSE /\ lost = FALSE /\ todo = <<<<"cleared">>>> \o rest
  <2>1. c = <<"cleared">> /\ Tail(todo) = rest
    BY <1>3, <1>6, FirstSteps
  <2>2. c[1] = "cleared"
    BY <2>1
  <2>3. screen' = Blank /\ nvic' = nvic
    BY <1>1, <1>6, <2>2
  <2>4. Alone'
    BY <2>3 DEF Alone, Blank
  <2> QED BY <1>1, <1>6, <2>1, <2>3, <2>4
<1>7. CASE nvic = FALSE /\ Alone /\ todo = rest
  <2>1. c \in Owned(stage) /\ Tail(todo) \in Seq(Owned(stage))
    BY <1>1, <1>7, FirstCall
  <2>2. CASE c \in Pens
    <3>1. c[1] = "pen"
      BY <2>2 DEF Pens
    <3>2. screen' = screen /\ nvic' = nvic
      BY <1>1, <3>1
    <3>3. Alone'
      BY <1>1, <1>7, <3>2 DEF Alone
    <3> QED BY <1>1, <1>7, <2>1, <3>2, <3>3
  <2>3. CASE c \in {"show"} \X Areas \X {stage}
    <3>1. c[1] = "show" /\ c[2] \in Areas /\ c[3] = stage
      BY <2>3
    <3>2. screen' = [screen EXCEPT ![c[2]] = @ \cup {<<c[3], pen>>}] /\ nvic' = nvic
      BY <1>1, <3>1
    <3>3. screen \in [Areas -> SUBSET Layers]
      BY DEF ScInv, ScTypeOK
    <3>4. \A a \in Areas : screen'[a] \subseteq screen[a] \cup {<<stage, pen>>}
      BY <3>1, <3>2, <3>3
    <3>5. <<stage, pen>>[1] = stage
      OBVIOUS
    <3>6. Alone'
      BY <1>1, <1>7, <3>4, <3>5 DEF Alone
    <3> QED BY <1>1, <1>7, <2>1, <3>2, <3>6
  <2> QED BY <2>1, <2>2, <2>3 DEF Owned
<1> QED BY <1>2, <1>4, <1>5, <1>6, <1>7

LEMMA DrawKeeps == ASSUME ScInv, Draw PROVE ScInv'
<1> DEFINE c == Head(todo)
<1>1. /\ todo \in Seq(Calls) /\ todo # <<>> /\ c \in Calls
      /\ todo' = Tail(todo) /\ UNCHANGED <<holder, stage, second>>
      /\ IF c[1] = "pen" THEN pen' = c[2] ELSE pen' = pen
      /\ IF c[1] = "irq" THEN nvic' = c[2] ELSE nvic' = nvic
      /\ IF c[1] = "clear" THEN lost' = FALSE ELSE lost' = lost
  BY DrawEffect DEF ScInv
<1>2. /\ Tail(todo) \in Seq(Calls) /\ Len(todo) \in 1 .. Len(todo)
      /\ Len(Tail(todo)) + 1 = Len(todo)
  BY <1>1, FirstCall
<1>3. /\ c[1] = "pen" => c[2] \in {Black, Red}
      /\ c[1] = "irq" => c[2] \in BOOLEAN
  BY <1>1, CallShape
<1>4. /\ c[1] # "pen" => pen' = pen
      /\ c[1] = "pen" => pen' = c[2]
      /\ c[1] # "irq" => nvic' = nvic
      /\ c[1] = "irq" => nvic' = c[2]
  BY <1>1
<1>5. holder # "touch" => nvic' = TRUE /\ Tail(todo) \in Seq(Quiet)
  <2> SUFFICES ASSUME holder # "touch" PROVE nvic' = TRUE /\ Tail(todo) \in Seq(Quiet)
    OBVIOUS
  <2>1. nvic = TRUE /\ todo \in Seq(Quiet)
    BY DEF ScInv, Switching
  <2>2. c \in Quiet /\ Tail(todo) \in Seq(Quiet)
    BY <1>1, <2>1, FirstCall
  <2>3. c[1] # "irq"
    BY <2>2 DEF Quiet
  <2> QED BY <1>4, <2>1, <2>2, <2>3
<1>6. ScTypeOK'
  <2>1. nvic' \in BOOLEAN
    BY <1>3, <1>4 DEF ScInv, ScTypeOK
  <2>2. pen' \in {Black, Red}
    BY <1>3, <1>4 DEF ScInv, ScTypeOK
  <2>3. lost' \in BOOLEAN
    BY <1>1 DEF ScInv, ScTypeOK
  <2>4. holder' = holder /\ stage' = stage /\ second' = second
    BY <1>1
  <2>5. nvic' = FALSE => holder' = "touch"
    BY <1>5, <2>4
  <2> QED BY <2>1, <2>2, <2>3, <2>4, <2>5, DrawOnScreen DEF ScInv, ScTypeOK
<1>7. HolderStage'
  BY <1>1 DEF ScInv, HolderStage
<1>8. Switching'
  <2>1. ASSUME stage = "close" PROVE After(Tail(todo), "irq", nvic', TRUE)
    <3>1. Before(todo, Len(todo) + 1, "irq", nvic, TRUE)
      BY <2>1 DEF ScInv, Switching, After
    <3>2. Before(Tail(todo), Len(todo), "irq", nvic', TRUE)
      BY <1>1, <1>2, <1>4, <3>1, BeforeTail
    <3> QED BY <1>2, <3>2 DEF After
  <2> QED BY <1>1, <1>5, <2>1 DEF Switching
<1>9. Blackened'
  <2>1. ASSUME stage # "count" PROVE After(Tail(todo), "pen", pen', Black)
    <3>1. Before(todo, Len(todo) + 1, "pen", pen, Black)
      BY <2>1 DEF ScInv, Blackened, After
    <3>2. Before(Tail(todo), Len(todo), "pen", pen', Black)
      BY <1>1, <1>2, <1>4, <3>1, BeforeTail
    <3> QED BY <1>2, <3>2 DEF After
  <2> QED BY <1>1, <2>1 DEF Blackened
<1>10. TitledRed(todo', pen', nvic')
  <2>1. TitledRed(todo, pen, nvic)
    BY DEF ScInv
  <2>2. TitledRed(Tail(todo), pen', nvic')
    BY <1>1, <1>4, <2>1, RedTail
  <2> QED BY <1>1, <2>2
<1> QED BY <1>1, <1>2, <1>6, <1>7, <1>8, <1>9, <1>10, DrawOnScreen, DrawUndisturbed DEF ScInv
-----------------------------------------------------------------------------
(***************************************************************************)
(* The invariant holds at first and in every step.                         *)
(***************************************************************************)
LEMMA ScInvInit == Init => ScInv
<1> SUFFICES ASSUME Init PROVE ScInv
  OBVIOUS
<1>1. /\ screen = [a \in Areas |-> IF a = "line" THEN {} ELSE {<<"main", Black>>}]
      /\ pen = Black /\ nvic = TRUE /\ second = FALSE /\ lost = FALSE
  BY DEF Init
<1>2. \/ holder = "main" /\ stage = "setup" /\ todo = Psd_setting_GUI("setup")
      \/ holder = "no one" /\ stage = "none" /\ todo = <<>>
  BY DEF Init
<1>3. todo \in Seq(Calm) /\ After(todo, "pen", Black, Black)
  <2>1. CASE todo = Psd_setting_GUI("setup")
    <3>1. /\ Psd_setting_GUI("setup") \in Seq(Calm)
          /\ After(Psd_setting_GUI("setup"), "pen", Black, Black)
      BY PsdScript
    <3> QED BY <2>1, <3>1
  <2>2. CASE todo = <<>>
    <3>1. todo \in Seq(Calm) /\ todo \in Seq(Shows)
      BY <2>2
    <3> QED BY <3>1, ShownLeaves
  <2> QED BY <1>2, <2>1, <2>2
<1>4. todo \in Seq(Quiet) /\ todo \in Seq(Plain)
  BY <1>3, CalmCalls
<1>5. todo \in Seq(Calls) /\ TitledRed(todo, pen, nvic)
  BY <1>4, PlainTitled
<1>6. ScTypeOK /\ TitleRed
  <2>1. <<"main", Black>> \in Layers
    BY DEF Layers
  <2>2. screen \in [Areas -> SUBSET Layers]
    BY <1>1, <2>1
  <2>3. \A layer \in screen["title"] : layer[1] = "main"
    BY <1>1 DEF Areas
  <2> QED BY <1>1, <1>2, <2>2, <2>3 DEF ScTypeOK, TitleRed
<1>7. HolderStage /\ Switching /\ Blackened /\ Undisturbed
  BY <1>1, <1>2, <1>3, <1>4 DEF HolderStage, Switching, Blackened, Undisturbed
<1> QED BY <1>5, <1>6, <1>7 DEF ScInv

LEMMA ScInvNext == ScInv /\ [Next]_vars => ScInv'
<1> SUFFICES ASSUME ScInv, [Next]_vars PROVE ScInv'
  OBVIOUS
<1>1. CASE Draw
  BY <1>1, DrawKeeps
<1>2. CASE Second
  BY <1>2, SecondKeeps
<1>3. CASE clock_demo
  BY <1>3, ClockKeeps
<1>4. CASE Begin
  BY <1>4, BeginKeeps
<1>5. CASE Match
  BY <1>5, MatchKeeps
<1>6. CASE Password
  BY <1>6, PasswordKeeps
<1>7. CASE Countdown
  BY <1>7, CountdownKeeps
<1>8. CASE Tags
  BY <1>8, TagsKeeps
<1>9. CASE Setup
  BY <1>9, SetupKeeps
<1>10. CASE Release
  BY <1>10, ReleaseKeeps
<1>11. CASE UNCHANGED vars
  BY <1>11 DEF vars, ScInv, ScTypeOK, HolderStage, Switching, Blackened, TitleRed,
              Undisturbed, Alone
<1> QED BY <1>1, <1>2, <1>3, <1>4, <1>5, <1>6, <1>7, <1>8, <1>9, <1>10, <1>11 DEF Next

\* Always.
LEMMA ScAlways == Spec => []ScInv
BY ScInvInit, ScInvNext, PTL DEF Spec

(***************************************************************************)
(* The types of the display: the interrupt of the clock is disabled within *)
(* an operation of the touch thread only (touch_thread, main.c:291-340).   *)
(***************************************************************************)
THEOREM ScreenTypes == Spec => []ScTypeOK
<1>1. ScInv => ScTypeOK
  BY DEF ScInv
<1> QED BY ScAlways, <1>1, PTL

(***************************************************************************)
(* The titles of the dialogs for passwords and tags are red from end to    *)
(* end, whenever the clock comes in (register_delete_GUI, lcd.c:2113;      *)
(* Psd_setting_GUI).                                                       *)
(***************************************************************************)
THEOREM TitlesStayRed == Spec => []TitleRed
<1>1. ScInv => TitleRed
  BY DEF ScInv
<1> QED BY ScAlways, <1>1, PTL

(***************************************************************************)
(* A dialog in which the user types a password or reads the time left is   *)
(* alone on the display (main.c:290, Match_psw, down_count).               *)
(***************************************************************************)
THEOREM DialogStaysAlone == Spec => []DialogIntact
<1>1. ScInv => DialogIntact
  <2> SUFFICES ASSUME ScInv, stage \in {"psw", "count"}, todo = <<>> PROVE Alone
    BY DEF DialogIntact, Alone
  <2> QED BY Idle
<1> QED BY ScAlways, <1>1, PTL

(***************************************************************************)
(* Nobody leaves POINT_COLOR red (main.c:249, 324; Register_New_Tag;       *)
(* down_count).                                                            *)
(***************************************************************************)
THEOREM InkIsBlack == Spec => []InkBlack
<1>1. ScInv => InkBlack
  BY Idle DEF InkBlack
<1> QED BY ScAlways, <1>1, PTL
=============================================================================
