------------------------- MODULE ConversationProofs -------------------------
(***************************************************************************)
(* What the conversation keeps.                                            *)
(*                                                                         *)
(* The history, for every window, budget, batch and length: no tool result *)
(* without its call, a user message in every request, the newest message   *)
(* through every compaction, and a token count that is the history's own.  *)
(* The least element of a set of numbers (LeastElement) stands behind the  *)
(* cut of a compaction, and, as induction, behind the sum of the sizes.    *)
(*                                                                         *)
(* The client, for every max_tokens, with or without a deadline and a warm *)
(* prefill.  OneController is not inductive: that a prefill is never       *)
(* running when the chain asks follows from SlotInv, which says when one   *)
(* may run at all, and from TaskInv, which ties the task to its request.   *)
(***************************************************************************)
EXTENDS History, ChatClient, Integers, SequenceTheorems, WellFoundedInduction, TLAPS

(***************************************************************************)
(* The history.                                                            *)
(***************************************************************************)


\* The messages the loop makes: one resume prompt, and calls in answers only.
Msg == {m \in Message : /\ m.role = "tool" \/ IsUser(m) => m.calls = 0
                        /\ m.role = "resuming" => m.size = 1}
Sys == [summaries : 0 .. 1, size : 0 .. SummaryCap, notes : 0 .. MaxNotes]

\* The result at i follows the answer that asked for it, among the results of its batch.
Owned(s, i) ==
  \E j \in 1 .. i - 1 : i - j <= s[j].calls /\ \A k \in j + 1 .. i : s[k].role = "tool"

Owners(s, lost) ==
  \A i \in 1 .. Len(s) : s[i].role = "tool" /\ ~Owned(s, i)
                           => lost /\ \A j \in 1 .. i : s[j].role = "tool"

HasUser(s) == \E i \in 1 .. Len(s) : IsUser(s[i])

\* In a batch, the calls that are left and the results that came are those of one answer.
InBatch == pc \in {"call", "tool"} \/ (pc = "compact" /\ job.after = "batch")
BatchInv ==
  InBatch => \E j \in 1 .. Len(msgs) :
               /\ Len(msgs) - j + batch <= msgs[j].calls
               /\ \A k \in j + 1 .. Len(msgs) : msgs[k].role = "tool"

\* A turn that will ask the model something has a message of the user.
InTurn == pc \in {"top", "chat", "call", "tool"} \/ (pc = "compact" /\ job.after # "idle")
UserInv == InTurn => HasUser(msgs)

SavedInv ==
  \A old \in saved : /\ old.sys \in Sys /\ old.lost \in BOOLEAN /\ old.msgs \in Seq(Msg)
                     /\ Owners(old.msgs, old.lost)

\* The memo is never of a longer history than there is.
MemoInv == memo.key[1] \in 0 .. 1 + Len(msgs) /\ MemoIsCurrent

\* A turn has something to talk about.
NotEmpty == msgs # <<>> \/ pc = "idle"

\* A history with the key of the probe was measured before any compaction of it can begin: the
\* probe then finds its key in the memo, and leaves the memo alone.
ProbeInv == pc \in {"idle", "compact"} /\ Key(msgs) = Key(Probe) => memo.key = Key(Probe)

Inv ==
  /\ TypeOK
  /\ msgs \in Seq(Msg)
  /\ Owners(msgs, trimmed)
  /\ BatchInv
  /\ UserInv
  /\ SavedInv
  /\ MemoInv
  /\ NotEmpty /\ ProbeInv

-----------------------------------------------------------------------------
(* Numbers. *)

LEMMA LeastElement ==
  ASSUME NEW T \in SUBSET Nat, T # {}
  PROVE  \E x \in T : \A y \in T : x <= y
<1>1. \E x \in T : \A y \in T : ~ (<<y, x>> \in OpToRel(<, Nat))
  BY WFMin, NatLessThanWellFounded
<1>2. \A x, y \in Nat : ~ (<<y, x>> \in OpToRel(<, Nat)) => x <= y
  BY DEF OpToRel
<1> QED BY <1>1, <1>2

LEMMA LeastFacts ==
  ASSUME NEW T \in SUBSET Nat, T # {}
  PROVE  Least(T) \in T /\ \A y \in T : Least(T) <= y
BY LeastElement DEF Least

LEMMA GreatestFacts ==
  ASSUME NEW n \in Nat, NEW T \in SUBSET (1 .. n), T # {}
  PROVE  Greatest(T) \in T /\ \A y \in T : Greatest(T) >= y
<1> DEFINE below == {n - i : i \in T}
<1>1. below \in SUBSET Nat /\ below # {}
  <2>1. ASSUME NEW i \in T PROVE n - i \in Nat
    <3>1. i \in 1 .. n
      OBVIOUS
    <3> QED BY <3>1
  <2>2. \A b \in below : b \in Nat
    BY <2>1
  <2>3. PICK i : i \in T
    OBVIOUS
  <2>4. n - i \in below
    BY <2>3
  <2> HIDE DEF below
  <2> QED BY <2>2, <2>4
<1>2. PICK x \in below : \A y \in below : x <= y
  BY <1>1, LeastElement
<1>3. PICK i \in T : x = n - i
  BY <1>2
<1>4. \A y \in T : i >= y
  <2> TAKE y \in T
  <2>1. n - i <= n - y
    BY <1>2, <1>3
  <2>2. i \in Int /\ y \in Int
    OBVIOUS
  <2> QED BY <2>1, <2>2
<1> QED BY <1>4 DEF Greatest

\* Induction, for a set of numbers.
LEMMA AllNumbers ==
  ASSUME NEW T \in SUBSET Nat, 0 \in T, \A n \in T : n + 1 \in T
  PROVE  T = Nat
<1> SUFFICES ASSUME T # Nat PROVE FALSE
  OBVIOUS
<1>1. (Nat \ T) \in SUBSET Nat /\ Nat \ T # {}
  OBVIOUS
<1>2. PICK x \in Nat \ T : \A y \in Nat \ T : x <= y
  BY <1>1, LeastElement
<1>3. x # 0 /\ x - 1 \in Nat /\ ~ (x <= x - 1) /\ (x - 1) + 1 = x
  OBVIOUS
<1>4. x - 1 \in T
  BY <1>2, <1>3
<1> QED BY <1>3, <1>4

-----------------------------------------------------------------------------
(* The sum of the sizes is a number: there is a function of partial sums, and any such
   function has numbers for values. *)

IsSums(s, f, n) ==
  f = [i \in 0 .. n |-> IF i = 0 THEN 0 ELSE f[i - 1] + s[i].size]

LEMMA SumsExist ==
  ASSUME NEW s, NEW n \in Nat
  PROVE  \E f : IsSums(s, f, n)
<1> DEFINE T == {m \in Nat : \E f : IsSums(s, f, m)}
<1>1. 0 \in T
  <2> DEFINE f == [i \in 0 .. 0 |-> 0]
  <2>1. f = [i \in 0 .. 0 |-> IF i = 0 THEN 0 ELSE f[i - 1] + s[i].size]
    OBVIOUS
  <2> HIDE DEF f
  <2> QED BY <2>1 DEF IsSums
<1>2. ASSUME NEW m \in T PROVE m + 1 \in T
  <2>1. PICK f : IsSums(s, f, m)
    OBVIOUS
  <2> DEFINE g == [i \in 0 .. m + 1 |-> IF i <= m THEN f[i] ELSE f[m] + s[m + 1].size]
  <2>2. ASSUME NEW i \in 0 .. m + 1
        PROVE  g[i] = IF i = 0 THEN 0 ELSE g[i - 1] + s[i].size
    <3>1. CASE i = 0
      BY <2>1, <3>1 DEF IsSums
    <3>2. CASE i # 0 /\ i <= m
      <4>1. i \in 0 .. m /\ i - 1 \in 0 .. m + 1 /\ i - 1 <= m
        BY <3>2
      <4>2. f[i] = f[i - 1] + s[i].size
        BY <2>1, <3>2, <4>1 DEF IsSums
      <4> QED BY <3>2, <4>1, <4>2
    <3>3. CASE i = m + 1
      <4>1. m \in 0 .. m + 1 /\ ~ (m + 1 <= m) /\ i - 1 = m /\ i # 0
        BY <3>3
      <4> QED BY <3>3, <4>1
    <3> QED BY <3>1, <3>2, <3>3
  <2>3. g = [i \in 0 .. m + 1 |-> g[i]]
    OBVIOUS
  <2> HIDE DEF g
  <2>4. g = [i \in 0 .. m + 1 |-> IF i = 0 THEN 0 ELSE g[i - 1] + s[i].size]
    BY <2>2, <2>3
  <2> QED BY <2>4 DEF IsSums
<1> HIDE DEF T
<1>3. T = Nat
  <2>1. T \in SUBSET Nat
    BY DEF T
  <2> QED BY <1>1, <1>2, <2>1, AllNumbers
<1> QED BY <1>3 DEF T

LEMMA SumsAreNumbers ==
  ASSUME NEW s \in Seq(Message), NEW f, IsSums(s, f, Len(s)), NEW n \in 0 .. Len(s)
  PROVE  f[n] \in Nat
<1> DEFINE T == {m \in Nat : m <= Len(s) => f[m] \in Nat}
<1>1. Len(s) \in Nat
  OBVIOUS
<1>2. 0 \in T
  BY <1>1 DEF IsSums
<1>3. ASSUME NEW m \in T PROVE m + 1 \in T
  <2> SUFFICES ASSUME m + 1 <= Len(s) PROVE f[m + 1] \in Nat
    OBVIOUS
  <2>1. m + 1 \in 1 .. Len(s) /\ m + 1 \in 0 .. Len(s) /\ m + 1 # 0 /\ (m + 1) - 1 = m /\ m <= Len(s)
    BY <1>1
  <2>2. f[m + 1] = f[m] + s[m + 1].size
    BY <2>1 DEF IsSums
  <2>3. s[m + 1].size \in Nat
    <3>1. s[m + 1] \in Message
      BY <2>1, ElementOfSeq
    <3> QED BY <3>1 DEF Message
  <2> QED BY <2>1, <2>2, <2>3
<1>4. T = Nat
  <2>1. T \in SUBSET Nat
    OBVIOUS
  <2> HIDE DEF T
  <2> QED BY <1>2, <1>3, <2>1, AllNumbers
<1> QED BY <1>1, <1>4

LEMMA TotalIsNumber ==
  ASSUME NEW s \in Seq(Message)
  PROVE  Total(s) \in Nat
<1>1. Len(s) \in Nat
  OBVIOUS
<1> DEFINE sum == CHOOSE f : IsSums(s, f, Len(s))
<1>2. Sums(s) = sum
  BY DEF Sums, IsSums
<1>3. IsSums(s, sum, Len(s))
  BY <1>1, SumsExist
<1> HIDE DEF sum
<1> QED BY <1>1, <1>2, <1>3, SumsAreNumbers DEF Total

-----------------------------------------------------------------------------
(* Messages and sequences of them. *)

LEMMA MsgFacts ==
  ASSUME NEW m \in Msg
  PROVE  /\ m.role \in {"user", "resuming", "assistant", "tool"}
         /\ m.size \in Nat /\ m.calls \in Nat
         /\ m.calls > 0 => m.role # "tool"
         /\ m.role = "resuming" => m = Resuming
<1>1. m \in Message
  BY DEF Msg
<1>2. m = [role |-> m.role, size |-> m.size, calls |-> m.calls]
  BY <1>1 DEF Message
<1>3. m.role = "resuming" => m.size = 1 /\ m.calls = 0
  BY DEF Msg, IsUser
<1>4. m.role = "resuming" => m = Resuming
  BY <1>2, <1>3 DEF Resuming
<1>5. m.calls \in 0 .. MaxCalls /\ MaxCalls \in Nat
  BY <1>1, HistoryAssumption DEF Message
<1>6. m.calls > 0 => m.role # "tool"
  BY <1>5 DEF Msg
<1>7. m.calls \in Nat
  BY <1>5
<1> QED BY <1>1, <1>4, <1>6, <1>7 DEF Msg, Message

LEMMA NewMessages ==
  /\ \A n \in 0 .. 1 : User(n) \in Msg /\ IsUser(User(n)) /\ User(n).role # "tool"
  /\ User(1) \in Msg /\ Resuming \in Msg
  /\ \A k \in 0 .. MaxCalls : Answer(k) \in Msg
  /\ \A n \in Nat : Result(n) \in Msg
  /\ IsUser(User(1)) /\ IsUser(Resuming)
BY HistoryAssumption DEF Msg, Message, User, Resuming, Answer, Result, IsUser

LEMMA InMessages ==
  ASSUME NEW s \in Seq(Msg)
  PROVE  s \in Seq(Message) /\ Total(s) \in Nat /\ Len(s) \in Nat
<1>1. Msg \subseteq Message
  BY DEF Msg
<1>2. s \in Seq(Message)
  BY <1>1, SeqMonotonic
<1> QED BY <1>2, TotalIsNumber, LenProperties

LEMMA LastIsIn ==
  ASSUME NEW s \in Seq(Msg), s # <<>>
  PROVE  Len(s) \in Nat \ {0} /\ Last(s) = s[Len(s)] /\ Last(s) \in Msg
<1>1. Len(s) \in Nat \ {0}
  BY EmptySeq
<1>2. Len(s) \in 1 .. Len(s)
  BY <1>1
<1>3. s[Len(s)] \in Msg
  BY <1>2, ElementOfSeq
<1> QED BY <1>1, <1>3 DEF Last

LEMMA Appended ==
  ASSUME NEW s \in Seq(Msg), NEW m \in Msg
  PROVE  /\ Append(s, m) \in Seq(Msg) /\ Append(s, m) # <<>>
         /\ Len(Append(s, m)) = Len(s) + 1
         /\ \A i \in 1 .. Len(s) : Append(s, m)[i] = s[i]
         /\ Append(s, m)[Len(s) + 1] = m
BY AppendProperties

LEMMA OwnersOfAppended ==
  ASSUME NEW s \in Seq(Msg), NEW m \in Msg, NEW lost \in BOOLEAN, Owners(s, lost),
         m.role # "tool" \/ Owned(Append(s, m), Len(s) + 1)
  PROVE  Owners(Append(s, m), lost)
<1> DEFINE t == Append(s, m)
<1>1. /\ Len(s) \in Nat /\ Len(t) = Len(s) + 1 /\ t[Len(s) + 1] = m
      /\ \A i \in 1 .. Len(s) : t[i] = s[i]
  BY Appended, InMessages
<1>2. SUFFICES ASSUME NEW i \in 1 .. Len(t), t[i].role = "tool", ~Owned(t, i)
               PROVE  lost /\ \A j \in 1 .. i : t[j].role = "tool"
  BY DEF Owners
<1> HIDE DEF t
<1>3. i \in 1 .. Len(s)
  <2>1. i # Len(s) + 1
    BY <1>1, <1>2 DEF t
  <2> QED BY <1>1, <2>1
<1>4. t[i] = s[i] /\ \A j \in 1 .. i : t[j] = s[j]
  BY <1>1, <1>3
<1>5. ~Owned(s, i)
  <2> SUFFICES ASSUME Owned(s, i) PROVE Owned(t, i)
    BY <1>2
  <2>1. PICK j \in 1 .. i - 1 : i - j <= s[j].calls /\ \A k \in j + 1 .. i : s[k].role = "tool"
    BY DEF Owned
  <2>2. t[j] = s[j] /\ \A k \in j + 1 .. i : t[k] = s[k]
    BY <1>4
  <2> QED BY <2>1, <2>2 DEF Owned
<1> QED BY <1>2, <1>3, <1>4, <1>5 DEF Owners

LEMMA Suffix ==
  ASSUME NEW s \in Seq(Msg), NEW i \in 1 .. Len(s) + 1
  PROVE  /\ From(s, i) \in Seq(Msg) /\ Len(From(s, i)) = Len(s) - i + 1
         /\ \A k \in 1 .. Len(s) - i + 1 : From(s, i)[k] = s[i + k - 1]
<1>1. Len(s) \in Nat /\ i \in Int
  BY InMessages
<1>2. \A k \in i .. Len(s) : s[k] \in Msg
  BY <1>1, ElementOfSeq
<1>3. /\ SubSeq(s, i, Len(s)) \in Seq(Msg)
      /\ Len(SubSeq(s, i, Len(s))) = IF i <= Len(s) THEN Len(s) - i + 1 ELSE 0
      /\ \A k \in 1 .. Len(s) - i + 1 : SubSeq(s, i, Len(s))[k] = s[i + k - 1]
  BY <1>1, <1>2, SubSeqProperties
<1> QED BY <1>1, <1>3 DEF From

\* What starts with a message that is no result has an owner for every result; what starts
\* inside a batch has results without an owner only at its start.
LEMMA OwnersOfSuffix ==
  ASSUME NEW s \in Seq(Msg), NEW i \in 1 .. Len(s) + 1, NEW lost \in BOOLEAN, Owners(s, lost)
  PROVE  /\ Owners(From(s, i), TRUE)
         /\ (i = Len(s) + 1 \/ s[i].role # "tool") => Owners(From(s, i), FALSE)
<1> DEFINE t == From(s, i)
<1>1. /\ Len(s) \in Nat /\ i \in Nat /\ i >= 1 /\ Len(t) = Len(s) - i + 1
      /\ \A k \in 1 .. Len(t) : t[k] = s[i + k - 1]
  <2>1. /\ Len(t) = Len(s) - i + 1
        /\ \A k \in 1 .. Len(s) - i + 1 : t[k] = s[i + k - 1]
    BY Suffix
  <2>2. Len(s) \in Nat
    BY InMessages
  <2> HIDE DEF t
  <2> QED BY <2>1, <2>2
<1>2. ASSUME NEW k \in 1 .. Len(t), t[k].role = "tool", ~Owned(t, k)
      PROVE  \A j \in 1 .. k : t[j].role = "tool"
  <2> HIDE DEF t
  <2> DEFINE p == i + k - 1
  <2>1. p \in 1 .. Len(s) /\ s[p].role = "tool" /\ k \in Nat /\ k >= 1
    BY <1>1, <1>2
  <2>2. \A j \in 1 .. k : t[j] = s[i + j - 1] /\ i + j - 1 \in i .. p
    BY <1>1, <1>2
  <2>3. CASE Owned(s, p)
    <3>1. PICK q \in 1 .. p - 1 : p - q <= s[q].calls /\ \A r \in q + 1 .. p : s[r].role = "tool"
      BY <2>3 DEF Owned
    <3>2. q < i
      <4> SUFFICES ASSUME q >= i PROVE Owned(t, k)
        BY <1>2, <1>1, <3>1
      <4> DEFINE j == q - i + 1
      <4>1. j \in 1 .. k - 1 /\ t[j] = s[q] /\ k - j = p - q
        <5>1. j \in 1 .. k - 1 /\ i + j - 1 = q /\ k - j = p - q
          BY <1>1, <2>1, <3>1
        <5>2. j \in 1 .. Len(t)
          BY <1>1, <5>1
        <5> QED BY <1>1, <5>1, <5>2
      <4>2. ASSUME NEW r \in j + 1 .. k PROVE t[r].role = "tool"
        <5>1. i + r - 1 \in q + 1 .. p /\ r \in 1 .. Len(t)
          BY <1>1, <2>1, <3>1
        <5> QED BY <1>1, <3>1, <5>1
      <4>3. k - j <= t[j].calls
        BY <3>1, <4>1
      <4> QED BY <4>1, <4>2, <4>3 DEF Owned
    <3>3. \A r \in i .. p : r \in q + 1 .. p
      BY <2>1, <3>1, <3>2, <1>1
    <3> QED BY <2>2, <3>1, <3>3
  <2>4. CASE ~Owned(s, p)
    <3>1. \A j \in 1 .. p : s[j].role = "tool"
      BY <2>1, <2>4 DEF Owners
    <3>2. \A r \in i .. p : r \in 1 .. p
      BY <1>1, <2>1
    <3> QED BY <2>2, <3>1, <3>2
  <2> QED BY <2>3, <2>4
<1>3. ASSUME i = Len(s) + 1 \/ s[i].role # "tool", NEW k \in 1 .. Len(t), t[k].role = "tool"
      PROVE  Owned(t, k)
  <2> HIDE DEF t
  <2>1. i # Len(s) + 1 /\ 1 \in 1 .. k /\ 1 \in 1 .. Len(t)
    BY <1>1, <1>3
  <2>2. t[1] = s[i]
    <3>1. i + 1 - 1 = i
      BY <1>1
    <3> QED BY <1>1, <2>1, <3>1
  <2> QED BY <1>2, <1>3, <2>1, <2>2
<1> HIDE DEF t
<1>4. Owners(t, TRUE)
  BY <1>2 DEF Owners
<1>5. (i = Len(s) + 1 \/ s[i].role # "tool") => Owners(t, FALSE)
  BY <1>3 DEF Owners
<1> QED BY <1>4, <1>5 DEF t

LEMMA WithUserFacts ==
  ASSUME NEW t \in Seq(Msg), Owners(t, FALSE)
  PROVE  /\ WithUser(t) \in Seq(Msg) /\ WithUser(t) # <<>>
         /\ Owners(WithUser(t), FALSE) /\ HasUser(WithUser(t))
         /\ t # <<>> => Last(WithUser(t)) = Last(t)
<1>1. CASE HasUser(t)
  <2>1. WithUser(t) = t
    BY <1>1 DEF WithUser, HasUser
  <2>2. t # <<>>
    BY <1>1, EmptySeq DEF HasUser
  <2> QED BY <1>1, <2>1, <2>2
<1>2. CASE ~HasUser(t)
  <2> DEFINE first == <<User(1)>>
             u == first \o t
  <2>1. WithUser(t) = u
    BY <1>2 DEF WithUser, HasUser
  <2>2. User(1) \in Msg /\ IsUser(User(1))
    BY NewMessages
  <2>3. first \in Seq(Msg) /\ Len(first) = 1 /\ first[1] = User(1)
    BY <2>2
  <2> HIDE DEF first
  <2>4. /\ u \in Seq(Msg) /\ Len(u) = 1 + Len(t)
        /\ \A i \in 1 .. 1 + Len(t) : u[i] = IF i <= 1 THEN first[i] ELSE t[i - 1]
    <3>1. /\ u \in Seq(Msg) /\ Len(u) = Len(first) + Len(t)
          /\ \A i \in 1 .. Len(first) + Len(t) :
               u[i] = IF i <= Len(first) THEN first[i] ELSE t[i - Len(first)]
      BY <2>3, ConcatProperties
    <3> HIDE DEF u
    <3> QED BY <2>3, <3>1
  <2> HIDE DEF u
  <2>5. Len(t) \in Nat /\ u[1] = User(1) /\ \A i \in 1 .. Len(t) : u[i + 1] = t[i]
    <3>1. Len(t) \in Nat
      BY InMessages
    <3> QED BY <2>3, <2>4, <3>1
  <2>6. u # <<>>
    BY <2>4, <2>5, EmptySeq
  <2>7. HasUser(u)
    BY <2>2, <2>4, <2>5 DEF HasUser
  <2>8. ASSUME NEW i \in 1 .. Len(u), u[i].role = "tool" PROVE Owned(u, i)
    <3>1. i # 1
      BY <2>2, <2>5, <2>8 DEF IsUser
    <3>2. i - 1 \in 1 .. Len(t) /\ (i - 1) + 1 = i
      BY <2>4, <2>5, <3>1
    <3>3. t[i - 1].role = "tool"
      BY <2>5, <2>8, <3>2
    <3>4. Owned(t, i - 1)
      BY <3>2, <3>3 DEF Owners
    <3>5. PICK j \in 1 .. (i - 1) - 1 :
            (i - 1) - j <= t[j].calls /\ \A k \in j + 1 .. i - 1 : t[k].role = "tool"
      BY <3>4 DEF Owned
    <3>6. j + 1 \in 1 .. i - 1 /\ i - (j + 1) = (i - 1) - j /\ u[j + 1] = t[j]
      <4>1. /\ i \in Int /\ j \in Int /\ j \in 1 .. Len(t)
            /\ j + 1 \in 1 .. i - 1 /\ i - (j + 1) = (i - 1) - j
        BY <2>5, <3>2
      <4> QED BY <2>5, <4>1
    <3>7. ASSUME NEW k \in (j + 1) + 1 .. i PROVE u[k].role = "tool"
      <4>1. k - 1 \in j + 1 .. i - 1 /\ k - 1 \in 1 .. Len(t) /\ (k - 1) + 1 = k
        BY <3>2, <3>5, <2>5
      <4> QED BY <2>5, <3>5, <4>1
    <3>8. i - (j + 1) <= u[j + 1].calls
      BY <3>5, <3>6
    <3> QED BY <3>6, <3>7, <3>8 DEF Owned
  <2>9. t # <<>> => Last(u) = Last(t)
    <3> SUFFICES ASSUME t # <<>> PROVE Last(u) = Last(t)
      OBVIOUS
    <3>1. Len(t) \in Nat \ {0} /\ Last(t) = t[Len(t)]
      BY LastIsIn
    <3>2. Last(u) = u[Len(u)]
      BY <2>4, <2>6, LastIsIn
    <3>3. Len(t) \in 1 .. Len(t) /\ Len(u) = Len(t) + 1
      BY <2>4, <3>1
    <3> QED BY <2>5, <3>1, <3>2, <3>3
  <2>10. Owners(u, FALSE)
    BY <2>8 DEF Owners
  <2> QED BY <2>1, <2>4, <2>6, <2>7, <2>9, <2>10
<1> QED BY <1>1, <1>2

LEMMA ResumesFacts ==
  ASSUME NEW s \in Seq(Msg), NEW lost \in BOOLEAN, Owners(s, lost)
  PROVE  /\ Resumes(s) \in Seq(Msg) /\ Resumes(s) # <<>> /\ Owners(Resumes(s), lost)
         /\ HasUser(Resumes(s))
         /\ \/ Resumes(s) = s /\ s # <<>> /\ Last(s).role = "resuming"
            \/ /\ Resumes(s) = Append(s, Resuming) /\ ~(s # <<>> /\ Last(s).role = "resuming")
               /\ Len(Resumes(s)) = Len(s) + 1
<1>1. CASE s # <<>> /\ Last(s).role = "resuming"
  <2>1. Len(s) \in 1 .. Len(s) /\ Last(s) = s[Len(s)] /\ Last(s) \in Msg
    BY <1>1, LastIsIn
  <2>2. Last(s) = Resuming
    BY <1>1, <2>1, MsgFacts
  <2>3. [s EXCEPT ![Len(s)] = Resuming] = s
    <3>1. s \in [1 .. Len(s) -> Msg]
      BY LenProperties
    <3> QED BY <2>1, <2>2, <3>1
  <2>4. Resumes(s) = s
    BY <1>1, <2>3 DEF Resumes
  <2>5. HasUser(s)
    BY <2>1, <2>2, NewMessages DEF HasUser
  <2> QED BY <1>1, <2>4, <2>5
<1>2. CASE ~(s # <<>> /\ Last(s).role = "resuming")
  <2> DEFINE u == Append(s, Resuming)
  <2>1. Resumes(s) = u
    BY <1>2 DEF Resumes
  <2>2. Resuming \in Msg /\ IsUser(Resuming) /\ Resuming.role # "tool"
    BY NewMessages DEF Resuming
  <2>3. /\ u \in Seq(Msg) /\ u # <<>> /\ Len(u) = Len(s) + 1 /\ u[Len(s) + 1] = Resuming
    BY <2>2, Appended
  <2>4. Owners(u, lost)
    BY <2>2, OwnersOfAppended
  <2> HIDE DEF u
  <2>5. HasUser(u)
    <3>1. Len(s) + 1 \in 1 .. Len(u)
      BY <2>3, InMessages
    <3> QED BY <2>2, <2>3, <3>1 DEF HasUser
  <2> QED BY <1>2, <2>1, <2>3, <2>4, <2>5 DEF u
<1> QED BY <1>1, <1>2

-----------------------------------------------------------------------------
(* The cut of a compaction. *)

LEMMA CutIsAPlace ==
  ASSUME msgs \in Seq(Msg), msgs # <<>>, NEW budget
  PROVE  Cut(budget) \in 1 .. Len(msgs)
<1>1. Len(msgs) \in Nat \ {0}
  BY LastIsIn
<1> DEFINE T == {Len(msgs)} \cup {i \in 1 .. Len(msgs) : Total(From(msgs, i)) <= budget}
           fit == FitsFrom(budget)
           later == {i \in fit + 1 .. Len(msgs) : IsUser(msgs[i])}
<1>2. fit \in 1 .. Len(msgs)
  <2>1. T \in SUBSET Nat /\ T # {} /\ T \subseteq 1 .. Len(msgs)
    BY <1>1
  <2>2. fit = Least(T)
    BY DEF FitsFrom
  <2> HIDE DEF T, fit
  <2>3. Least(T) \in T
    BY <2>1, LeastFacts
  <2> QED BY <2>1, <2>2, <2>3
<1>3. later # {} => Least(later) \in 1 .. Len(msgs)
  <2>1. later \in SUBSET Nat /\ later \subseteq 1 .. Len(msgs)
    <3> HIDE DEF fit
    <3> QED BY <1>1, <1>2
  <2> HIDE DEF later
  <2> QED BY <2>1, LeastFacts
<1>4. Cut(budget) = IF fit = 1 \/ IsUser(msgs[fit]) \/ later = {} THEN fit ELSE Least(later)
  BY DEF Cut
<1> HIDE DEF fit, later
<1> QED BY <1>2, <1>3, <1>4

\* A repaired tail starts with a message that is no result, and holds the newest message
\* unless that one is a result nothing asked for.
LEMMA RepairedFacts ==
  ASSUME msgs \in Seq(Msg), msgs # <<>>, NEW cut \in 1 .. Len(msgs)
  PROVE  \E i \in 1 .. Len(msgs) + 1 :
           /\ Repaired(cut) = From(msgs, i)
           /\ i = Len(msgs) + 1 \/ msgs[i].role # "tool"
           /\ Len(msgs) \notin Orphans => i # Len(msgs) + 1
<1> DEFINE before == {i \in 1 .. cut - 1 : msgs[i].role # "tool"}
           owned  == before # {} /\ msgs[Greatest(before)].calls > 0
           after  == {Len(msgs) + 1} \cup {i \in cut .. Len(msgs) : msgs[i].role # "tool"}
<1>1. Len(msgs) \in Nat \ {0} /\ cut \in Nat /\ cut >= 1
  BY LastIsIn
<1>2. before \in SUBSET (1 .. Len(msgs))
  BY <1>1
<1>3. before # {} => /\ Greatest(before) \in before
                     /\ \A y \in before : Greatest(before) >= y
  <2> HIDE DEF before
  <2> QED BY <1>1, <1>2, GreatestFacts
<1>4. Least(after) \in after
  <2>1. after \in SUBSET Nat /\ after # {}
    BY <1>1
  <2> HIDE DEF after
  <2> QED BY <2>1, LeastFacts
<1>5. CASE msgs[cut].role = "tool" /\ owned
  <2>1. Repaired(cut) = From(msgs, Greatest(before))
    BY <1>5 DEF Repaired
  <2>2. Greatest(before) \in 1 .. cut - 1 /\ msgs[Greatest(before)].role # "tool"
    BY <1>3, <1>5
  <2> HIDE DEF before, owned
  <2> QED BY <1>1, <2>1, <2>2
<1>6. CASE ~(msgs[cut].role = "tool" /\ owned)
  <2>1. Repaired(cut) = From(msgs, Least(after))
    BY <1>6 DEF Repaired
  <2>2. Least(after) = Len(msgs) + 1
          \/ (Least(after) \in cut .. Len(msgs) /\ msgs[Least(after)].role # "tool")
    <3>1. ASSUME NEW i \in after
          PROVE  i = Len(msgs) + 1 \/ (i \in cut .. Len(msgs) /\ msgs[i].role # "tool")
      <4> HIDE DEF before, owned
      <4> QED OBVIOUS
    <3> HIDE DEF after
    <3> QED BY <1>4, <3>1
  <2>3. ASSUME Least(after) = Len(msgs) + 1, Len(msgs) \notin Orphans PROVE FALSE
    <3>1. \A y \in after : Least(after) <= y
      <4>1. after \in SUBSET Nat /\ after # {}
        BY <1>1
      <4> HIDE DEF after
      <4> QED BY <4>1, LeastFacts
    <3>2. \A i \in cut .. Len(msgs) : msgs[i].role = "tool"
      <4> TAKE i \in cut .. Len(msgs)
      <4> SUFFICES ASSUME msgs[i].role # "tool" PROVE FALSE
        OBVIOUS
      <4>1. i \in after
        OBVIOUS
      <4>2. Len(msgs) + 1 <= i
        BY <2>3, <3>1, <4>1
      <4> QED BY <1>1, <4>2
    <3>3. msgs[Len(msgs)].role = "tool" /\ msgs[cut].role = "tool"
      BY <1>1, <3>2
    <3>4. PICK j \in 1 .. Len(msgs) - 1 :
            /\ Len(msgs) - j <= msgs[j].calls
            /\ \A k \in j + 1 .. Len(msgs) : msgs[k].role = "tool"
      BY <1>1, <2>3, <3>3 DEF Orphans
    <3>5. msgs[j].calls > 0 /\ msgs[j].role # "tool"
      <4>1. j \in 1 .. Len(msgs)
        BY <1>1
      <4>2. msgs[j] \in Msg
        BY <4>1, ElementOfSeq
      <4>3. msgs[j].calls \in Int /\ (msgs[j].calls > 0 => msgs[j].role # "tool")
        BY <4>2, MsgFacts
      <4> QED BY <1>1, <3>4, <4>3
    <3>6. j \in before
      <4>1. ~(j >= cut)
        BY <1>1, <3>2, <3>5
      <4> QED BY <1>1, <3>5, <4>1
    <3>7. Greatest(before) = j
      <4>1. Greatest(before) \in before /\ Greatest(before) >= j
        BY <1>3, <3>6
      <4>2. Greatest(before) \in 1 .. Len(msgs) /\ msgs[Greatest(before)].role # "tool"
        BY <1>2, <4>1
      <4> HIDE DEF before
      <4>3. ~(Greatest(before) \in j + 1 .. Len(msgs))
        BY <3>4, <4>2
      <4> QED BY <1>1, <4>1, <4>2, <4>3
    <3>8. owned
      BY <3>5, <3>6, <3>7
    <3> QED BY <1>6, <3>3, <3>8
  <2>4. Least(after) \in 1 .. Len(msgs) + 1
    BY <1>1, <2>2
  <2> HIDE DEF before, owned, after
  <2> QED BY <2>1, <2>2, <2>3, <2>4
<1> QED BY <1>5, <1>6

LEMMA KeptTailFacts ==
  ASSUME msgs \in Seq(Msg), NEW lost \in BOOLEAN, Owners(msgs, lost), NEW h
  PROVE  /\ KeptTail(h) \in Seq(Msg) /\ KeptTail(h) # <<>>
         /\ Owners(KeptTail(h), FALSE) /\ HasUser(KeptTail(h))
         /\ msgs # <<>> /\ Len(msgs) \notin Orphans => Last(KeptTail(h)) = Last(msgs)
<1>1. CASE msgs = <<>>
  <2>1. KeptTail(h) = WithUser(<<>>)
    BY <1>1 DEF KeptTail
  <2>2. <<>> \in Seq(Msg) /\ Owners(<<>>, FALSE)
    BY EmptySeq DEF Owners
  <2> QED BY <1>1, <2>1, <2>2, WithUserFacts
<1>2. CASE msgs # <<>>
  <2> DEFINE cut == Cut(TailBudget(h))
  <2>1. KeptTail(h) = WithUser(Repaired(cut))
    BY <1>2 DEF KeptTail
  <2>2. cut \in 1 .. Len(msgs)
    BY <1>2, CutIsAPlace
  <2> HIDE DEF cut
  <2>3. PICK i \in 1 .. Len(msgs) + 1 :
          /\ Repaired(cut) = From(msgs, i)
          /\ i = Len(msgs) + 1 \/ msgs[i].role # "tool"
          /\ Len(msgs) \notin Orphans => i # Len(msgs) + 1
    BY <1>2, <2>2, RepairedFacts
  <2> DEFINE t == From(msgs, i)
  <2>4. /\ t \in Seq(Msg) /\ Len(t) = Len(msgs) - i + 1
        /\ \A k \in 1 .. Len(msgs) - i + 1 : t[k] = msgs[i + k - 1]
    BY Suffix
  <2>5. Owners(t, FALSE)
    BY <2>3, OwnersOfSuffix
  <2> HIDE DEF t
  <2>6. Len(msgs) \notin Orphans => t # <<>> /\ Last(t) = Last(msgs)
    <3> SUFFICES ASSUME i # Len(msgs) + 1 PROVE t # <<>> /\ Last(t) = Last(msgs)
      BY <2>3
    <3>1. Len(msgs) \in Nat \ {0} /\ Last(msgs) = msgs[Len(msgs)]
      BY <1>2, LastIsIn
    <3>2. Len(t) \in Nat /\ Len(t) >= 1 /\ Len(t) \in 1 .. Len(msgs) - i + 1
          /\ i + Len(t) - 1 = Len(msgs)
      BY <2>4, <3>1
    <3>3. t # <<>>
      BY <3>2, EmptySeq
    <3>4. Last(t) = t[Len(t)]
      BY <2>4, <3>3, LastIsIn
    <3> QED BY <2>4, <3>1, <3>2, <3>3, <3>4
  <2>7. Repaired(cut) = t
    BY <2>3 DEF t
  <2> QED BY <1>2, <2>1, <2>4, <2>5, <2>6, <2>7, WithUserFacts
<1> QED BY <1>1, <1>2

-----------------------------------------------------------------------------
(* The token count and its memo. *)

LEMMA SummaryMaxIsNumber ==
  ASSUME memo.tokens \in Nat
  PROVE  SummaryMax \in Nat /\ 0 .. SummaryMax \subseteq 0 .. SummaryCap
<1>1. ProbeMemo.tokens \in Nat
  BY HistoryAssumption DEF ProbeMemo
<1>2. Room \in Nat
  BY <1>1, HistoryAssumption DEF Room, Larger
<1>3. Room \div 2 \in Nat
  BY <1>2
<1>4. SummaryCap \in Nat
  BY HistoryAssumption
<1>5. \A half \in Nat : Smaller(SummaryCap, half) \in Nat /\ Smaller(SummaryCap, half) <= SummaryCap
  BY <1>4 DEF Smaller
<1>6. SummaryMax \in Nat /\ SummaryMax <= SummaryCap
  BY <1>3, <1>5 DEF SummaryMax
<1> QED BY <1>4, <1>6

LEMMA TokensIsNumber ==
  ASSUME NEW p, p.size \in Nat, p.notes \in Nat, NEW s \in Seq(Msg)
  PROVE  Tokens(p, s) \in Nat /\ Tokens(p, s) - p.notes \in Nat
<1>1. Total(s) \in Nat /\ Overhead \in Nat
  BY InMessages, HistoryAssumption
<1>2. \A o, a, b, c \in Nat : o + a + b + c \in Nat /\ (o + a + b + c) - b \in Nat
  OBVIOUS
<1>3. Tokens(p, s) = Overhead + p.size + p.notes + Total(s)
  BY DEF Tokens
<1> QED BY <1>1, <1>2, <1>3

LEMMA KeyFacts ==
  ASSUME NEW s \in Seq(Msg)
  PROVE  Key(s)[1] = 1 + Len(s) /\ Key(s) # NoMemo.key
<1>1. Key(s)[1] = 1 + Len(s)
  BY EmptySeq DEF Key
<1>2. Len(s) \in Nat /\ NoMemo.key[1] = 0
  BY InMessages DEF NoMemo
<1> QED BY <1>1, <1>2

\* The key of the probe is that of one message of the user with one character.
LEMMA ProbeFacts ==
  /\ Key(Probe) = <<2, "user", 0, 0>> /\ ProbeMemo.key = Key(Probe)
  /\ ProbeMemo = memo \/ memo.key # Key(Probe)
<1>1. Probe # <<>> /\ Len(Probe) = 1 /\ Last(Probe) = User(0)
  BY DEF Probe, Last
<1>2. Key(Probe) = <<2, "user", 0, 0>>
  BY <1>1 DEF Key, User, IsUser
<1> QED BY <1>2 DEF ProbeMemo

\* A history that ends with the resume prompt, which is longer, has another key.
LEMMA ResumedIsNoProbe ==
  ASSUME NEW s \in Seq(Msg), NEW lost \in BOOLEAN, Owners(s, lost)
  PROVE  Key(Resumes(s)) # Key(Probe)
<1> DEFINE u == Resumes(s)
<1>0. \/ u = s /\ s # <<>> /\ Last(s).role = "resuming"
      \/ u = Append(s, Resuming)
  BY ResumesFacts
<1>1. u # <<>> /\ Last(u) = Resuming
  <2> HIDE DEF u
  <2>1. CASE u = s /\ s # <<>> /\ Last(s).role = "resuming"
    <3>1. Last(s) \in Msg
      BY <2>1, LastIsIn
    <3> QED BY <2>1, <3>1, MsgFacts
  <2>2. CASE u = Append(s, Resuming)
    <3>1. /\ u \in Seq(Msg) /\ u # <<>> /\ Len(u) = Len(s) + 1 /\ u[Len(s) + 1] = Resuming
      BY <2>2, NewMessages, Appended
    <3> QED BY <3>1, LastIsIn
  <2> QED BY <1>0, <2>1, <2>2
<1> HIDE DEF u
<1>2. Key(u) = <<1 + Len(u), "user", 1, 0>>
  BY <1>1 DEF Key, Resuming, IsUser
<1> QED BY <1>2, ProbeFacts DEF u

LEMMA EstimateFacts ==
  ASSUME Inv
  PROVE  /\ Estimate(sys, msgs).key = Key(msgs)
         /\ Estimate(sys, msgs).tokens \in {Tokens(sys, msgs), Tokens(sys, msgs) - sys.notes}
         /\ Estimate(sys, msgs).tokens \in Nat
         /\ Estimate(sys, msgs).tokens <= Tokens(sys, msgs)
         /\ Tokens(sys, msgs) \in Nat
<1>1. sys.size \in Nat /\ sys.notes \in Nat /\ msgs \in Seq(Msg)
  BY HistoryAssumption DEF Inv, TypeOK
<1>2. Tokens(sys, msgs) \in Nat /\ Tokens(sys, msgs) - sys.notes \in Nat
  BY <1>1, TokensIsNumber
<1>3. CASE memo.key = Key(msgs)
  <2>1. Estimate(sys, msgs) = memo
    BY <1>3 DEF Estimate
  <2>2. memo.tokens \in {Tokens(sys, msgs), Tokens(sys, msgs) - sys.notes}
    BY <1>3 DEF Inv, MemoInv, MemoIsCurrent
  <2> QED BY <1>1, <1>2, <1>3, <2>1, <2>2
<1>4. CASE memo.key # Key(msgs)
  <2>1. Estimate(sys, msgs) = [key |-> Key(msgs), tokens |-> Tokens(sys, msgs)]
    BY <1>4 DEF Estimate, Measured
  <2> QED BY <1>2, <2>1
<1> QED BY <1>3, <1>4

LEMMA MemoMeasured ==
  ASSUME Inv, memo' = Estimate(sys, msgs), UNCHANGED <<sys, msgs>>
  PROVE  MemoInv' /\ ProbeInv' /\ memo'.tokens \in Nat
<1>1. /\ memo'.key = Key(msgs)
      /\ memo'.tokens \in {Tokens(sys, msgs), Tokens(sys, msgs) - sys.notes}
      /\ memo'.tokens \in Nat
  BY EstimateFacts
<1>2. Key(msgs)[1] = 1 + Len(msgs) /\ Len(msgs) \in Nat
  BY KeyFacts, InMessages DEF Inv
<1>3. memo'.key[1] \in 0 .. 1 + Len(msgs')
  BY <1>1, <1>2
<1>4. MemoIsCurrent'
  BY <1>1 DEF MemoIsCurrent
<1> QED BY <1>1, <1>3, <1>4 DEF MemoInv, ProbeInv

LEMMA MemoEmpty ==
  ASSUME memo' = NoMemo, msgs' \in Seq(Msg)
  PROVE  MemoInv' /\ memo'.tokens \in Nat
<1>1. memo'.key # Key(msgs') /\ Len(msgs') \in Nat
  BY KeyFacts, InMessages
<1>2. MemoIsCurrent'
  BY <1>1 DEF MemoIsCurrent
<1>3. memo'.key[1] = 0 /\ memo'.tokens = 0
  BY DEF NoMemo
<1> QED BY <1>1, <1>2, <1>3 DEF MemoInv

\* Whatever is pushed, the memo is that of a shorter history.
LEMMA MemoOfShorter ==
  ASSUME MemoInv, msgs \in Seq(Msg), msgs' \in Seq(Msg), Len(msgs') > Len(msgs), memo' = memo
  PROVE  MemoInv'
<1>1. Len(msgs) \in Nat /\ Len(msgs') \in Nat
  BY InMessages
<1>2. Key(msgs')[1] = 1 + Len(msgs')
  BY KeyFacts
<1>3. memo.key[1] \in 0 .. 1 + Len(msgs)
  BY DEF MemoInv
<1>4. memo.key # Key(msgs') /\ memo.key[1] \in 0 .. 1 + Len(msgs')
  BY <1>1, <1>2, <1>3
<1>5. MemoIsCurrent'
  BY <1>4 DEF MemoIsCurrent
<1> QED BY <1>4, <1>5 DEF MemoInv

\* The probe of a compaction that failed leaves no wrong count behind.
LEMMA MemoProbed ==
  ASSUME Inv, pc = "compact", msgs' \in {msgs, Resumes(msgs)}, UNCHANGED sys, memo' = ProbeMemo
  PROVE  MemoInv' /\ memo'.tokens \in Nat /\ memo'.key = Key(Probe)
<1>1. /\ msgs \in Seq(Msg) /\ trimmed \in BOOLEAN /\ Owners(msgs, trimmed)
      /\ memo.tokens \in Nat /\ MemoIsCurrent /\ msgs # <<>>
      /\ Key(msgs) = Key(Probe) => memo.key = Key(Probe)
  BY DEF Inv, TypeOK, MemoInv, NotEmpty, ProbeInv
<1>2. memo'.key = Key(Probe) /\ Key(Probe)[1] = 2
  BY ProbeFacts
<1>3. memo'.tokens \in Nat
  BY <1>1, HistoryAssumption DEF ProbeMemo
<1>4. Len(msgs) \in Nat \ {0} /\ Len(msgs') \in Nat \ {0}
  <2>1. msgs' \in Seq(Msg) /\ msgs' # <<>>
    BY <1>1, ResumesFacts
  <2> QED BY <1>1, <2>1, LastIsIn
<1>5. MemoIsCurrent'
  <2>1. CASE msgs' = msgs /\ Key(msgs) = Key(Probe)
    <3>1. memo' = memo
      BY <1>1, <2>1, ProbeFacts
    <3> QED BY <1>1, <2>1, <3>1 DEF MemoIsCurrent
  <2>2. CASE msgs' = msgs /\ Key(msgs) # Key(Probe)
    BY <1>2, <2>2 DEF MemoIsCurrent
  <2>3. CASE msgs' = Resumes(msgs)
    <3>1. Key(msgs') # Key(Probe)
      BY <1>1, <2>3, ResumedIsNoProbe
    <3> QED BY <1>2, <3>1 DEF MemoIsCurrent
  <2> QED BY <2>1, <2>2, <2>3
<1> QED BY <1>2, <1>3, <1>4, <1>5 DEF MemoInv

-----------------------------------------------------------------------------
(* Messages pushed on the history. *)

Jobs == [after : {"chat", "batch", "overflow", "idle"}, halved : 0 .. Halvings,
         tries : 0 .. MaxOverflow, before : Nat]

LEMMA FirstJobIsOne == FirstJob \in Jobs /\ [FirstJob EXCEPT !.after = "idle"] \in Jobs
BY HistoryAssumption DEF FirstJob, Jobs

LEMMA ZeroIsIn == 0 \in 0 .. MaxCalls /\ 0 \in 0 .. MaxNotes
BY HistoryAssumption

LEMMA Pushed ==
  ASSUME Inv, NEW m \in Msg, msgs' = Append(msgs, m), UNCHANGED <<memo, saved, trimmed>>,
         m.role # "tool" \/ Owned(Append(msgs, m), Len(msgs) + 1)
  PROVE  /\ msgs' \in Seq(Msg) /\ Len(msgs') = Len(msgs) + 1 /\ Len(msgs) \in Nat /\ NotEmpty'
         /\ msgs'[Len(msgs')] = m /\ \A i \in 1 .. Len(msgs) : msgs'[i] = msgs[i]
         /\ Owners(msgs', trimmed') /\ SavedInv' /\ MemoInv'
         /\ HasUser(msgs) \/ IsUser(m) => HasUser(msgs')
<1>1. /\ msgs' \in Seq(Msg) /\ Len(msgs') = Len(msgs) + 1 /\ Len(msgs) \in Nat
      /\ \A i \in 1 .. Len(msgs) : msgs'[i] = msgs[i]
      /\ msgs'[Len(msgs) + 1] = m /\ NotEmpty'
  BY Appended, InMessages DEF Inv, NotEmpty
<1>2. trimmed \in BOOLEAN
  BY DEF Inv, TypeOK
<1>3. Owners(msgs', trimmed')
  BY <1>2, OwnersOfAppended DEF Inv
<1>4. SavedInv'
  BY DEF Inv, SavedInv
<1>5. MemoInv'
  BY <1>1, MemoOfShorter DEF Inv
<1>6. ASSUME HasUser(msgs) PROVE HasUser(msgs')
  <2>1. PICK i \in 1 .. Len(msgs) : IsUser(msgs[i])
    BY <1>6 DEF HasUser
  <2>2. i \in 1 .. Len(msgs') /\ msgs'[i] = msgs[i]
    BY <1>1
  <2> QED BY <2>1, <2>2 DEF HasUser
<1>7. ASSUME IsUser(m) PROVE HasUser(msgs')
  <2>1. Len(msgs') \in 1 .. Len(msgs')
    BY <1>1
  <2> QED BY <1>1, <1>7, <2>1 DEF HasUser
<1> QED BY <1>1, <1>3, <1>4, <1>5, <1>6, <1>7

LEMMA SendStep ==
  ASSUME Inv, NEW n \in Lengths, Send(n)
  PROVE  Inv'
<1> DEFINE s == IF pending THEN Resumes(msgs) ELSE msgs
<1>1. /\ msgs \in Seq(Msg) /\ trimmed \in BOOLEAN /\ Owners(msgs, trimmed)
      /\ msgs' = Append(s, User(n)) /\ UNCHANGED <<sys, lastUsed, batch, notes, saved, trimmed>>
      /\ pc' = "top" /\ job' = FirstJob /\ pending' = FALSE
  BY DEF Inv, TypeOK, Send
<1>2. /\ s \in Seq(Msg) /\ Owners(s, trimmed) /\ Len(s) >= Len(msgs) /\ Len(msgs) \in Nat
  <2>1. Len(msgs) \in Nat
    BY <1>1, InMessages
  <2>2. /\ Resumes(msgs) \in Seq(Msg) /\ Owners(Resumes(msgs), trimmed)
        /\ Resumes(msgs) = msgs \/ Len(Resumes(msgs)) = Len(msgs) + 1
    BY <1>1, ResumesFacts
  <2> QED BY <1>1, <2>1, <2>2
<1> HIDE DEF s
<1>0. n \in 0 .. 1
  BY HistoryAssumption
<1>3. /\ msgs' \in Seq(Msg) /\ Len(msgs') = Len(s) + 1 /\ NotEmpty'
      /\ msgs'[Len(s) + 1] = User(n) /\ Len(s) \in Nat
  BY <1>0, <1>1, <1>2, NewMessages, Appended, InMessages DEF NotEmpty
<1>4. Owners(msgs', trimmed')
  <2>1. User(n) \in Msg /\ User(n).role # "tool"
    BY <1>0, NewMessages
  <2> QED BY <1>1, <1>2, <2>1, OwnersOfAppended
<1>5. UserInv'
  <2>1. Len(s) + 1 \in 1 .. Len(msgs') /\ IsUser(User(n))
    BY <1>0, <1>3, NewMessages
  <2> QED BY <1>3, <2>1 DEF UserInv, HasUser
<1>6. MemoInv' /\ memo'.tokens \in Nat
  <2>1. memo' = memo \/ memo' = NoMemo
    BY DEF Send
  <2>2. CASE memo' = memo
    BY <1>1, <1>2, <1>3, <2>2, MemoOfShorter DEF Inv, TypeOK
  <2>3. CASE memo' = NoMemo
    BY <1>3, <2>3, MemoEmpty
  <2> QED BY <2>1, <2>2, <2>3
<1>7. BatchInv' /\ SavedInv' /\ ProbeInv'
  BY <1>1 DEF Inv, BatchInv, InBatch, SavedInv, ProbeInv
<1>8. TypeOK'
  <2>1. FirstJob \in Jobs
    BY FirstJobIsOne
  <2>2. msgs' \in Seq(Message)
    BY <1>3, InMessages
  <2> QED BY <1>1, <1>6, <2>1, <2>2 DEF Inv, TypeOK, Jobs
<1> QED BY <1>3, <1>4, <1>5, <1>6, <1>7, <1>8 DEF Inv

LEMMA QueuedStep ==
  ASSUME Inv, NEW n \in Lengths, Queued(n)
  PROVE  Inv'
<1>1. /\ msgs' = Append(msgs, User(n)) /\ pc = "top"
      /\ UNCHANGED <<sys, memo, lastUsed, pc, batch, job, pending, notes, saved, trimmed>>
  BY DEF Queued
<1>2. User(n) \in Msg /\ User(n).role # "tool" /\ IsUser(User(n))
  BY NewMessages, HistoryAssumption
<1>3. /\ msgs' \in Seq(Msg) /\ Owners(msgs', trimmed') /\ SavedInv' /\ MemoInv'
      /\ NotEmpty' /\ HasUser(msgs')
  BY <1>1, <1>2, Pushed
<1>4. TypeOK'
  BY <1>1, <1>3, InMessages DEF Inv, TypeOK
<1>5. BatchInv' /\ UserInv' /\ ProbeInv'
  BY <1>1, <1>3 DEF BatchInv, InBatch, UserInv, ProbeInv
<1> QED BY <1>3, <1>4, <1>5 DEF Inv

LEMMA AnswerTextStep ==
  ASSUME Inv, NEW clears \in BOOLEAN, AnswerText(clears)
  PROVE  Inv'
<1>1. /\ msgs' = Append(msgs, Answer(0)) /\ pc' = "warm" /\ job' = FirstJob
      /\ pending' = (pending /\ ~clears) /\ notes' \in {0, notes}
      /\ UNCHANGED <<sys, memo, lastUsed, batch, saved, trimmed>>
  BY DEF AnswerText
<1>2. Answer(0) \in Msg /\ Answer(0).role # "tool"
  BY NewMessages, HistoryAssumption DEF Answer
<1>3. msgs' \in Seq(Msg) /\ Owners(msgs', trimmed') /\ SavedInv' /\ MemoInv' /\ NotEmpty'
  BY <1>1, <1>2, Pushed
<1>4. TypeOK'
  <2>1. FirstJob \in Jobs
    BY FirstJobIsOne
  <2> QED BY <1>1, <1>3, <2>1, ZeroIsIn, InMessages DEF Inv, TypeOK, Jobs
<1>5. BatchInv' /\ UserInv' /\ ProbeInv'
  BY <1>1 DEF BatchInv, InBatch, UserInv, InTurn, ProbeInv
<1> QED BY <1>3, <1>4, <1>5 DEF Inv

LEMMA AnswerCallsStep ==
  ASSUME Inv, NEW k \in 1 .. MaxCalls, AnswerCalls(k)
  PROVE  Inv'
<1>1. /\ msgs' = Append(msgs, Answer(k)) /\ pc = "chat" /\ pc' = "call" /\ batch' = k
      /\ UNCHANGED <<sys, memo, lastUsed, job, pending, notes, saved, trimmed>>
  BY DEF AnswerCalls, disk
<1>2. Answer(k) \in Msg /\ Answer(k).role # "tool" /\ Answer(k).calls = k
  BY NewMessages, HistoryAssumption DEF Answer
<1>3. /\ msgs' \in Seq(Msg) /\ Len(msgs') = Len(msgs) + 1 /\ Len(msgs) \in Nat
      /\ msgs'[Len(msgs')] = Answer(k)
      /\ HasUser(msgs) => HasUser(msgs')
      /\ Owners(msgs', trimmed') /\ SavedInv' /\ MemoInv' /\ NotEmpty'
  BY <1>1, <1>2, Pushed
<1>4. TypeOK'
  <2>1. k \in 0 .. MaxCalls /\ k > 0
    BY HistoryAssumption
  <2>2. msgs' \in Seq(Message)
    BY <1>3, InMessages
  <2> QED BY <1>1, <2>1, <2>2 DEF Inv, TypeOK
<1>5. BatchInv'
  <2>1. /\ Len(msgs') \in 1 .. Len(msgs')
        /\ Len(msgs') - Len(msgs') + k <= msgs'[Len(msgs')].calls
        /\ \A i \in Len(msgs') + 1 .. Len(msgs') : msgs'[i].role = "tool"
    <3>1. Len(msgs') \in Nat \ {0} /\ k \in Int
      BY <1>3, HistoryAssumption
    <3> QED BY <1>2, <1>3, <3>1
  <2> QED BY <1>1, <2>1 DEF BatchInv
<1>6. UserInv' /\ ProbeInv'
  BY <1>1, <1>3 DEF Inv, UserInv, InTurn, ProbeInv
<1> QED BY <1>3, <1>4, <1>5, <1>6 DEF Inv

LEMMA ToolRunsStep ==
  ASSUME Inv, NEW n \in Sizes, NEW m \in 0 .. MaxNotes, ToolRuns(n, m)
  PROVE  Inv'
<1>1. /\ msgs' = Append(msgs, Result(n)) /\ pc = "tool" /\ pc' \in {"top", "call"}
      /\ batch' = batch - 1 /\ notes' = m /\ (pc' = "call" => batch # 1)
      /\ UNCHANGED <<sys, memo, lastUsed, job, pending, saved, trimmed>>
  BY DEF ToolRuns
<1>2. Result(n) \in Msg /\ Result(n).role = "tool"
  BY NewMessages, HistoryAssumption DEF Result
<1>3. msgs \in Seq(Msg) /\ Len(msgs) \in Nat /\ batch \in 1 .. MaxCalls
  BY <1>1, InMessages DEF Inv, TypeOK
<1>4. PICK j \in 1 .. Len(msgs) : /\ Len(msgs) - j + batch <= msgs[j].calls
                                  /\ \A i \in j + 1 .. Len(msgs) : msgs[i].role = "tool"
  BY <1>1 DEF Inv, BatchInv, InBatch
<1> DEFINE t == Append(msgs, Result(n))
<1>5. /\ Len(t) = Len(msgs) + 1 /\ t[Len(msgs) + 1] = Result(n)
      /\ \A i \in 1 .. Len(msgs) : t[i] = msgs[i]
  BY <1>2, <1>3, Appended
<1> HIDE DEF t
<1>6. \A i \in j + 1 .. Len(t) : t[i].role = "tool"
  <2> TAKE i \in j + 1 .. Len(t)
  <2>1. i = Len(msgs) + 1 \/ (i \in j + 1 .. Len(msgs) /\ i \in 1 .. Len(msgs))
    BY <1>3, <1>5
  <2> QED BY <1>2, <1>4, <1>5, <2>1
<1>7. /\ j \in 1 .. Len(t) /\ t[j] = msgs[j] /\ msgs[j].calls \in Int
      /\ Len(t) - j + (batch - 1) <= t[j].calls
  <2>1. msgs[j].calls \in Int
    <3>1. msgs[j] \in Msg
      BY <1>3, ElementOfSeq
    <3> QED BY <3>1, MsgFacts
  <2> QED BY <1>3, <1>4, <1>5, <2>1
<1>8. Owned(t, Len(msgs) + 1)
  <2>1. j \in 1 .. (Len(msgs) + 1) - 1 /\ (Len(msgs) + 1) - j <= t[j].calls
    BY <1>3, <1>5, <1>7
  <2> QED BY <1>5, <1>6, <2>1 DEF Owned
<1>9. /\ msgs' \in Seq(Msg) /\ Owners(msgs', trimmed') /\ SavedInv' /\ MemoInv' /\ NotEmpty'
      /\ HasUser(msgs) => HasUser(msgs')
  BY <1>1, <1>2, <1>8, Pushed DEF t
<1>10. TypeOK'
  <2>1. batch' \in 0 .. MaxCalls /\ (pc' \in {"call", "tool"} => batch' > 0)
    <3>1. batch \in Int /\ batch >= 1 /\ batch <= MaxCalls /\ MaxCalls \in Int
      BY <1>3, HistoryAssumption
    <3> QED BY <1>1, <3>1
  <2>2. msgs' \in Seq(Message)
    BY <1>9, InMessages
  <2> QED BY <1>1, <1>9, <2>1, <2>2 DEF Inv, TypeOK
<1>11. BatchInv'
  <2>1. msgs' = t
    BY <1>1 DEF t
  <2> QED BY <1>1, <1>6, <1>7, <2>1 DEF BatchInv
<1>12. UserInv' /\ ProbeInv'
  BY <1>1, <1>9 DEF Inv, UserInv, InTurn, ProbeInv
<1> QED BY <1>9, <1>10, <1>11, <1>12 DEF Inv

-----------------------------------------------------------------------------
(* Steps that leave the history as it is. *)

LEMMA SameHistory ==
  ASSUME Inv, UNCHANGED <<msgs, trimmed, saved>>
  PROVE  /\ msgs' \in Seq(Msg) /\ msgs' \in Seq(Message) /\ Owners(msgs', trimmed') /\ SavedInv'
         /\ HasUser(msgs) => HasUser(msgs')
BY DEF Inv, TypeOK, SavedInv

LEMMA MeasureStep ==
  ASSUME Inv, Measure
  PROVE  Inv'
<1>1. /\ UNCHANGED <<sys, msgs, lastUsed, batch, pending, notes, saved, trimmed>>
      /\ memo' = Estimate(sys, msgs)
      /\ \/ pc = "top" /\ pc' = "compact" /\ job' = [job EXCEPT !.after = "chat"]
         \/ pc = "call" /\ pc' = "compact" /\ job' = [job EXCEPT !.after = "batch"]
         \/ pc = "top" /\ pc' = "chat" /\ job' = job
         \/ pc = "call" /\ pc' = "tool" /\ job' = job
  BY DEF Measure, disk
<1>2. MemoInv' /\ ProbeInv' /\ memo'.tokens \in Nat
  BY <1>1, MemoMeasured
<1>3. /\ msgs' \in Seq(Msg) /\ msgs' \in Seq(Message) /\ Owners(msgs', trimmed') /\ SavedInv'
      /\ HasUser(msgs) => HasUser(msgs')
  BY <1>1, SameHistory
<1>4. TypeOK'
  BY <1>1, <1>2, <1>3 DEF Inv, TypeOK
<1>5. BatchInv'
  <2>1. pc = "top" /\ pc' = "compact" => job'.after = "chat"
    BY <1>1 DEF Inv, TypeOK
  <2>2. InBatch' => InBatch
    BY <1>1, <2>1 DEF InBatch
  <2> QED BY <1>1, <2>2 DEF Inv, BatchInv
<1>6. UserInv' /\ NotEmpty'
  BY <1>1, <1>3 DEF Inv, UserInv, InTurn, NotEmpty
<1> QED BY <1>2, <1>3, <1>4, <1>5, <1>6 DEF Inv

LEMMA WarmMeasureStep ==
  ASSUME Inv, WarmMeasure
  PROVE  Inv'
<1>1. /\ pc = "warm" /\ UNCHANGED <<sys, msgs, lastUsed, batch, pending, notes, saved, trimmed>>
      /\ memo' = Estimate(sys, msgs) /\ pc' \in {"compact", "idle"}
      /\ job' = [FirstJob EXCEPT !.after = "idle"]
  BY DEF WarmMeasure, disk
<1>2. MemoInv' /\ ProbeInv' /\ memo'.tokens \in Nat
  BY <1>1, MemoMeasured
<1>3. /\ msgs' \in Seq(Msg) /\ msgs' \in Seq(Message) /\ Owners(msgs', trimmed') /\ SavedInv'
  BY <1>1, SameHistory
<1>4. job' \in Jobs /\ job'.after = "idle"
  BY <1>1, FirstJobIsOne DEF FirstJob
<1>5. TypeOK'
  BY <1>1, <1>2, <1>3, <1>4 DEF Inv, TypeOK, Jobs
<1>6. BatchInv' /\ UserInv' /\ NotEmpty'
  BY <1>1, <1>4 DEF Inv, NotEmpty, BatchInv, InBatch, UserInv, InTurn
<1> QED BY <1>2, <1>3, <1>5, <1>6 DEF Inv

LEMMA OverflowsStep ==
  ASSUME Inv, Overflows
  PROVE  Inv'
<1>1. /\ UNCHANGED <<sys, msgs, lastUsed, batch, pending, notes, saved, trimmed>> /\ pc = "chat"
      /\ \/ pc' = "warm" /\ UNCHANGED <<job, memo>>
         \/ /\ pc' = "compact" /\ memo' = Estimate(sys, msgs) /\ job.tries # MaxOverflow
            /\ job' = [job EXCEPT !.after = "overflow", !.tries = @ + 1,
                                  !.before = Estimate(sys, msgs).tokens]
  BY DEF Overflows, disk
<1>2. /\ msgs' \in Seq(Msg) /\ msgs' \in Seq(Message) /\ Owners(msgs', trimmed') /\ SavedInv'
      /\ HasUser(msgs) => HasUser(msgs')
  BY <1>1, SameHistory
<1>3. MemoInv' /\ ProbeInv' /\ memo'.tokens \in Nat
  <2>1. CASE memo' = memo
    BY <1>1, <2>1, EstimateFacts DEF Inv, TypeOK, MemoInv, MemoIsCurrent, ProbeInv
  <2>2. CASE memo' = Estimate(sys, msgs)
    BY <1>1, <2>2, MemoMeasured
  <2> QED BY <1>1, <2>1, <2>2
<1>4. job' \in Jobs /\ (pc' = "compact" => job'.after = "overflow")
  <2>1. job \in Jobs /\ MaxOverflow \in Nat /\ Estimate(sys, msgs).tokens \in Nat
    BY HistoryAssumption, EstimateFacts DEF Inv, TypeOK, Jobs
  <2>2. job.tries # MaxOverflow => job.tries + 1 \in 0 .. MaxOverflow
    BY <2>1 DEF Jobs
  <2> QED BY <1>1, <2>1, <2>2 DEF Jobs
<1>5. TypeOK'
  BY <1>1, <1>2, <1>3, <1>4 DEF Inv, TypeOK, Jobs
<1>6. BatchInv' /\ UserInv' /\ NotEmpty'
  BY <1>1, <1>2, <1>4 DEF Inv, BatchInv, InBatch, UserInv, InTurn, NotEmpty
<1> QED BY <1>2, <1>3, <1>5, <1>6 DEF Inv

LEMMA StopsStep ==
  ASSUME Inv, Stops
  PROVE  Inv'
<1>1. /\ pc # "idle" /\ UNCHANGED <<sys, msgs, memo, lastUsed, pending, notes, saved, trimmed>>
      /\ batch' = 0 /\ pc' = "warm" /\ job' = FirstJob
  BY DEF Stops, disk
<1>2. /\ msgs' \in Seq(Msg) /\ msgs' \in Seq(Message) /\ Owners(msgs', trimmed') /\ SavedInv'
  BY <1>1, SameHistory
<1>3. MemoInv'
  BY <1>1 DEF Inv, MemoInv, MemoIsCurrent
<1>4. job' \in Jobs
  BY <1>1, FirstJobIsOne
<1>5. TypeOK'
  BY <1>1, <1>2, <1>4, HistoryAssumption DEF Inv, TypeOK, Jobs
<1>6. BatchInv' /\ UserInv' /\ NotEmpty' /\ ProbeInv'
  BY <1>1 DEF Inv, BatchInv, InBatch, UserInv, InTurn, NotEmpty, ProbeInv
<1> QED BY <1>2, <1>3, <1>5, <1>6 DEF Inv

LEMMA ManualStep ==
  ASSUME Inv, Manual
  PROVE  Inv'
<1>1. /\ pc = "idle" /\ msgs # <<>>
      /\ UNCHANGED <<sys, msgs, memo, lastUsed, batch, pending, notes, saved, trimmed>>
      /\ pc' = "compact" /\ job' = [FirstJob EXCEPT !.after = "idle"]
  BY DEF Manual, disk
<1>2. /\ msgs' \in Seq(Msg) /\ msgs' \in Seq(Message) /\ Owners(msgs', trimmed') /\ SavedInv'
  BY <1>1, SameHistory
<1>3. MemoInv'
  BY <1>1 DEF Inv, MemoInv, MemoIsCurrent
<1>4. job' \in Jobs /\ job'.after = "idle"
  BY <1>1, FirstJobIsOne DEF FirstJob
<1>5. TypeOK'
  BY <1>1, <1>2, <1>4 DEF Inv, TypeOK, Jobs
<1>6. BatchInv' /\ UserInv' /\ NotEmpty' /\ ProbeInv'
  BY <1>1, <1>4 DEF Inv, BatchInv, InBatch, UserInv, InTurn, NotEmpty, ProbeInv
<1> QED BY <1>2, <1>3, <1>5, <1>6 DEF Inv

LEMMA SnapshotStep ==
  ASSUME Inv, Snapshot
  PROVE  Inv'
<1> DEFINE cut == Len(msgs) - MaxSnapshot + 2
           old == [sys |-> sys, lost |-> trimmed \/ 1 + Len(msgs) > MaxSnapshot,
                   msgs |-> IF 1 + Len(msgs) <= MaxSnapshot THEN msgs ELSE From(msgs, cut)]
<1>1. /\ UNCHANGED <<sys, msgs, memo, lastUsed, pc, batch, job, pending, notes, trimmed>>
      /\ saved' = {old}
  BY DEF Snapshot, turn
<1>2. /\ msgs \in Seq(Msg) /\ Len(msgs) \in Nat /\ trimmed \in BOOLEAN
      /\ Owners(msgs, trimmed) /\ sys \in Sys
  BY InMessages DEF Inv, TypeOK, Sys
<1>3. old.sys \in Sys /\ old.lost \in BOOLEAN
  BY <1>2
<1>4. old.msgs \in Seq(Msg) /\ Owners(old.msgs, old.lost)
  <2>0. MaxSnapshot \in Nat /\ MaxSnapshot # 0
    BY HistoryAssumption
  <2>1. CASE 1 + Len(msgs) <= MaxSnapshot
    <3>1. old.msgs = msgs /\ (old.lost <=> trimmed)
      BY <1>2, <2>0, <2>1
    <3> HIDE DEF old
    <3> QED BY <1>2, <3>1 DEF Owners
  <2>2. CASE ~(1 + Len(msgs) <= MaxSnapshot)
    <3>1. cut \in 1 .. Len(msgs) + 1
      BY <1>2, <2>0, <2>2
    <3>2. old.msgs = From(msgs, cut) /\ old.lost
      <4>1. 1 + Len(msgs) > MaxSnapshot
        BY <1>2, <2>0, <2>2
      <4> QED BY <2>2, <4>1, Zenon
    <3> HIDE DEF cut
    <3>3. From(msgs, cut) \in Seq(Msg) /\ Owners(From(msgs, cut), TRUE)
      BY <1>2, <3>1, Suffix, OwnersOfSuffix
    <3> HIDE DEF old
    <3> QED BY <3>2, <3>3 DEF Owners
  <2> QED BY <2>1, <2>2
<1> HIDE DEF old
<1>5. SavedInv'
  BY <1>1, <1>3, <1>4 DEF SavedInv
<1>6. MemoInv'
  BY <1>1 DEF Inv, MemoInv, MemoIsCurrent
<1>7. TypeOK'
  BY <1>1 DEF Inv, TypeOK
<1>8. BatchInv' /\ UserInv' /\ NotEmpty' /\ ProbeInv' /\ msgs' \in Seq(Msg) /\ Owners(msgs', trimmed')
  BY <1>1 DEF Inv, BatchInv, InBatch, UserInv, InTurn, NotEmpty, ProbeInv
<1> QED BY <1>5, <1>6, <1>7, <1>8 DEF Inv

-----------------------------------------------------------------------------
(* The start, and the restarts. *)

LEMMA EmptyHistory ==
  /\ <<>> \in Seq(Msg) /\ Owners(<<>>, FALSE) /\ Prompt \in Sys
  /\ Key(<<>>) # Key(Probe)
<1>1. <<>> \in Seq(Msg) /\ Owners(<<>>, FALSE) /\ Prompt \in Sys
  BY EmptySeq, HistoryAssumption DEF Owners, Prompt, Sys
<1> QED BY <1>1, ProbeFacts DEF Key

LEMMA InitStep == Init => Inv
<1> SUFFICES ASSUME Init PROVE Inv
  OBVIOUS
<1>1. /\ sys = Prompt /\ msgs = <<>> /\ memo = NoMemo /\ lastUsed = {}
      /\ pc = "idle" /\ batch = 0 /\ job = FirstJob
      /\ pending = FALSE /\ notes = 0 /\ saved = {} /\ trimmed = FALSE
  BY DEF Init
<1>2. msgs \in Seq(Msg) /\ msgs \in Seq(Message) /\ Owners(msgs, trimmed) /\ sys \in Sys
  BY <1>1, EmptyHistory, InMessages
<1>3. TypeOK
  <2>1. memo.tokens \in Nat /\ job \in Jobs /\ batch \in 0 .. MaxCalls /\ notes \in 0 .. MaxNotes
    BY <1>1, FirstJobIsOne, ZeroIsIn DEF NoMemo
  <2> QED BY <1>1, <1>2, <2>1 DEF TypeOK, Sys, Jobs
<1>4. MemoInv
  <2>1. memo.key # Key(msgs)
    BY <1>1, <1>2, KeyFacts
  <2>2. memo.key[1] = 0 /\ Len(msgs) \in Nat
    BY <1>1, <1>2, InMessages DEF NoMemo
  <2> QED BY <2>1, <2>2 DEF MemoInv, MemoIsCurrent
<1>5. BatchInv /\ UserInv /\ SavedInv /\ NotEmpty /\ ProbeInv
  BY <1>1, EmptyHistory DEF BatchInv, InBatch, UserInv, InTurn, SavedInv, NotEmpty, ProbeInv
<1> QED BY <1>2, <1>3, <1>4, <1>5 DEF Inv

\* Whether what is on disk stays or goes.
LEMMA StartsOverStep ==
  ASSUME Inv, StartsOver,
         UNCHANGED disk \/ (pending' = FALSE /\ notes' = 0 /\ saved' = {})
  PROVE  Inv'
<1>1. /\ sys' = Prompt /\ msgs' = <<>> /\ memo' = NoMemo /\ lastUsed' = {}
      /\ pc' = "idle" /\ batch' = 0 /\ job' = FirstJob /\ trimmed' = FALSE
  BY DEF StartsOver
<1>2. msgs' \in Seq(Msg) /\ msgs' \in Seq(Message) /\ Owners(msgs', trimmed') /\ sys' \in Sys
  BY <1>1, EmptyHistory, InMessages
<1>3. MemoInv' /\ memo'.tokens \in Nat
  BY <1>1, <1>2, MemoEmpty
<1>4. TypeOK'
  <2>1. job' \in Jobs /\ batch' \in 0 .. MaxCalls
    BY <1>1, FirstJobIsOne, ZeroIsIn
  <2>2. notes' \in 0 .. MaxNotes /\ pending' \in BOOLEAN
    BY ZeroIsIn DEF Inv, TypeOK, disk
  <2> QED BY <1>1, <1>2, <1>3, <2>1, <2>2 DEF TypeOK, Sys, Jobs
<1>5. BatchInv' /\ UserInv' /\ NotEmpty' /\ ProbeInv'
  BY <1>1, EmptyHistory DEF BatchInv, InBatch, UserInv, InTurn, NotEmpty, ProbeInv
<1>6. SavedInv'
  BY DEF Inv, SavedInv, disk
<1> QED BY <1>2, <1>3, <1>4, <1>5, <1>6 DEF Inv

LEMMA RestartAndResumeStep ==
  ASSUME Inv, RestartAndResume
  PROVE  Inv'
<1> DEFINE none == [sys |-> Prompt, msgs |-> <<>>, lost |-> FALSE]
<1>1. PICK old \in IF saved = {} THEN {none} ELSE saved :
        /\ sys' = old.sys /\ msgs' = Resumes(old.msgs) /\ trimmed' = old.lost
        /\ memo' = NoMemo /\ lastUsed' = {}
        /\ pc' = "top" /\ batch' = 0 /\ job' = FirstJob /\ pending' = FALSE
        /\ UNCHANGED <<notes, saved>>
  BY DEF RestartAndResume
<1>2. old.sys \in Sys /\ old.lost \in BOOLEAN /\ old.msgs \in Seq(Msg) /\ Owners(old.msgs, old.lost)
  <2>1. CASE saved = {}
    <3>1. old = none
      BY <1>1, <2>1
    <3>2. old.sys = Prompt /\ old.msgs = <<>> /\ old.lost = FALSE
      BY <3>1
    <3> QED BY <3>2, EmptyHistory
  <2>2. CASE saved # {}
    <3>1. old \in saved
      BY <1>1, <2>2
    <3> QED BY <3>1 DEF Inv, SavedInv
  <2> QED BY <2>1, <2>2
<1> HIDE DEF none
<1>3. /\ msgs' \in Seq(Msg) /\ msgs' # <<>> /\ Owners(msgs', trimmed') /\ HasUser(msgs')
  BY <1>1, <1>2, ResumesFacts
<1>4. msgs' \in Seq(Message)
  BY <1>3, InMessages
<1>5. MemoInv' /\ memo'.tokens \in Nat
  BY <1>1, <1>3, MemoEmpty
<1>6. TypeOK'
  <2>1. job' \in Jobs /\ batch' \in 0 .. MaxCalls /\ sys' \in Sys /\ trimmed' \in BOOLEAN
    BY <1>1, <1>2, FirstJobIsOne, ZeroIsIn
  <2> QED BY <1>1, <1>4, <1>5, <2>1 DEF Inv, TypeOK, Sys, Jobs
<1>7. BatchInv' /\ UserInv' /\ SavedInv' /\ NotEmpty' /\ ProbeInv'
  BY <1>1, <1>3 DEF Inv, BatchInv, InBatch, UserInv, SavedInv, NotEmpty, ProbeInv
<1> QED BY <1>3, <1>5, <1>6, <1>7 DEF Inv

-----------------------------------------------------------------------------
(* The compaction. *)

\* Whatever the caller, the turn goes on with the same kind of job and outside a batch.
LEMMA AfterOverflowFacts ==
  ASSUME Inv, NEW after, AfterOverflow(after)
  PROVE  pc' \in {"top", "warm"} /\ job' \in Jobs
<1>1. job \in Jobs /\ Halvings \in Nat
  BY HistoryAssumption DEF Inv, TypeOK, Jobs
<1>2. /\ pc' \in {"top", "warm"}
      /\ \/ job' = [job EXCEPT !.before = 0]
         \/ /\ job.halved < Halvings
            /\ job' = [job EXCEPT !.before = 0, !.halved = @ + 1]
  BY <1>1 DEF AfterOverflow
<1>3. job.halved < Halvings => job.halved + 1 \in 0 .. Halvings
  BY <1>1 DEF Jobs
<1>4. CASE job' = [job EXCEPT !.before = 0]
  BY <1>1, <1>2, <1>4 DEF Jobs
<1>5. CASE job.halved < Halvings /\ job' = [job EXCEPT !.before = 0, !.halved = @ + 1]
  BY <1>1, <1>2, <1>3, <1>5 DEF Jobs
<1> QED BY <1>2, <1>4, <1>5

\* The callers, after a compaction that left the history s.
LEMMA CallersGoOn ==
  ASSUME Inv, pc = "compact", NEW s \in Seq(Msg), HasUser(s), NEW after,
         CASE job.after = "batch" -> AfterBatch(s)
           [] job.after = "overflow" ->
                AfterOverflow(after) /\ msgs' = s /\ pending' = TRUE /\ UNCHANGED batch
           [] OTHER -> pc' = job.after /\ msgs' = s /\ pending' = TRUE /\ UNCHANGED <<job, batch>>
  PROVE  /\ msgs' = s \/ (msgs' = Resumes(s) /\ pc' = "top")
         /\ pc' \in {"chat", "idle", "top", "warm"} /\ job' \in Jobs
         /\ batch' \in 0 .. MaxCalls /\ pending' \in BOOLEAN
<1>1. job \in Jobs /\ batch \in 0 .. MaxCalls /\ 0 \in 0 .. MaxCalls
  BY HistoryAssumption DEF Inv, TypeOK, Jobs
<1>2. CASE job.after = "batch"
  <2>1. AfterBatch(s)
    BY <1>2
  <2> QED BY <1>1, <2>1 DEF AfterBatch
<1>3. CASE job.after = "overflow"
  <2>1. AfterOverflow(after) /\ msgs' = s /\ pending' = TRUE /\ UNCHANGED batch
    BY <1>3
  <2> QED BY <1>1, <2>1, AfterOverflowFacts
<1>4. CASE job.after \notin {"batch", "overflow"}
  <2>1. pc' = job.after /\ msgs' = s /\ pending' = TRUE /\ UNCHANGED <<job, batch>>
    BY <1>4
  <2>2. job.after \in {"chat", "idle"}
    BY <1>1, <1>4 DEF Jobs
  <2> QED BY <1>1, <2>1, <2>2
<1> QED BY <1>2, <1>3, <1>4

LEMMA CompactedStep ==
  ASSUME Inv, NEW n \in 0 .. SummaryMax, Compacted(n)
  PROVE  Inv'
<1> DEFINE tail == KeptTail(IF job.after = "overflow" THEN job.halved ELSE 0)
<1>1. /\ pc = "compact"
      /\ sys' = [Composed(n) EXCEPT !.notes = @ + notes]
      /\ memo' = Measured(Composed(n), tail)
      /\ lastUsed' = {Tokens(Composed(n), tail)} /\ trimmed' = FALSE
      /\ UNCHANGED <<notes, saved>>
  BY DEF Compacted
<1>2. (CASE job.after = "batch" -> AfterBatch(tail)
         [] job.after = "overflow" ->
              AfterOverflow(memo'.tokens) /\ msgs' = tail /\ pending' = TRUE /\ UNCHANGED batch
         [] OTHER -> pc' = job.after /\ msgs' = tail /\ pending' = TRUE /\ UNCHANGED <<job, batch>>)
  BY DEF Compacted
<1>3. /\ tail \in Seq(Msg) /\ tail # <<>> /\ Owners(tail, FALSE) /\ HasUser(tail)
  BY KeptTailFacts DEF Inv, TypeOK
<1> HIDE DEF tail
<1>4. /\ msgs' = tail \/ (msgs' = Resumes(tail) /\ pc' = "top")
      /\ pc' \in {"chat", "idle", "top", "warm"} /\ job' \in Jobs
      /\ batch' \in 0 .. MaxCalls /\ pending' \in BOOLEAN
  BY <1>1, <1>2, <1>3, CallersGoOn
<1>5. /\ Resumes(tail) \in Seq(Msg) /\ Resumes(tail) # <<>> /\ Owners(Resumes(tail), FALSE) /\ HasUser(Resumes(tail))
      /\ Resumes(tail) = tail \/ Len(Resumes(tail)) = Len(tail) + 1
  BY <1>3, ResumesFacts
<1>6. /\ msgs' \in Seq(Msg) /\ msgs' # <<>> /\ Owners(msgs', FALSE) /\ HasUser(msgs')
      /\ msgs' = tail \/ Len(msgs') = Len(tail) + 1
  BY <1>3, <1>4, <1>5
<1>7. msgs' \in Seq(Message) /\ Len(tail) \in Nat /\ Total(tail) \in Nat
  BY <1>3, <1>6, InMessages
<1>8. /\ Composed(n).size = n /\ Composed(n).notes = 0 /\ n \in Nat /\ notes \in Nat
      /\ sys'.size = n /\ sys'.notes = notes /\ sys' \in Sys
  <2>1. n \in Nat /\ notes \in 0 .. MaxNotes /\ notes \in Nat
    BY SummaryMaxIsNumber, HistoryAssumption DEF Inv, TypeOK
  <2>0. n \in 0 .. SummaryCap
    BY SummaryMaxIsNumber DEF Inv, TypeOK
  <2>2. sys' = [summaries |-> 1, size |-> n, notes |-> notes]
    BY <1>1, <2>1 DEF Composed
  <2> QED BY <2>0, <2>1, <2>2 DEF Composed, Sys
<1>9. Tokens(Composed(n), tail) \in Nat
  BY <1>3, <1>8, TokensIsNumber
<1>10. MemoInv' /\ memo'.tokens \in Nat
  <2>1. memo'.key = Key(tail) /\ memo'.tokens = Tokens(Composed(n), tail)
    BY <1>1 DEF Measured
  <2>2. Key(tail)[1] = 1 + Len(tail) /\ Key(msgs')[1] = 1 + Len(msgs')
    BY <1>3, <1>6, KeyFacts
  <2>3. memo'.key[1] \in 0 .. 1 + Len(msgs')
    BY <1>6, <1>7, <2>1, <2>2
  <2>4. memo'.key = Key(msgs') => memo'.tokens = Tokens(sys', msgs') - sys'.notes
    <3>1. CASE msgs' = tail
      <4>1. Overhead \in Nat
        BY HistoryAssumption
      <4> QED BY <1>7, <1>8, <2>1, <3>1, <4>1 DEF Tokens
    <3>2. CASE Len(msgs') = Len(tail) + 1
      BY <1>7, <2>1, <2>2, <3>2
    <3> QED BY <1>6, <3>1, <3>2
  <2>5. MemoIsCurrent'
    BY <2>4 DEF MemoIsCurrent
  <2> QED BY <1>9, <2>1, <2>3, <2>5 DEF MemoInv
<1>11. TypeOK'
  BY <1>1, <1>4, <1>7, <1>8, <1>9, <1>10 DEF Inv, TypeOK, Sys, Jobs
<1>12. BatchInv' /\ UserInv' /\ SavedInv' /\ NotEmpty'
  BY <1>1, <1>4, <1>6 DEF Inv, BatchInv, InBatch, UserInv, SavedInv, NotEmpty
<1>13. ProbeInv'
  BY <1>1, <1>4 DEF ProbeInv, Measured
<1> QED BY <1>1, <1>6, <1>10, <1>11, <1>12, <1>13 DEF Inv

\* A compaction of the user's own fails with the turn over: there may be no message of the user.
LEMMA FailedGoOn ==
  ASSUME Inv, CompactionFails
  PROVE  /\ msgs' = msgs \/ msgs' = Resumes(msgs)
         /\ pc' \in {"chat", "idle", "top", "warm"} /\ job' \in Jobs
         /\ batch' \in 0 .. MaxCalls /\ pending' \in BOOLEAN
         /\ HasUser(msgs') \/ pc' = "idle"
<1>1. /\ pc = "compact" /\ job \in Jobs /\ batch \in 0 .. MaxCalls /\ 0 \in 0 .. MaxCalls
      /\ msgs \in Seq(Msg) /\ Owners(msgs, trimmed) /\ trimmed \in BOOLEAN
      /\ job.after # "idle" => HasUser(msgs)
  BY ZeroIsIn DEF CompactionFails, Inv, TypeOK, Jobs, UserInv, InTurn
<1>2. CASE job.after = "batch"
  <2>1. AfterBatch(msgs)
    BY <1>2 DEF CompactionFails
  <2>2. HasUser(Resumes(msgs))
    BY <1>1, ResumesFacts
  <2> QED BY <1>1, <2>1, <2>2 DEF AfterBatch
<1>3. CASE job.after = "overflow"
  <2>1. AfterOverflow(memo'.tokens) /\ pending' = TRUE /\ UNCHANGED <<msgs, batch>>
    BY <1>3 DEF CompactionFails
  <2>2. pc' \in {"top", "warm"} /\ job' \in Jobs
    BY <2>1, AfterOverflowFacts
  <2> QED BY <1>1, <1>3, <2>1, <2>2
<1>4. CASE job.after \notin {"batch", "overflow"}
  <2>1. pc' = job.after /\ pending' = TRUE /\ UNCHANGED <<msgs, job, batch>>
    BY <1>4 DEF CompactionFails
  <2>2. job.after \in {"chat", "idle"}
    BY <1>1, <1>4 DEF Jobs
  <2> QED BY <1>1, <2>1, <2>2
<1> QED BY <1>2, <1>3, <1>4

LEMMA CompactionFailsStep ==
  ASSUME Inv, CompactionFails
  PROVE  Inv'
<1>1. /\ UNCHANGED <<sys, lastUsed, notes, saved, trimmed>>
      /\ msgs \in Seq(Msg) /\ Owners(msgs, trimmed) /\ trimmed \in BOOLEAN
      /\ memo' = ProbeMemo \/ (job.after = "overflow" /\ memo' = Measured(sys, msgs))
  BY DEF CompactionFails, Inv, TypeOK
<1>2. /\ msgs' = msgs \/ msgs' = Resumes(msgs)
      /\ pc' \in {"chat", "idle", "top", "warm"} /\ job' \in Jobs
      /\ batch' \in 0 .. MaxCalls /\ pending' \in BOOLEAN
      /\ HasUser(msgs') \/ pc' = "idle"
      /\ pc = "compact"
  BY FailedGoOn DEF CompactionFails
<1>3. msgs' \in Seq(Msg) /\ Owners(msgs', trimmed')
  BY <1>1, <1>2, ResumesFacts
<1>4. msgs' \in Seq(Message)
  BY <1>3, InMessages
<1>5. MemoInv' /\ ProbeInv' /\ memo'.tokens \in Nat
  <2>1. CASE memo' = ProbeMemo
    <3>1. MemoInv' /\ memo'.tokens \in Nat /\ memo'.key = Key(Probe)
      BY <1>1, <1>2, <2>1, MemoProbed
    <3> QED BY <3>1 DEF ProbeInv
  <2>2. CASE job.after = "overflow" /\ memo' = Measured(sys, msgs)
    <3>1. msgs' = msgs
      BY <2>2 DEF CompactionFails
    <3>2. memo'.key = Key(msgs') /\ memo'.tokens = Tokens(sys', msgs')
      BY <1>1, <2>2, <3>1 DEF Measured
    <3>3. Key(msgs')[1] = 1 + Len(msgs') /\ Len(msgs') \in Nat
      BY <1>3, KeyFacts, InMessages
    <3>4. Tokens(sys, msgs) \in Nat
      BY EstimateFacts
    <3>5. MemoIsCurrent'
      BY <3>2 DEF MemoIsCurrent
    <3>6. memo'.key[1] \in 0 .. 1 + Len(msgs')
      BY <3>2, <3>3
    <3>7. ProbeInv'
      BY <3>2 DEF ProbeInv
    <3> QED BY <1>1, <3>1, <3>2, <3>4, <3>5, <3>6, <3>7 DEF MemoInv
  <2> QED BY <1>1, <2>1, <2>2
<1>6. TypeOK'
  BY <1>1, <1>2, <1>4, <1>5 DEF Inv, TypeOK, Jobs
<1>7. BatchInv' /\ UserInv' /\ SavedInv' /\ NotEmpty'
  BY <1>1, <1>2, <1>3, EmptySeq DEF Inv, BatchInv, InBatch, UserInv, InTurn, SavedInv, NotEmpty, HasUser
<1> QED BY <1>3, <1>5, <1>6, <1>7 DEF Inv

-----------------------------------------------------------------------------
LEMMA NextStep == Inv /\ [Next]_vars => Inv'
<1> SUFFICES ASSUME Inv, [Next]_vars PROVE Inv'
  OBVIOUS
<1>1. CASE Turn
  <2>1. CASE \E n \in Lengths : Send(n) \/ Queued(n)
    BY <2>1, SendStep, QueuedStep
  <2>2. CASE Measure \/ WarmMeasure \/ Overflows \/ Stops
    BY <2>2, MeasureStep, WarmMeasureStep, OverflowsStep, StopsStep
  <2>3. CASE \E clears \in BOOLEAN : AnswerText(clears)
    BY <2>3, AnswerTextStep
  <2>4. CASE \E k \in 1 .. MaxCalls : AnswerCalls(k)
    BY <2>4, AnswerCallsStep
  <2>5. CASE \E n \in Sizes, m \in 0 .. MaxNotes : ToolRuns(n, m)
    BY <2>5, ToolRunsStep
  <2> QED BY <1>1, <2>1, <2>2, <2>3, <2>4, <2>5 DEF Turn
<1>2. CASE \E n \in 0 .. SummaryMax : Compacted(n)
  BY <1>2, CompactedStep
<1>3. CASE CompactionFails \/ Manual \/ Snapshot
  BY <1>3, CompactionFailsStep, ManualStep, SnapshotStep
<1>4. CASE Restart \/ RestartAfresh \/ RestartAndResume
  BY <1>4, StartsOverStep, RestartAndResumeStep DEF Restart, RestartAfresh
<1>5. CASE UNCHANGED vars
  <2>1. UNCHANGED <<sys, msgs, memo, lastUsed, pc, batch, job, pending, notes, saved, trimmed>>
    BY <1>5 DEF vars
  <2>2. TypeOK' /\ msgs' \in Seq(Msg) /\ Owners(msgs', trimmed') /\ SavedInv'
    BY <2>1 DEF Inv, TypeOK, SavedInv
  <2>3. BatchInv' /\ UserInv' /\ MemoInv' /\ NotEmpty' /\ ProbeInv'
    BY <2>1 DEF Inv, BatchInv, InBatch, UserInv, InTurn, MemoInv, MemoIsCurrent, NotEmpty, ProbeInv
  <2> QED BY <2>2, <2>3 DEF Inv
<1> QED BY <1>1, <1>2, <1>3, <1>4, <1>5 DEF Next

\* The inductive invariant, in every state of the history.
THEOREM Invariance == Spec => []Inv
BY InitStep, NextStep, PTL DEF Spec

\* Every tool result follows the call that asked for it, however often, wherever and after
\* whatever restart the history was cut; and what is sent holds a message of the user.
THEOREM HistoryCorrect == Spec => []HistoryInv
<1>1. Inv => HistoryInv
  <2> SUFFICES ASSUME Inv PROVE HistoryInv
    OBVIOUS
  <2>1. TypeOK /\ Owners(msgs, trimmed)
    BY DEF Inv
  <2>2. ResultsHaveOwners
    <3> SUFFICES ASSUME NEW i \in Orphans
                 PROVE  trimmed /\ \A j \in 1 .. i : msgs[j].role = "tool"
      BY DEF ResultsHaveOwners
    <3>1. i \in 1 .. Len(msgs) /\ msgs[i].role = "tool" /\ ~Owned(msgs, i)
      BY DEF Orphans, Owned
    <3> QED BY <2>1, <3>1 DEF Owners
  <2>3. RequestsHaveUser
    BY DEF Inv, UserInv, InTurn, HasUser, RequestsHaveUser
  <2> QED BY <2>1, <2>2, <2>3 DEF HistoryInv
<1> QED BY <1>1, Invariance, PTL

\* The token count the triggers are compared with is the history's own, less at most the notes.
\* No conversation is taken for another by the memo's key, and none for the budget's probe,
\* although a history of one message of one character has the probe's key.
THEOREM MemoIsCurrentCorrect == Spec => []MemoIsCurrent
<1>1. Inv => MemoIsCurrent
  BY DEF Inv, MemoInv
<1> QED BY <1>1, Invariance, PTL

\* What was the newest message is the newest of the tail, or the one before a resume prompt.
LEMMA LastStays ==
  ASSUME NEW s \in Seq(Msg), s # <<>>, NEW lost \in BOOLEAN, Owners(s, lost),
         NEW t, t = s \/ t = Resumes(s)
  PROVE  Last(s) \in {t[i] : i \in Larger(1, Len(t) - 1) .. Len(t)}
<1>1. Len(s) \in Nat \ {0} /\ Last(s) = s[Len(s)]
  BY LastIsIn
<1>2. t = s \/ t = Append(s, Resuming)
  BY ResumesFacts
<1>3. CASE t = s
  <2>1. Len(t) \in Larger(1, Len(t) - 1) .. Len(t)
    BY <1>1, <1>3 DEF Larger
  <2> QED BY <1>1, <1>3, <2>1
<1>4. CASE t = Append(s, Resuming)
  <2>1. Len(t) = Len(s) + 1 /\ \A i \in 1 .. Len(s) : t[i] = s[i]
    BY <1>4, NewMessages, Appended
  <2>2. Len(s) \in Larger(1, Len(t) - 1) .. Len(t) /\ t[Len(s)] = s[Len(s)]
    BY <1>1, <2>1 DEF Larger
  <2> QED BY <1>1, <2>2
<1> QED BY <1>2, <1>3, <1>4

\* A compaction keeps the newest message, wherever the budget cuts, unless it is a result
\* nothing asked for.
THEOREM NewestSurvivesCorrect == Spec => NewestSurvives
<1> DEFINE Kept == pc = "compact" /\ lastUsed' # {} /\ msgs # <<>> /\ Len(msgs) \notin Orphans
                     => Last(msgs) \in {msgs'[i] : i \in Larger(1, Len(msgs') - 1) .. Len(msgs')}
<1>1. ASSUME Inv, [Next]_vars PROVE [Kept]_vars
  <2> SUFFICES ASSUME Next, pc = "compact", lastUsed' # {}, msgs # <<>>, Len(msgs) \notin Orphans
               PROVE  Last(msgs) \in {msgs'[i] : i \in Larger(1, Len(msgs') - 1) .. Len(msgs')}
    BY <1>1
  <2>1. msgs \in Seq(Msg) /\ Owners(msgs, trimmed) /\ trimmed \in BOOLEAN
    BY <1>1 DEF Inv, TypeOK
  <2>2. CASE \E n \in 0 .. SummaryMax : Compacted(n)
    <3> DEFINE tail == KeptTail(IF job.after = "overflow" THEN job.halved ELSE 0)
    <3>1. /\ tail \in Seq(Msg) /\ tail # <<>> /\ Owners(tail, FALSE) /\ HasUser(tail)
          /\ Last(tail) = Last(msgs)
      <4>1. ASSUME NEW h
            PROVE  /\ KeptTail(h) \in Seq(Msg) /\ KeptTail(h) # <<>>
                   /\ Owners(KeptTail(h), FALSE) /\ HasUser(KeptTail(h))
                   /\ msgs # <<>> /\ Len(msgs) \notin Orphans => Last(KeptTail(h)) = Last(msgs)
        BY <2>1, KeptTailFacts
      <4>2. ASSUME NEW h PROVE Last(KeptTail(h)) = Last(msgs)
        BY <1>1, <4>1
      <4> QED BY <4>1, <4>2
    <3>2. PICK n \in 0 .. SummaryMax : Compacted(n)
      BY <2>2
    <3>3. (CASE job.after = "batch" -> AfterBatch(tail)
             [] job.after = "overflow" ->
                  AfterOverflow(memo'.tokens) /\ msgs' = tail /\ pending' = TRUE /\ UNCHANGED batch
             [] OTHER -> pc' = job.after /\ msgs' = tail /\ pending' = TRUE
                         /\ UNCHANGED <<job, batch>>)
      BY <3>2 DEF Compacted
    <3> HIDE DEF tail
    <3>4. msgs' = tail \/ msgs' = Resumes(tail)
      BY <1>1, <3>1, <3>3, CallersGoOn
    <3> QED BY <3>1, <3>4, LastStays
  <2>3. CASE CompactionFails
    BY <1>1, <2>1, <2>3, FailedGoOn, LastStays
  <2>4. CASE Turn
    BY <2>4 DEF Turn, Send, Queued, Measure, WarmMeasure, AnswerText, AnswerCalls, ToolRuns,
                Overflows, Stops
  <2>5. CASE Manual \/ Snapshot
    BY <2>5 DEF Manual, Snapshot
  <2>6. CASE Restart \/ RestartAfresh \/ RestartAndResume
    BY <2>6 DEF Restart, RestartAfresh, StartsOver, RestartAndResume
  <2> QED BY <2>2, <2>3, <2>4, <2>5, <2>6 DEF Next
<1> QED BY <1>1, Invariance, PTL DEF Spec, NewestSurvives

\* Between two automatic compactions of one turn there is growth of the real count, not only of
\* the memo's, unless the first one did not get below the trigger.
THEOREM CompactionsNeedGrowthCorrect == Spec => CompactionsNeedGrowth
<1> DEFINE Grown == pc' = "compact" /\ pc \in {"top", "call"}
                      => \A last \in lastUsed :
                           last >= Trigger \/ Tokens(sys, msgs) >= last + MinGrowth
<1>1. ASSUME Inv, [Next]_vars PROVE [Grown]_vars
  <2> SUFFICES ASSUME Next, pc' = "compact", pc \in {"top", "call"}, NEW last \in lastUsed,
                      ~(last >= Trigger)
               PROVE  Tokens(sys, msgs) >= last + MinGrowth
    BY <1>1
  <2>1. Measure
    <3>1. ~(\E n \in 0 .. SummaryMax : Compacted(n)) /\ ~CompactionFails
      BY DEF Compacted, CompactionFails
    <3>2. ~Manual /\ ~Snapshot /\ ~Restart /\ ~RestartAfresh /\ ~RestartAndResume
      BY DEF Manual, Snapshot, Restart, RestartAfresh, StartsOver, RestartAndResume
    <3>3. ~(\E n \in Lengths : Send(n) \/ Queued(n)) /\ ~WarmMeasure /\ ~Overflows /\ ~Stops
      BY DEF Send, Queued, WarmMeasure, Overflows, Stops
    <3>4. /\ ~(\E clears \in BOOLEAN : AnswerText(clears))
          /\ ~(\E k \in 1 .. MaxCalls : AnswerCalls(k))
          /\ ~(\E n \in Sizes, m \in 0 .. MaxNotes : ToolRuns(n, m))
      BY DEF AnswerText, AnswerCalls, ToolRuns
    <3> QED BY <3>1, <3>2, <3>3, <3>4 DEF Next, Turn
  <2> DEFINE used == Estimate(sys, msgs).tokens
  <2>2. ~Guarded(used)
    BY <2>1 DEF Measure
  <2>3. used \in Nat /\ Tokens(sys, msgs) \in Nat /\ used <= Tokens(sys, msgs)
    BY <1>1, EstimateFacts
  <2>4. last \in Nat /\ Trigger \in Nat /\ MinGrowth \in Nat
    BY <1>1, HistoryAssumption DEF Inv, TypeOK
  <2> HIDE DEF used
  <2>5. ~(used < last + MinGrowth)
    BY <2>2, <2>4 DEF Guarded
  <2> QED BY <2>3, <2>4, <2>5
<1> QED BY <1>1, Invariance, PTL DEF Spec, CompactionsNeedGrowth

(***************************************************************************)
(* The client.                                                             *)
(***************************************************************************)


\* The task awaits an answer exactly while its request is in flight.
TaskInv == asking \in {"summary", "turn"} <=> InFlight("main")
\* A prefill that nobody has stopped is known to the loop, and no task is about to ask.
SlotInv == InFlight("warm") /\ ~Aborted("warm")
             => warmPrefill /\ asking = "nothing" /\ chain # "send"

\* A stream that reached the cap is over.
CapInv == InFlight("main") => deltas < MaxTokens

ClientInv == ClientTypeOK /\ OneController /\ TaskInv /\ SlotInv /\ CapInv /\ BrokenCallIsNoAnswer

USE ConstantsAssumption DEF ConstantsAssumption

LEMMA InitInv == ClientInit => ClientInv
<1>1. ClientInit => ClientTypeOK
  <2>1. ClientInit => deltas \in 0..(MaxTokens + DeltasPerChunk - 1)
    BY DEF ClientInit
  <2>2. ClientInit => phase \in [Requests -> Phases] /\ why \in [Requests -> Reasons]
    BY DEF ClientInit, Requests, Phases, Reasons
  <2> QED
    BY <2>1, <2>2, Zenon DEF ClientInit, ClientTypeOK, Requests, Phases, Reasons, Tasks, Asking,
                                Calls, Outcomes
<1>2. ClientInit => \A r \in Requests : ~InFlight(r)
  BY DEF ClientInit, InFlight
<1>3. ClientInit => OneController /\ TaskInv /\ SlotInv /\ CapInv /\ BrokenCallIsNoAnswer
  BY <1>2 DEF ClientInit, OneController, TaskInv, SlotInv, CapInv, BrokenCallIsNoAnswer, Requests, Answers
<1> QED BY <1>1, <1>3 DEF ClientInv

\* What aborting does to the reasons: they stay reasons, and the other request is left alone.
LEMMA AbortKeepsReasons ==
  ASSUME ClientTypeOK, NEW r \in Requests, NEW reason \in {"user", "timer"}
  PROVE  /\ AbortedFor(r, reason) \in [Requests -> Reasons]
         /\ \A q \in Requests : why[q] # "no" => AbortedFor(r, reason)[q] # "no"
         /\ \A q \in Requests : q # r => AbortedFor(r, reason)[q] = why[q]
         /\ InFlight(r) => AbortedFor(r, reason)[r] # "no"
  BY DEF ClientTypeOK, AbortedFor, Requests, Reasons, InFlight

\* cancel() keeps the reasons typed, and aborts what is in flight.
LEMMA CancelAborts ==
  ASSUME ClientTypeOK, OneController, CancelCurrent
  PROVE  /\ why' \in [Requests -> Reasons]
         /\ \A q \in Requests : why[q] # "no" => why'[q] # "no"
         /\ \A q \in Requests : InFlight(q) => why'[q] # "no"
  BY AbortKeepsReasons DEF CancelCurrent, OneController, ClientTypeOK, Requests, Reasons, InFlight

\* What reports an ending is an outcome, and no answer carries a call cut in its arguments.
LEMMA ReportedIsOutcome ==
  ASSUME NEW how \in Outcomes, NEW cs
  PROVE  /\ Reported(how, cs) \in Outcomes
         /\ Reported(how, cs) \in Answers => cs # "cut"
  BY DEF Reported, Outcomes, Answers

\* The end of the task's request keeps the invariant.
LEMMA AnsweredKeepsInv ==
  ASSUME ClientInv, NEW how \in Outcomes, NEW clears \in BOOLEAN, InFlight("main"),
         UNCHANGED toolCalls, Answered(how, clears)
  PROVE  ClientInv'
<1>1. outcome' \in Outcomes /\ (outcome' \in Answers => toolCalls' # "cut")
  BY ReportedIsOutcome DEF Answered
<1>2. ClientTypeOK'
  BY <1>1 DEF ClientInv, ClientTypeOK, Answered, Ended, Requests, Phases, Reasons, Asking
<1>3. ~InFlight("warm")
  BY DEF ClientInv, OneController, Requests
<1>4. OneController' /\ TaskInv' /\ SlotInv' /\ CapInv' /\ BrokenCallIsNoAnswer'
  BY <1>1, <1>3 DEF ClientInv, ClientTypeOK, OneController, TaskInv, SlotInv, CapInv, BrokenCallIsNoAnswer, Answered,
                    Ended, InFlight, Aborted, Requests
<1> QED BY <1>2, <1>4 DEF ClientInv

\* A step that only aborts requests, and leaves the request's ending and the loop alone.
LEMMA AbortingKeepsInv ==
  ASSUME ClientInv, why' \in [Requests -> Reasons],
         \A q \in Requests : why[q] # "no" => why'[q] # "no",
         idleTimedOut' \in BOOLEAN, deadlineHit' \in BOOLEAN,
         UNCHANGED <<chain, asking, warmPrefill, phase, current, deltas, toolCalls, silent, outcome>>
  PROVE  ClientInv'
  BY DEF ClientInv, ClientTypeOK, OneController, TaskInv, SlotInv, CapInv, BrokenCallIsNoAnswer, InFlight, Aborted,
         Requests

\* A step that sends a request of the task while no prefill is running.
LEMMA AskKeepsInv ==
  ASSUME ClientInv, ~InFlight("warm"), NEW what \in {"summary", "turn"}, Ask(what)
  PROVE  ClientInv'
<1>1. /\ phase' \in [Requests -> Phases] /\ why' \in [Requests -> Reasons]
      /\ deltas' \in 0..(MaxTokens + DeltasPerChunk - 1)
  BY DEF ClientInv, ClientTypeOK, Ask, Requests, Phases, Reasons
<1>2. ClientTypeOK'
  BY <1>1, Zenon DEF ClientInv, ClientTypeOK, Ask, Requests, Asking, Calls, Outcomes
<1>3. OneController' /\ TaskInv' /\ SlotInv' /\ CapInv' /\ BrokenCallIsNoAnswer'
  BY DEF ClientInv, ClientTypeOK, OneController, TaskInv, SlotInv, CapInv, BrokenCallIsNoAnswer, Ask, InFlight,
         Aborted, Requests, Answers
<1> QED BY <1>2, <1>3 DEF ClientInv

\* Every step keeps the invariant.
LEMMA NextInv == ClientInv /\ [ClientNext]_clientVars => ClientInv'
<1> SUFFICES ASSUME ClientInv, [ClientNext]_clientVars PROVE ClientInv'
  OBVIOUS
<1>1. CASE Connects
  BY <1>1 DEF ClientInv, ClientTypeOK, OneController, TaskInv, SlotInv, CapInv, BrokenCallIsNoAnswer, Connects, stream,
              InFlight, Aborted, Requests, Phases
<1>2. ASSUME NEW r \in Requests, ConnectTimerFires(r) PROVE ClientInv'
  BY <1>2, AbortKeepsReasons, AbortingKeepsInv DEF ConnectTimerFires, ClientInv, ClientTypeOK, stream
<1>3. CASE ErrorBodyRead
  BY <1>3, AnsweredKeepsInv DEF ErrorBodyRead, InFlight, Outcomes
<1>4. CASE ConnectionBreaks
  BY <1>4, AnsweredKeepsInv DEF ConnectionBreaks, Outcomes
<1>5. CASE Delta
  <2>1. deltas' \in 0..(MaxTokens + DeltasPerChunk - 1) /\ (~Capped(deltas') => deltas' < MaxTokens)
    <3>1. PICK n \in 1..DeltasPerChunk : deltas' = deltas + n
      BY <1>5 DEF Delta
    <3>2. deltas \in Nat /\ deltas < MaxTokens
      BY <1>5 DEF Delta, InFlight, ClientInv, ClientTypeOK, CapInv
    <3> QED BY <3>1, <3>2 DEF Capped
  <2>2. CASE Capped(deltas')
    <3>1. outcome' \in Outcomes /\ (outcome' \in Answers => toolCalls' # "cut")
      BY <1>5, <2>2, ReportedIsOutcome DEF Delta, Outcomes, Answers
    <3>2. ClientTypeOK'
      BY <1>5, <2>1, <2>2, <3>1 DEF Delta, Ended, ClientInv, ClientTypeOK, Requests, Phases, Reasons,
                                  Asking, Calls
    <3>3. ~InFlight("warm") /\ InFlight("main")
      BY <1>5 DEF Delta, ClientInv, OneController, Requests, InFlight
    <3>4. OneController' /\ TaskInv' /\ SlotInv' /\ CapInv' /\ BrokenCallIsNoAnswer'
      BY <1>5, <2>2, <3>1, <3>3 DEF Delta, Ended, ClientInv, ClientTypeOK, OneController, TaskInv, SlotInv, CapInv,
         BrokenCallIsNoAnswer, InFlight, Aborted, Requests
    <3> QED BY <3>2, <3>4 DEF ClientInv
  <2>3. CASE ~Capped(deltas')
    BY <1>5, <2>1, <2>3 DEF Delta, ClientInv, ClientTypeOK, OneController, TaskInv, SlotInv, CapInv,
       BrokenCallIsNoAnswer, InFlight, Aborted, Requests, Calls
  <2> QED BY <2>2, <2>3
<1>6. CASE ErrorChunk
  BY <1>6, AnsweredKeepsInv DEF ErrorChunk, InFlight, Outcomes
<1>7. CASE StreamEnds
  BY <1>7, AnsweredKeepsInv DEF StreamEnds, InFlight, Outcomes, Answers
<1>8. CASE GoesSilent
  BY <1>8 DEF GoesSilent, ClientInv, ClientTypeOK, OneController, TaskInv, SlotInv, CapInv, BrokenCallIsNoAnswer,
              InFlight, Aborted, Requests
<1>9. CASE IdleTimerFires
  BY <1>9, AbortKeepsReasons, AbortingKeepsInv DEF IdleTimerFires, ClientInv, ClientTypeOK, Requests
<1>10. CASE DeadlineFires
  BY <1>10, AbortKeepsReasons, AbortingKeepsInv DEF DeadlineFires, ClientInv, ClientTypeOK, Requests
<1>11. CASE MainRejected
  <2>1. InFlight("main") /\ UNCHANGED toolCalls
    BY <1>11 DEF MainRejected
  <2>2. PICK how \in Outcomes, clears \in BOOLEAN : Answered(how, clears)
    BY <1>11 DEF MainRejected, AbortMeaning, Outcomes, Answers
  <2> QED BY <2>1, <2>2, AnsweredKeepsInv
<1>12. CASE StartWarmPrefill
  <2>1. ~InFlight("main")
    BY <1>12 DEF StartWarmPrefill, CompactReturned, ClientInv, TaskInv
  <2>2. ClientTypeOK'
    BY <1>12 DEF StartWarmPrefill, ClientInv, ClientTypeOK, Requests, Phases, Reasons, Tasks,
                    Asking, stream
  <2>3. OneController' /\ TaskInv' /\ SlotInv' /\ CapInv' /\ BrokenCallIsNoAnswer'
    BY <1>12, <2>1 DEF StartWarmPrefill, ClientInv, ClientTypeOK, OneController, TaskInv, SlotInv, CapInv,
       BrokenCallIsNoAnswer, InFlight, Aborted, Requests, stream
  <2> QED BY <2>2, <2>3 DEF ClientInv
<1>13. CASE WarmConnects
  BY <1>13 DEF WarmConnects, ClientInv, ClientTypeOK, OneController, TaskInv, SlotInv, CapInv, BrokenCallIsNoAnswer,
               InFlight, Aborted, Requests, Phases, stream
<1>14. CASE WarmEnds
  <2>1. ~InFlight("main")
    BY <1>14 DEF WarmEnds, ClientInv, OneController, Requests
  <2>2. ClientTypeOK'
    BY <1>14 DEF WarmEnds, Ended, ClientInv, ClientTypeOK, Requests, Phases, Reasons, stream
  <2>3. OneController' /\ TaskInv' /\ SlotInv' /\ CapInv' /\ BrokenCallIsNoAnswer'
    BY <1>14, <2>1 DEF WarmEnds, Ended, ClientInv, ClientTypeOK, OneController, TaskInv, SlotInv, CapInv,
       BrokenCallIsNoAnswer, InFlight, Aborted, Requests, stream
  <2> QED BY <2>2, <2>3 DEF ClientInv
<1>15. CASE BeginTask
  <2>1. CASE chain' = "send" /\ warmPrefill
    <3>1. why' \in [Requests -> Reasons] /\ (\A q \in Requests : InFlight(q) => why'[q] # "no")
      BY <1>15, <2>1, CancelAborts DEF BeginTask, StopWarmPrefill, ClientInv
    <3> QED BY <1>15, <2>1, <3>1 DEF BeginTask, StopWarmPrefill, ClientInv, ClientTypeOK, OneController,
               TaskInv, SlotInv, CapInv, BrokenCallIsNoAnswer, InFlight, Aborted, Requests, Tasks, stream,
               Outcomes, Answers
  <2>2. CASE ~(chain' = "send" /\ warmPrefill)
    BY <1>15, <2>2, ZenonT(40) DEF BeginTask, StopWarmPrefill, ClientInv, ClientTypeOK, OneController, TaskInv, SlotInv, CapInv,
       BrokenCallIsNoAnswer, InFlight, Aborted, Requests, Tasks, stream, Outcomes, Answers
  <2> QED BY <2>1, <2>2
<1>16. CASE Compact
  <2>1. CASE warmPrefill
    <3>1. why' \in [Requests -> Reasons] /\ (\A q \in Requests : InFlight(q) => why'[q] # "no")
      BY <1>16, <2>1, CancelAborts DEF Compact, StopWarmPrefill, ClientInv
    <3> QED BY <1>16, <2>1, <3>1 DEF Compact, StopWarmPrefill, ClientInv, ClientTypeOK, OneController, TaskInv,
               SlotInv, CapInv, BrokenCallIsNoAnswer, InFlight, Aborted, Requests, Asking, stream
  <2>2. CASE ~warmPrefill
    BY <1>16, <2>2 DEF Compact, StopWarmPrefill, ClientInv, ClientTypeOK, OneController, TaskInv, SlotInv, CapInv,
       BrokenCallIsNoAnswer, InFlight, Aborted, Requests, Asking, stream
  <2> QED BY <2>1, <2>2
<1>17. CASE AskSummary
  <2>1. ~InFlight("warm")
    BY <1>17 DEF AskSummary, ClientInv, SlotInv
  <2> QED BY <1>17, <2>1, AskKeepsInv DEF AskSummary
<1>18. CASE AskTurn
  <2>1. ~InFlight("warm")
    BY <1>18 DEF AskTurn, ClientInv, SlotInv
  <2> QED BY <1>18, <2>1, AskKeepsInv DEF AskTurn
<1>19. CASE EndTask
  BY <1>19 DEF EndTask, client, stream, ClientInv, ClientTypeOK, OneController, TaskInv, SlotInv,
               CapInv, BrokenCallIsNoAnswer, InFlight, Aborted, Requests, Tasks, Asking
<1>20. CASE Cancel
  BY <1>20, CancelAborts, AbortingKeepsInv DEF Cancel, ClientInv, ClientTypeOK, stream
<1>21. CASE UNCHANGED clientVars
  BY <1>21 DEF clientVars, client, stream, ClientInv, ClientTypeOK, OneController, TaskInv, SlotInv,
               CapInv, BrokenCallIsNoAnswer, InFlight, Aborted
<1> QED
  BY <1>1, <1>2, <1>3, <1>4, <1>5, <1>6, <1>7, <1>8, <1>9, <1>10, <1>11, <1>12, <1>13, <1>14,
     <1>15, <1>16, <1>17, <1>18, <1>19, <1>20, <1>21 DEF ClientNext

THEOREM ClientInvariance == ClientSpec => []ClientInv
  BY InitInv, NextInv, PTL DEF ClientSpec

\* Every variable keeps its type, and the client-side cap holds, whatever max_tokens is.
THEOREM TypeCorrect == ClientSpec => []ClientTypeOK
<1>1. ClientInv => ClientTypeOK
  BY DEF ClientInv
<1> QED BY <1>1, ClientInvariance, PTL

\* The one controller field serves two clients: what is in flight is what cancel() reaches.
THEOREM OneControllerCorrect == ClientSpec => []OneController
<1>1. ClientInv => OneController
  BY DEF ClientInv
<1> QED BY <1>1, ClientInvariance, PTL

\* The prefill and a request of the chain are never in flight together.
THEOREM NeverBoth == ClientSpec => [](~(InFlight("main") /\ InFlight("warm")))
<1>1. OneController => ~(InFlight("main") /\ InFlight("warm"))
  BY DEF OneController, Requests
<1> QED BY <1>1, OneControllerCorrect, PTL

\* No tool call whose arguments broke off once they had begun enters the history.
THEOREM BrokenCallCorrect == ClientSpec => []BrokenCallIsNoAnswer
<1>1. ClientInv => BrokenCallIsNoAnswer
  BY DEF ClientInv
<1> QED BY <1>1, ClientInvariance, PTL

\* A cancelled request is not reported as one that timed out.
THEOREM CancelIsReportedCorrect == ClientSpec => CancelIsReported
<1> DEFINE Said == InFlight("main") /\ ~InFlight("main")' /\ why["main"] = "user"
                     => outcome' \notin {"timeout", "idle"}
<1>1. ASSUME ClientInv, [ClientNext]_clientVars PROVE [Said]_clientVars
  <2> SUFFICES ASSUME ClientNext, InFlight("main"), ~InFlight("main")', why["main"] = "user"
               PROVE  outcome' \notin {"timeout", "idle"}
    BY <1>1
  <2>1. asking \in {"summary", "turn"}
    BY <1>1 DEF ClientInv, TaskInv
  <2>2. CASE Delta
    BY <2>2 DEF Delta, Reported, Answers, InFlight
  <2>3. CASE ErrorChunk
    BY <2>3 DEF ErrorChunk, Answered, Reported, Answers
  <2>4. CASE MainRejected
    BY <2>4 DEF MainRejected, Answered, Reported, AbortMeaning, Answers
  <2>5. CASE EndTask \/ Cancel
    BY <2>5 DEF EndTask, Cancel, client, InFlight
  <2>6. CASE Connects \/ (\E r \in Requests : ConnectTimerFires(r)) \/ GoesSilent
             \/ IdleTimerFires \/ DeadlineFires
    BY <1>1, <2>6 DEF Connects, ConnectTimerFires, GoesSilent, IdleTimerFires, DeadlineFires,
                      InFlight, Aborted, ClientInv, ClientTypeOK, Requests
  <2>7. CASE StartWarmPrefill \/ WarmConnects \/ WarmEnds \/ BeginTask \/ Compact
    BY <1>1, <2>1, <2>7 DEF StartWarmPrefill, WarmConnects, WarmEnds, Ended, BeginTask, Compact,
                      InFlight, ClientInv, ClientTypeOK, Requests
  <2>8. CASE AskSummary \/ AskTurn
    BY <2>1, <2>8 DEF AskSummary, AskTurn
  <2>9. CASE ErrorBodyRead \/ ConnectionBreaks \/ StreamEnds
    BY <2>9 DEF ErrorBodyRead, ConnectionBreaks, StreamEnds, Aborted
  <2> QED BY <2>2, <2>3, <2>4, <2>5, <2>6, <2>7, <2>8, <2>9 DEF ClientNext
<1> QED BY <1>1, ClientInvariance, PTL DEF ClientSpec, CancelIsReported
=============================================================================
