--------------------------- MODULE SessionProofs ---------------------------
(***************************************************************************)
(* Session implements ScreenLock: the screen is unlocked by the answer to  *)
(* the right password only.  The argument has two parts.  Whatever was     *)
(* submitted, what the unlocker is given is a part of one password, as the *)
(* zeros are in the pipe with the passwords.  As long as no password fills *)
(* the buffer it is the last one as a whole, as nothing else is left in    *)
(* the pipes.                                                              *)
(***************************************************************************)
EXTENDS Session, ListFacts, TLAPS

Quiet == {"reading", "stuck", "gone"}

BufferOK == input_buffer \in Seq(Byte) /\ Len(input_buffer) < BufferSize

(* A password does not go over a zero: the right one was submitted, or a   *)
(* longer one, if it is found anywhere in the pipe, is given to the        *)
(* unlocker, or was accepted.                                              *)
EndsInZero(bytes) == bytes # <<>> => bytes[Len(bytes)] = Zero
PipesOK ==
    /\ question \in Seq(Byte \cup {Zero}) /\ EndsInZero(question)
    /\ question # <<>> /\ Password \in SubSeqs(question) => entered
    /\ unlocker = "checking" /\ given = Password => entered
    /\ answer \in Seq(BOOLEAN)
    /\ \A i \in 1 .. Len(answer) : answer[i] => entered

(* The password that was submitted is on its way to the unlocker, is being *)
(* checked, is answered, or is lost with the unlocker.                     *)
InTheQuestion ==
    /\ answer = <<>> /\ unlocker \in {"reading", "stuck"}
    /\ \E w \in Seq(Byte) :
          /\ question = Append(w, Zero) /\ Len(w) + 1 < BufferSize
          /\ w = Password => granted
InTheUnlocker ==
    /\ answer = <<>> /\ question = <<>> /\ unlocker = "checking"
    /\ given = Password => granted
InTheAnswer ==
    /\ question = <<>> /\ Len(answer) = 1 /\ unlocker \in Quiet \cup {"exiting"}
    /\ Head(answer) => granted
    /\ unlocker = "exiting" => Head(answer)
Lost == answer = <<>> /\ question = <<>> /\ unlocker = "gone"

AskedOK ==
    waiting = "answer" /\ filled = 0 =>
        InTheQuestion \/ InTheUnlocker \/ InTheAnswer \/ Lost

IdleOK ==
    mode = "lock" /\ waiting = "nothing" /\ filled = 0 =>
        question = <<>> /\ answer = <<>> /\ unlocker \in Quiet

WaitOK ==
    /\ mode \in {"normal", "lock"} /\ waiting \in {"nothing", "answer", "exit"}
    /\ granted \in BOOLEAN /\ filled \in Nat
    /\ granted => entered
    /\ waiting # "nothing" => mode = "lock"
    /\ waiting = "exit" => entered /\ (filled = 0 => granted)

Inv == BufferOK /\ PipesOK /\ WaitOK /\ IdleOK /\ AskedOK

(* The timer, the flag and the mode: what OutputsAgree needs to last.      *)
DarkOK ==
    /\ OutputsAgree
    /\ outputs_disabled \in BOOLEAN
    /\ waiting # "nothing" => ~outputs_disabled
    /\ disable_outputs = "armed" => mode = "lock"

-----------------------------------------------------------------------------
(* Strings                                                                 *)

(* The string that was written is the one that is read (check_password()). *)
LEMMA StringOfWord ==
    ASSUME NEW w \in Seq(Byte)
    PROVE  String(Append(w, Zero)) = w /\ String(w) = w
<1> DEFINE q == Append(w, Zero)
<1>1. /\ q \in Seq(Byte \cup {Zero}) /\ Len(q) = Len(w) + 1 /\ q[Len(w) + 1] = Zero
      /\ \A i \in 1 .. Len(w) : q[i] = w[i] /\ w[i] \in Byte
      /\ Len(w) \in Nat
  OBVIOUS
<1>2. \A i \in 1 .. Len(w) : q[i] # Zero /\ w[i] # Zero
  BY <1>1, CharAssumption
<1>3. \A i \in 1 .. Len(q) :
        (q[i] = Zero /\ \A j \in 1 .. i - 1 : q[j] # Zero) <=> i = Len(w) + 1
  BY <1>1, <1>2
<1>4. (CHOOSE i \in 1 .. Len(q) : q[i] = Zero /\ \A j \in 1 .. i - 1 : q[j] # Zero)
        = Len(w) + 1
  BY <1>1, <1>3
<1>5. Contains(q, Zero) /\ ~Contains(w, Zero)
  BY <1>1, <1>2 DEF Contains
<1>6. SubSeq(q, 1, Len(w)) = w
  BY <1>1
<1>7. String(w) = w
  BY <1>5, Zenon DEF String
<1>8. String(q) = SubSeq(q, 1, (Len(w) + 1) - 1)
  <2>1. String(q) = SubSeq(q, 1, (CHOOSE i \in 1 .. Len(q) :
                        q[i] = Zero /\ \A j \in 1 .. i - 1 : q[j] # Zero) - 1)
    BY <1>5, Zenon DEF String
  <2> QED
    BY <2>1, <1>4, Zenon
<1>9. (Len(w) + 1) - 1 = Len(w)
  BY <1>1
<1> QED
  BY <1>6, <1>7, <1>8, <1>9

LEMMA FrontOfBytes ==
    ASSUME NEW s \in Seq(Byte), s # <<>>
    PROVE  Front(s) \in Seq(Byte) /\ Len(Front(s)) = Len(s) - 1
<1> DEFINE n == Len(s) - 1
<1>1. n \in Nat /\ n < Len(s)
  OBVIOUS
<1> HIDE DEF n
<1>2. \A i \in 1 .. n : s[i] \in Byte
  BY <1>1
<1>3. SubSeq(s, 1, n) \in Seq(Byte) /\ Len(SubSeq(s, 1, n)) = n
  BY <1>1, <1>2
<1> QED
  BY <1>3 DEF Front, n

LEMMA TailOfOne ==
    ASSUME NEW S, NEW s \in Seq(S), Len(s) = 1
    PROVE  Tail(s) = <<>> /\ s # <<>> /\ Head(s) = s[1]
<1>1. Tail(s) \in Seq(S) /\ Len(Tail(s)) = 0 /\ Head(s) = s[1] /\ s # <<>>
  OBVIOUS
<1>2. \A t \in Seq(S) : Len(t) = 0 => t = <<>>
  OBVIOUS
<1> QED
  BY <1>1, <1>2

LEMMA Cuts ==
    ASSUME NEW s, NEW x
    PROVE  x \in SubSeqs(s) <=>
               \E i \in 0 .. Len(s), j \in 0 .. Len(s) : x = SubSeq(s, i + 1, j)
BY SMT DEF SubSeqs

LEMMA CutIsPart ==
    ASSUME NEW s, NEW i \in 0 .. Len(s), NEW j \in 0 .. Len(s)
    PROVE  SubSeq(s, i + 1, j) \in SubSeqs(s)
BY Cuts, Zenon

(* A string that is read is a part of what was in the pipe.                *)
LEMMA StringIsPart ==
    ASSUME NEW S, NEW s \in Seq(S), NEW n \in 0 .. Len(s)
    PROVE  String(SubSeq(s, 1, n)) \in SubSeqs(s)
<1> DEFINE c == SubSeq(s, 1, n)
<1>1. /\ c \in Seq(S) /\ Len(c) = n /\ Len(s) \in Nat /\ n \in Nat
      /\ \A i \in 1 .. n : c[i] = s[i]
  OBVIOUS
<1>2. ASSUME NEW k \in 0 .. n
      PROVE  SubSeq(c, 1, k) \in SubSeqs(s)
  <2>1. SubSeq(c, 1, k) = SubSeq(s, 0 + 1, k)
    BY <1>1
  <2>2. 0 \in 0 .. Len(s) /\ k \in 0 .. Len(s)
    BY <1>1
  <2> QED
    BY <2>1, <2>2, CutIsPart, Zenon
<1>3. CASE ~Contains(c, Zero)
  <2>1. String(c) = c
    BY <1>3, Zenon DEF String
  <2>2. SubSeq(c, 1, n) = c /\ n \in 0 .. n
    BY <1>1
  <2> QED
    BY <1>2, <2>1, <2>2
<1>4. CASE Contains(c, Zero)
  <2> DEFINE u == {i \in 1 .. n : c[i] = Zero}
             First(i) == c[i] = Zero /\ \A j \in 1 .. i - 1 : c[j] # Zero
             k == CHOOSE i \in 1 .. Len(c) : First(i)
  <2>1. u # {} /\ u \in SUBSET (1 .. n)
    BY <1>1, <1>4 DEF Contains
  <2>2. PICK i \in u : \A j \in u : i <= j
    BY <1>1, <2>1, LeastNumber, u \subseteq Nat
  <2>3. i \in 1 .. Len(c) /\ First(i)
    BY <1>1, <2>2
  <2>4. k \in 1 .. Len(c)
    BY <2>3
  <2>5. String(c) = SubSeq(c, 1, k - 1)
    BY <1>4, Zenon DEF String
  <2>6. k - 1 \in 0 .. n
    <3> HIDE DEF k
    <3> QED
      BY <2>4, <1>1
  <2> QED
    BY <1>2, <2>5, <2>6
<1> QED
  BY <1>3, <1>4

(* What is left in the pipe is a part of what was there.                   *)
LEMMA RestIsPart ==
    ASSUME NEW S, NEW s \in Seq(S), NEW n \in 0 .. Len(s)
    PROVE  LET d == SubSeq(s, n + 1, Len(s))
           IN  /\ SubSeqs(d) \subseteq SubSeqs(s) /\ d \in Seq(S)
               /\ d # <<>> => d[Len(d)] = s[Len(s)]
<1> DEFINE d == SubSeq(s, n + 1, Len(s))
<1>1. /\ d \in Seq(S) /\ Len(d) = Len(s) - n /\ Len(s) \in Nat /\ n \in Nat
      /\ \A i \in 1 .. Len(d) : d[i] = s[n + i]
  OBVIOUS
<1>5. d # <<>> => d[Len(d)] = s[Len(s)]
  <2> SUFFICES ASSUME d # <<>>
               PROVE  d[Len(d)] = s[Len(s)]
    OBVIOUS
  <2>1. Len(d) # 0
    BY <1>1
  <2>2. Len(d) \in 1 .. Len(d) /\ n + Len(d) = Len(s)
    BY <1>1, <2>1
  <2> HIDE DEF d
  <2> QED
    BY <1>1, <2>2
<1> SUFFICES ASSUME NEW x \in SubSeqs(d)
             PROVE  x \in SubSeqs(s)
  BY <1>1, <1>5
<1>4. PICK i \in 0 .. Len(d), j \in 0 .. Len(d) : x = SubSeq(d, i + 1, j)
  BY Cuts, Zenon
<1>2. SubSeq(d, i + 1, j) = SubSeq(s, (n + i) + 1, n + j)
  BY <1>1
<1>3. n + i \in 0 .. Len(s) /\ n + j \in 0 .. Len(s)
  BY <1>1
<1> QED
  BY <1>2, <1>3, <1>4, CutIsPart, Zenon

(* No password goes over the zero between two that were written.           *)
LEMMA PartOfEither ==
    ASSUME NEW q \in Seq(Byte \cup {Zero}), EndsInZero(q), NEW w \in Seq(Byte),
           Password \in SubSeqs(q \o Append(w, Zero))
    PROVE  (q # <<>> /\ Password \in SubSeqs(q)) \/ Password \in SubSeqs(w)
<1> DEFINE t == q \o Append(w, Zero)
           m == Len(q)
           l == Len(w)
<1>1. /\ m \in Nat /\ l \in Nat /\ Len(t) = m + l + 1 /\ t[m + l + 1] = Zero
      /\ t \in Seq(Byte \cup {Zero})
      /\ \A x \in 1 .. m : t[x] = q[x]
      /\ \A x \in 1 .. l : t[m + x] = w[x]
  OBVIOUS
<1>2. PICK i \in 0 .. Len(t), j \in 0 .. Len(t) : Password = SubSeq(t, i + 1, j)
  BY Cuts, Zenon
<1> HIDE DEF t
<1>3. Zero \notin Byte /\ Password \in Seq(Byte)
  BY CharAssumption
<1>4. CASE j <= i
  <2>1. Password = <<>>
    BY <1>1, <1>2, <1>4
  <2>2. SubSeq(w, 0 + 1, 0) = <<>> /\ 0 \in 0 .. Len(w)
    BY <1>1
  <2> QED
    BY <2>1, <2>2, CutIsPart, Zenon
<1>5. CASE i < j
  <2>1. ASSUME NEW x \in i + 1 .. j
        PROVE  t[x] \in Byte
    <3>1. Len(Password) = j - i /\ x - i \in 1 .. j - i
      BY <1>1, <1>2, <1>5
    <3>2. Password[x - i] = t[x]
      BY <1>1, <1>2, <1>5, <3>1
    <3>3. Password[x - i] \in Byte
      <4>1. Password \in Seq(Byte) /\ x - i \in 1 .. Len(Password)
        BY <1>3, <3>1
      <4> QED
        BY <4>1
    <3> QED
      BY <3>2, <3>3, Zenon
  <2>2. CASE j <= m
    <3>1. SubSeq(q, i + 1, j) = SubSeq(t, i + 1, j)
      BY <1>1, <2>2
    <3>2. i \in 0 .. Len(q) /\ j \in 0 .. Len(q) /\ q # <<>>
      BY <1>1, <1>5, <2>2
    <3> QED
      BY <1>2, <3>1, <3>2, CutIsPart, Zenon
  <2>3. CASE m <= i
    <3>1. j # m + l + 1
      BY <1>1, <1>3, <1>5, <2>1
    <3>2. i - m \in 0 .. Len(w) /\ j - m \in 0 .. Len(w)
      BY <1>1, <1>5, <2>3, <3>1
    <3>3. SubSeq(w, (i - m) + 1, j - m) = SubSeq(t, i + 1, j)
      BY <1>1, <1>5, <2>3, <3>2
    <3> QED
      BY <1>2, <3>2, <3>3, CutIsPart, Zenon
  <2>4. CASE i < m /\ m < j
    <3>1. q # <<>> /\ q[m] = Zero /\ t[m] = q[m]
      BY <1>1, <2>4 DEF EndsInZero
    <3> QED
      BY <1>1, <1>3, <2>1, <2>4, <3>1
  <2> QED
    BY <1>1, <2>2, <2>3, <2>4
<1> QED
  BY <1>1, <1>4, <1>5

LEMMA WholeIsPart ==
    ASSUME NEW S, NEW s \in Seq(S)
    PROVE  s \in SubSeqs(s)
<1>1. SubSeq(s, 0 + 1, Len(s)) = s /\ 0 \in 0 .. Len(s) /\ Len(s) \in 0 .. Len(s)
  OBVIOUS
<1> QED
  BY <1>1, CutIsPart, Zenon

LEMMA BytesOfChar ==
    ASSUME NEW c \in Char
    PROVE  c \in Seq(Byte) /\ Len(c) \in Nat
<1>1. c \in Seq(ToSet(c)) /\ ToSet(c) \subseteq Byte
  BY CharAssumption DEF Byte
<1> QED
  BY <1>1

-----------------------------------------------------------------------------
(* The invariant                                                           *)

LEMMA InvInit == Init => Inv
<1> SUFFICES ASSUME Init
             PROVE  Inv
  OBVIOUS
<1>1. BufferOK
  BY BufferAssumption DEF Init, BufferOK
<1>2. WaitOK
  BY DEF Init, WaitOK
<1>3. IdleOK /\ AskedOK
  BY DEF Init, IdleOK, AskedOK
<1>4. PipesOK
  BY DEF Init, PipesOK, EndsInZero
<1> QED
  BY <1>1, <1>2, <1>3, <1>4 DEF Inv

(* What the lock's invariant speaks of.                                    *)
locked == <<mode, waiting, input_buffer, question, answer, unlocker, given, entry>>

LEMMA InvUnchanged == Inv /\ UNCHANGED locked => Inv'
<1> SUFFICES ASSUME Inv, UNCHANGED locked
             PROVE  Inv'
  OBVIOUS
<1> USE DEF locked, entry
<1>1. BufferOK'
  BY DEF Inv, BufferOK
<1>2. WaitOK' /\ IdleOK'
  BY DEF Inv, WaitOK, IdleOK
<1>3. AskedOK'
  BY DEF Inv, AskedOK, InTheQuestion, InTheUnlocker, InTheAnswer, Lost
<1>4. PipesOK'
  BY DEF Inv, PipesOK, EndsInZero
<1> QED
  BY <1>1, <1>2, <1>3, <1>4 DEF Inv

(* Keys that edit the buffer change nothing else of it.                    *)
LEMMA BufferEdit ==
    ASSUME BufferOK, NEW k \in Control \cup Char, EditKey(k)
    PROVE  BufferOK'
<1> USE DEF BufferOK
<1> <<>> \in Seq(Byte) /\ Len(<<>>) < BufferSize
  BY BufferAssumption
<1>1. CASE ClearPassword
  BY <1>1 DEF ClearPassword
<1>2. CASE DeleteChar
  <2>1. CASE input_buffer # <<>>
    <3>1. input_buffer' = Front(input_buffer)
      BY <1>2, <2>1 DEF DeleteChar
    <3> QED
      BY <3>1, <2>1, FrontOfBytes, BufferAssumption
  <2> QED
    BY <1>2, <2>1 DEF DeleteChar
<1>3. CASE k \in Char /\ PutChar(k)
  <2>1. k \in Seq(Byte) /\ Len(k) \in Nat
    BY <1>3, BytesOfChar
  <2>2. CASE Len(input_buffer) + Len(k) < BufferSize
    <3>1. input_buffer' = input_buffer \o k
      BY <1>3, <2>2 DEF PutChar
    <3>2. input_buffer' \in Seq(Byte) /\ Len(input_buffer') = Len(input_buffer) + Len(k)
      BY <3>1, <2>1
    <3> QED
      BY <3>2, <2>2
  <2> QED
    BY <1>3, <2>2 DEF PutChar
<1> QED
  BY <1>1, <1>2, <1>3 DEF EditKey

LEMMA InvKey == Inv /\ Key => Inv'
<1> SUFFICES ASSUME Inv, NEW k \in Control \cup Char, EditKey(k)
             PROVE  Inv'
  BY DEF Key
<1>1. BufferOK'
  BY BufferEdit DEF Inv
<1>2. UNCHANGED <<mode, waiting, question, answer, unlocker, given, entered, granted, filled>>
  BY DEF EditKey, entry
<1>3. PipesOK'
  BY <1>2 DEF Inv, PipesOK, EndsInZero
<1> QED
  BY <1>1, <1>2, <1>3 DEF Inv, WaitOK, IdleOK, AskedOK, InTheQuestion, InTheUnlocker,
                    InTheAnswer, Lost

LEMMA InvDisable == Inv /\ (DisableKey \/ DisableTimer) => Inv'
<1> SUFFICES ASSUME Inv, DisableOutputs
             PROVE  Inv'
  BY DEF DisableKey, DisableTimer
<1>1. BufferOK'
  BY BufferAssumption DEF DisableOutputs, ClearPassword, BufferOK
<1>2. UNCHANGED <<mode, waiting, question, answer, unlocker, given, entered, granted, filled>>
  BY DEF DisableOutputs, entry
<1>3. PipesOK'
  BY <1>2 DEF Inv, PipesOK, EndsInZero
<1> QED
  BY <1>1, <1>2, <1>3 DEF Inv, WaitOK, IdleOK, AskedOK, InTheQuestion, InTheUnlocker,
                    InTheAnswer, Lost

LEMMA InvLock == Inv /\ Lock => Inv'
<1> SUFFICES ASSUME Inv, Lock
             PROVE  Inv'
  OBVIOUS
<1>1. BufferOK'
  BY BufferAssumption DEF Lock, BufferOK
<1>2. WaitOK' /\ AskedOK'
  BY DEF Inv, WaitOK, AskedOK, Lock, Dispatch
<1>3. IdleOK'
  BY DEF IdleOK, Quiet, Lock
<1>4. PipesOK'
  BY DEF PipesOK, EndsInZero, Lock
<1> QED
  BY <1>1, <1>2, <1>3, <1>4 DEF Inv

(* What is written ends in a zero, after a zero or at the front.           *)
LEMMA PipesSubmit == Inv /\ SubmitPassword => PipesOK'
<1> SUFFICES ASSUME Inv, SubmitPassword
             PROVE  PipesOK'
  OBVIOUS
<1> DEFINE w == input_buffer
           t == question \o Append(w, Zero)
<1>1. w \in Seq(Byte) /\ question \in Seq(Byte \cup {Zero}) /\ EndsInZero(question)
  BY DEF Inv, BufferOK, PipesOK
<1>2. /\ UNCHANGED <<answer, unlocker, given>>
      /\ entered' = (entered \/ Password \in SubSeqs(w))
      /\ question' = IF unlocker = "gone" THEN question ELSE t
  BY DEF SubmitPassword
<1>3. entered => entered'
  BY <1>2
<1>4. answer' \in Seq(BOOLEAN) /\ \A i \in 1 .. Len(answer') : answer'[i] => entered'
  BY <1>2, <1>3 DEF Inv, PipesOK
<1>5. unlocker' = "checking" /\ given' = Password => entered'
  BY <1>2, <1>3 DEF Inv, PipesOK
<1>6. CASE unlocker = "gone"
  <2>1. question' = question
    BY <1>2, <1>6
  <2>2. question' # <<>> /\ Password \in SubSeqs(question') => entered'
    BY <1>3, <2>1 DEF Inv, PipesOK
  <2> QED
    BY <1>1, <1>4, <1>5, <2>1, <2>2 DEF PipesOK, EndsInZero
<1>7. CASE unlocker # "gone"
  <2>1. question' = t
    BY <1>2, <1>7
  <2>2. t \in Seq(Byte \cup {Zero}) /\ t[Len(t)] = Zero
    BY <1>1
  <2>3. Password \in SubSeqs(t) => entered'
    <3>1. SUFFICES ASSUME Password \in SubSeqs(t)
                   PROVE  entered'
      OBVIOUS
    <3>2. (question # <<>> /\ Password \in SubSeqs(question)) \/ Password \in SubSeqs(w)
      BY <1>1, <3>1, PartOfEither
    <3> QED
      BY <1>2, <3>2 DEF Inv, PipesOK
  <2> HIDE DEF t
  <2> QED
    BY <1>4, <1>5, <2>1, <2>2, <2>3 DEF PipesOK, EndsInZero
<1> QED
  BY <1>6, <1>7

(* The pipes are empty when a password is submitted, unless one has filled *)
(* the buffer.                                                             *)
LEMMA InvSubmit == Inv /\ SubmitPassword => Inv'
<1> SUFFICES ASSUME Inv, SubmitPassword
             PROVE  Inv'
  OBVIOUS
<1> DEFINE w == input_buffer
<1>1. BufferOK' /\ PipesOK'
  BY BufferAssumption, PipesSubmit DEF SubmitPassword, BufferOK
<1>2. w \in Seq(Byte) /\ Len(w) < BufferSize /\ Len(w) \in Nat /\ BufferSize \in Nat
  BY BufferAssumption DEF Inv, BufferOK
<1>3. /\ filled' = filled + Fills(w) /\ filled \in Nat /\ Fills(w) \in {0, 1}
      /\ Fills(w) = 0 => Len(w) + 1 < BufferSize
  BY <1>2 DEF SubmitPassword, Inv, WaitOK, Fills
<1>4. /\ granted' = (granted \/ w = Password)
      /\ entered' = (entered \/ Password \in SubSeqs(w))
      /\ waiting' = "answer" /\ mode = "lock" /\ mode' = mode
      /\ waiting = "nothing" /\ unlocker' = unlocker /\ answer' = answer
  BY DEF SubmitPassword, Dispatch
<1>5. w \in SubSeqs(w)
  BY <1>2, WholeIsPart
<1>6. WaitOK'
  BY <1>3, <1>4, <1>5 DEF Inv, WaitOK
<1>7. IdleOK'
  BY <1>4 DEF IdleOK
<1>8. ASSUME filled' = 0
      PROVE  InTheQuestion' \/ Lost'
  <2>1. filled = 0 /\ Fills(w) = 0
    BY <1>3, <1>8
  <2>2. question = <<>> /\ answer' = <<>> /\ unlocker \in Quiet
    BY <1>4, <2>1 DEF Inv, IdleOK
  <2>3. CASE unlocker = "gone"
    BY <1>4, <2>2, <2>3 DEF SubmitPassword, Lost
  <2>4. CASE unlocker # "gone"
    <3>1. question' = <<>> \o Append(w, Zero)
      BY <2>2, <2>4 DEF SubmitPassword
    <3>2. Append(w, Zero) \in Seq(Byte \cup {Zero})
      BY <1>2
    <3>3. question' = Append(w, Zero)
      BY <3>1, <3>2
    <3>4. Len(w) + 1 < BufferSize /\ (w = Password => granted')
      BY <1>3, <1>4, <2>1
    <3> QED
      BY <1>2, <1>4, <2>2, <2>4, <3>3, <3>4 DEF InTheQuestion, Quiet
  <2> QED
    BY <2>3, <2>4
<1>9. AskedOK'
  BY <1>8 DEF AskedOK
<1> QED
  BY <1>1, <1>6, <1>7, <1>9 DEF Inv

LEMMA InvRefused == Inv /\ Refused => Inv'
<1> SUFFICES ASSUME Inv, Refused
             PROVE  Inv'
  OBVIOUS
<1>1. /\ waiting = "answer" /\ waiting' = "nothing"
      /\ UNCHANGED <<mode, input_buffer, question, unlocker, given, entered, granted, filled>>
      /\ \/ answer # <<>> /\ answer' = Tail(answer)
         \/ answer = <<>> /\ answer' = answer
  BY DEF Refused, entry
<1>2. BufferOK' /\ WaitOK' /\ AskedOK'
  BY <1>1 DEF Inv, BufferOK, WaitOK, AskedOK
<1>3. answer' \in Seq(BOOLEAN) /\ \A i \in 1 .. Len(answer') : answer'[i] => entered
  <2>1. answer \in Seq(BOOLEAN) /\ \A i \in 1 .. Len(answer) : answer[i] => entered
    BY DEF Inv, PipesOK
  <2>2. CASE answer # <<>> /\ answer' = Tail(answer)
    <3>1. Tail(answer) \in Seq(BOOLEAN) /\ Len(Tail(answer)) = Len(answer) - 1
      BY <2>1, <2>2
    <3>2. ASSUME NEW i \in 1 .. Len(Tail(answer))
          PROVE  i + 1 \in 1 .. Len(answer) /\ Tail(answer)[i] = answer[i + 1]
      BY <2>1, <2>2, <3>1
    <3> QED
      BY <2>1, <2>2, <3>1, <3>2
  <2> QED
    BY <1>1, <2>1, <2>2
<1>4. PipesOK'
  BY <1>1, <1>3 DEF Inv, PipesOK, EndsInZero
<1>5. IdleOK'
  <2> SUFFICES ASSUME filled = 0
               PROVE  question' = <<>> /\ answer' = <<>> /\ unlocker' \in Quiet
    BY <1>1 DEF IdleOK
  <2>1. CASE InTheAnswer
    <3>1. answer \in Seq(BOOLEAN) /\ Len(answer) = 1
      BY <2>1 DEF InTheAnswer, Inv, PipesOK
    <3>2. Tail(answer) = <<>> /\ answer # <<>>
      BY <3>1, TailOfOne, Zenon
    <3> QED
      BY <1>1, <2>1, <3>2 DEF InTheAnswer, Refused
  <2>2. CASE InTheQuestion \/ InTheUnlocker
    BY <2>2 DEF InTheQuestion, InTheUnlocker, Refused
  <2>3. CASE Lost
    BY <1>1, <2>3 DEF Lost, Quiet
  <2> QED
    BY <1>1, <2>1, <2>2, <2>3 DEF Inv, AskedOK
<1> QED
  BY <1>2, <1>4, <1>5 DEF Inv

LEMMA InvAccepted == Inv /\ Accepted => Inv'
<1> SUFFICES ASSUME Inv, Accepted
             PROVE  Inv'
  OBVIOUS
<1>1. /\ waiting = "answer" /\ waiting' = "exit"
      /\ UNCHANGED <<mode, input_buffer, question, unlocker, given, entered, granted, filled>>
      /\ answer # <<>> /\ Head(answer) /\ answer' = Tail(answer)
  BY DEF Accepted, entry
<1>2. answer \in Seq(BOOLEAN) /\ \A i \in 1 .. Len(answer) : answer[i] => entered
  BY DEF Inv, PipesOK
<1>3. /\ Tail(answer) \in Seq(BOOLEAN) /\ 1 \in 1 .. Len(answer) /\ Head(answer) = answer[1]
  <2>1. answer \in Seq(BOOLEAN) /\ answer # <<>>
    BY <1>1, <1>2
  <2> QED
    BY <2>1
<1>4. entered
  BY <1>1, <1>2, <1>3
<1>5. filled = 0 => granted
  BY <1>1 DEF Inv, AskedOK, InTheQuestion, InTheUnlocker, InTheAnswer, Lost
<1>6. PipesOK'
  BY <1>1, <1>3, <1>4 DEF Inv, PipesOK, EndsInZero
<1> QED
  BY <1>1, <1>4, <1>5, <1>6 DEF Inv, BufferOK, WaitOK, IdleOK, AskedOK

LEMMA InvUnlock == Inv /\ Unlock => Inv'
<1> SUFFICES ASSUME Inv, Unlock
             PROVE  Inv'
  OBVIOUS
<1>1. /\ mode' = "normal" /\ waiting' = "nothing"
      /\ UNCHANGED <<input_buffer, question, answer, unlocker, given, entered, granted, filled>>
  BY DEF Unlock, Cancel, lock, entry
<1>2. PipesOK'
  BY <1>1 DEF Inv, PipesOK, EndsInZero
<1> QED
  BY <1>1, <1>2 DEF Inv, BufferOK, WaitOK, IdleOK, AskedOK

(* What is read is a part of the question, and what is left is one, too.   *)
LEMMA PipesRead == Inv /\ Read => PipesOK'
<1> SUFFICES ASSUME Inv, Read
             PROVE  PipesOK'
  OBVIOUS
<1>1. /\ question \in Seq(Byte \cup {Zero}) /\ EndsInZero(question) /\ question # <<>>
      /\ Password \in SubSeqs(question) => entered
      /\ answer \in Seq(BOOLEAN) /\ \A i \in 1 .. Len(answer) : answer[i] => entered
  BY DEF Inv, PipesOK, Read
<1>2. UNCHANGED <<answer, entered>>
  BY DEF Read, entry
<1> DEFINE n == IF Len(question) < BufferSize THEN Len(question) ELSE BufferSize - 1
           rest == SubSeq(question, n + 1, Len(question))
<1>3. given' = String(SubSeq(question, 1, n)) /\ question' = rest
  BY DEF Read
<1>4. n \in 0 .. Len(question) /\ Len(question) \in Nat
  BY <1>1, BufferAssumption
<1> HIDE DEF n
<1>5. given' = Password => entered'
  BY <1>1, <1>2, <1>3, <1>4, StringIsPart
<1>6. /\ rest \in Seq(Byte \cup {Zero})
      /\ rest # <<>> => rest[Len(rest)] = question[Len(question)]
  BY <1>1, <1>4, RestIsPart
<1>7. SubSeqs(rest) \subseteq SubSeqs(question)
  BY <1>1, <1>4, RestIsPart
<1>8. EndsInZero(rest)
  BY <1>1, <1>6 DEF EndsInZero
<1> HIDE DEF rest
<1>9. question' # <<>> /\ Password \in SubSeqs(question') => entered'
  BY <1>1, <1>2, <1>3, <1>7
<1> QED
  BY <1>1, <1>2, <1>3, <1>5, <1>6, <1>8, <1>9 DEF PipesOK, EndsInZero

(* A password that does not fill the buffer is read with its end.          *)
LEMMA InvRead == Inv /\ Read => Inv'
<1> SUFFICES ASSUME Inv, Read
             PROVE  Inv'
  OBVIOUS
<1>1. UNCHANGED <<mode, waiting, input_buffer, answer, entered, granted, filled>>
  BY DEF Read, entry
<1>2. BufferOK' /\ PipesOK' /\ WaitOK' /\ IdleOK'
  BY <1>1, PipesRead DEF Inv, BufferOK, WaitOK, IdleOK, Read
<1>3. ASSUME InTheQuestion
      PROVE  InTheUnlocker'
  <2>1. PICK w \in Seq(Byte) :
          /\ question = Append(w, Zero) /\ Len(w) + 1 < BufferSize
          /\ w = Password => granted
    BY <1>3 DEF InTheQuestion
  <2>2. Len(question) = Len(w) + 1 /\ Len(w) \in Nat /\ BufferSize \in Nat
    BY <2>1, BufferAssumption
  <2>3. /\ given' = String(SubSeq(question, 1, Len(question)))
        /\ question' = SubSeq(question, Len(question) + 1, Len(question))
        /\ unlocker' = "checking"
    BY <2>1, <2>2 DEF Read
  <2>4. SubSeq(question, 1, Len(question)) = Append(w, Zero)
    BY <2>1
  <2>5. given' = w
    BY <2>3, <2>4, StringOfWord
  <2>6. SubSeq(question, Len(question) + 1, Len(question)) = <<>>
    BY <2>1, <2>2
  <2> QED
    BY <1>1, <1>3, <2>1, <2>3, <2>5, <2>6 DEF InTheQuestion, InTheUnlocker
<1>4. ~InTheUnlocker /\ ~InTheAnswer /\ ~Lost
  BY DEF InTheUnlocker, InTheAnswer, Lost, Read
<1>5. AskedOK'
  BY <1>1, <1>3, <1>4 DEF Inv, AskedOK
<1> QED
  BY <1>2, <1>5 DEF Inv

LEMMA InvCheck == Inv /\ Check => Inv'
<1> SUFFICES ASSUME Inv, Check
             PROVE  Inv'
  OBVIOUS
<1> DEFINE b == given = Password
<1>1. /\ UNCHANGED <<mode, waiting, input_buffer, question, entered, granted, filled>>
      /\ unlocker = "checking" /\ unlocker' = IF b THEN "exiting" ELSE "reading"
      /\ answer' = Append(answer, b) /\ b \in BOOLEAN
  BY DEF Check, entry
<1>2. BufferOK' /\ WaitOK' /\ IdleOK'
  BY <1>1 DEF Inv, BufferOK, WaitOK, IdleOK, Quiet
<1>3. /\ answer \in Seq(BOOLEAN) /\ \A i \in 1 .. Len(answer) : answer[i] => entered
      /\ b => entered
  BY <1>1, Zenon DEF Inv, PipesOK
<1> HIDE DEF b
<1>4. /\ Append(answer, b) \in Seq(BOOLEAN) /\ Len(Append(answer, b)) = Len(answer) + 1
      /\ Len(answer) \in Nat
      /\ \A i \in 1 .. Len(answer) : Append(answer, b)[i] = answer[i]
      /\ Append(answer, b)[Len(answer) + 1] = b
  BY <1>1, <1>3
<1>5. ASSUME NEW i \in 1 .. Len(answer')
      PROVE  answer'[i] => entered'
  <2>1. CASE i = Len(answer) + 1
    BY <1>1, <1>3, <1>4, <2>1, Zenon
  <2>2. CASE i \in 1 .. Len(answer)
    BY <1>1, <1>3, <1>4, <2>2, Zenon
  <2> QED
    BY <1>1, <1>4, <2>1, <2>2
<1>6. answer' \in Seq(BOOLEAN) /\ unlocker' # "checking"
  BY <1>1, <1>4
<1>7. PipesOK'
  BY <1>1, <1>5, <1>6 DEF Inv, PipesOK, EndsInZero
<1>8. ASSUME InTheUnlocker
      PROVE  InTheAnswer'
  <2>1. answer = <<>> /\ question' = <<>>
    BY <1>1, <1>8 DEF InTheUnlocker
  <2>2. answer' = <<b>>
    BY <1>1, <2>1
  <2>3. Len(answer') = 1 /\ Head(answer') = b
    BY <2>2
  <2>4. b => granted'
    BY <1>1, <1>8, Zenon DEF InTheUnlocker, b
  <2>5. unlocker' \in Quiet \cup {"exiting"} /\ (unlocker' = "exiting" => b)
    BY <1>1 DEF Quiet
  <2> QED
    BY <2>1, <2>3, <2>4, <2>5, Zenon DEF InTheAnswer
<1>9. ~InTheQuestion /\ ~InTheAnswer /\ ~Lost
  BY <1>1 DEF InTheQuestion, InTheAnswer, Lost, Quiet
<1>10. AskedOK'
  BY <1>1, <1>8, <1>9 DEF Inv, AskedOK
<1> QED
  BY <1>2, <1>7, <1>10 DEF Inv

LEMMA InvExit == Inv /\ Exit => Inv'
<1> SUFFICES ASSUME Inv, Exit
             PROVE  Inv'
  OBVIOUS
<1>1. /\ UNCHANGED <<mode, waiting, input_buffer, answer, given, entered, granted, filled>>
      /\ unlocker = "exiting" /\ unlocker' = "gone" /\ question' = <<>>
  BY DEF Exit, entry
<1>2. BufferOK' /\ WaitOK' /\ IdleOK'
  BY <1>1 DEF Inv, BufferOK, WaitOK, IdleOK, Quiet
<1>3. PipesOK'
  BY <1>1 DEF Inv, PipesOK, EndsInZero
<1>4. ASSUME InTheAnswer
      PROVE  InTheAnswer'
  <2>1. unlocker' \in Quiet /\ unlocker' # "exiting"
    BY <1>1 DEF Quiet
  <2> QED
    BY <1>1, <1>4, <2>1, Zenon DEF InTheAnswer
<1>5. ~InTheQuestion /\ ~InTheUnlocker /\ ~Lost
  BY <1>1 DEF InTheQuestion, InTheUnlocker, Lost
<1> QED
  BY <1>1, <1>2, <1>3, <1>4, <1>5 DEF Inv, AskedOK

LEMMA InvFault ==
    ASSUME Inv, NEW what \in {"gone", "stuck"}, Fault(what)
    PROVE  Inv'
<1>1. UNCHANGED <<mode, waiting, input_buffer, answer, entered, granted, filled>>
  BY DEF Fault, entry
<1>2. BufferOK' /\ WaitOK' /\ IdleOK'
  BY <1>1 DEF Inv, BufferOK, WaitOK, IdleOK, Fault, Quiet
<1>3. question' \in {question, <<>>} /\ unlocker' \in {"gone", "stuck"}
  BY DEF Fault
<1>4. PipesOK'
  <2>1. CASE question' = question
    BY <1>1, <1>3, <2>1 DEF Inv, PipesOK, EndsInZero
  <2>2. CASE question' = <<>>
    BY <1>1, <1>3, <2>2 DEF Inv, PipesOK, EndsInZero
  <2> QED
    BY <1>3, <2>1, <2>2
<1>5. ASSUME InTheQuestion
      PROVE  InTheQuestion' \/ Lost'
  <2>1. CASE what = "gone"
    BY <1>1, <1>5, <2>1 DEF InTheQuestion, Lost, Fault
  <2>2. CASE what = "stuck"
    <3>1. question' = question /\ unlocker' = "stuck"
      BY <2>2 DEF Fault
    <3> QED
      BY <1>1, <1>5, <3>1 DEF InTheQuestion
  <2> QED
    BY <2>1, <2>2
<1>6. ASSUME InTheUnlocker
      PROVE  Lost'
  BY <1>1, <1>6 DEF InTheUnlocker, Lost, Fault
<1>7. ASSUME InTheAnswer
      PROVE  InTheAnswer'
  <2>1. question' = <<>> /\ unlocker' \in Quiet /\ unlocker' # "exiting"
    BY <1>3, <1>7 DEF InTheAnswer, Quiet
  <2> QED
    BY <1>1, <1>7, <2>1, Zenon DEF InTheAnswer
<1>8. ~Lost
  BY DEF Lost, Fault
<1> QED
  BY <1>1, <1>2, <1>4, <1>5, <1>6, <1>7, <1>8 DEF Inv, AskedOK

(* The steps that have nothing to do with the password.                    *)
Other ==
    \/ ResetState
    \/ \E o \in Output : OutputAdd(o) \/ OutputRemove(o)
    \/ \E on \in SUBSET outputs : ManageOutputs(on)
    \/ \E v \in View : MapView(v) \/ UnmapView(v)
    \/ QuitKey \/ Signal \/ ShutdownTimer \/ Stop

LEMMA OtherSteps == Other => UNCHANGED locked
  BY DEF Other, locked, entry, lock, ResetState, OutputAdd, OutputRemove, ManageOutputs, MapView,
         UnmapView, QuitKey, Signal, Terminate, ShutdownTimer, Stop

LEMMA InvNext == Inv /\ [Next]_vars => Inv'
<1> SUFFICES ASSUME Inv, [Next]_vars
             PROVE  Inv'
  OBVIOUS
<1>1. CASE Lock \/ Key \/ SubmitPassword \/ Refused \/ Accepted \/ Unlock
  BY <1>1, InvLock, InvKey, InvSubmit, InvRefused, InvAccepted, InvUnlock
<1>2. CASE DisableKey \/ DisableTimer
  BY <1>2, InvDisable
<1>3. CASE Unlocker
  BY <1>3, InvRead, InvCheck, InvExit DEF Unlocker
<1>4. CASE \E what \in {"gone", "stuck"} : Fault(what)
  BY <1>4, InvFault
<1>5. CASE Other
  BY <1>5, OtherSteps, InvUnchanged
<1>6. CASE UNCHANGED vars
  BY <1>6, InvUnchanged DEF vars, lock, locked
<1> QED
  BY <1>1, <1>2, <1>3, <1>4, <1>5, <1>6 DEF Next, Other

(* Where the password may be, in every state: lock_mode.c and              *)
(* hikari_unlocker.c together.                                             *)
THEOREM SessionInvariant == Spec => []Inv
  BY InvInit, InvNext, PTL DEF Spec

(* Nothing is left in the pipes while the event loop runs, as long as no   *)
(* password filled the buffer (submit_password(), check_password()).       *)
THEOREM PipesAreEmptied == Spec => []AnswersKeepStep
<1>1. Inv => AnswersKeepStep
  BY DEF Inv, IdleOK, AnswersKeepStep, Quiet
<1> QED
  BY <1>1, SessionInvariant, PTL

-----------------------------------------------------------------------------
(* The refinement                                                          *)

LEMMA PromiseInit == Init => Promise!Init
  BY DEF Init, Promise!Init

LEMMA PromiseStutters ==
    UNCHANGED <<mode, waiting, entered, granted, filled>> => UNCHANGED Promise!vars
  BY DEF Promise!vars

LEMMA PromiseNext == Inv /\ [Next]_vars => [Promise!Next]_Promise!vars
<1> SUFFICES ASSUME Inv, [Next]_vars
             PROVE  [Promise!Next]_Promise!vars
  OBVIOUS
<1> USE DEF Inv, WaitOK
<1>1. CASE Lock
  BY <1>1 DEF Lock, Dispatch, Promise!Next, Promise!Lock
<1>2. CASE SubmitPassword
  <2> DEFINE is == input_buffer = Password
             has == Password \in SubSeqs(input_buffer)
             fits == Fills(input_buffer) = 0
  <2>1. is => has
    BY WholeIsPart DEF BufferOK
  <2>2. /\ mode = "lock" /\ mode' = mode /\ waiting = "nothing" /\ waiting' = "answer"
        /\ granted' = (granted \/ is) /\ entered' = (entered \/ has)
    BY <1>2 DEF SubmitPassword, Dispatch
  <2>3. filled' = filled + Fills(input_buffer) /\ filled \in Nat
    BY <1>2 DEF SubmitPassword
  <2>4. Fills(input_buffer) \in {0, 1}
    BY DEF Fills
  <2>5. (filled' = 0) = (filled = 0 /\ fits)
    BY <2>3, <2>4
  <2>6. is \in BOOLEAN /\ has \in BOOLEAN /\ fits \in BOOLEAN
    OBVIOUS
  <2> HIDE DEF is, has, fits
  <2>7. Promise!Enter(is, has, fits)
    BY <2>1, <2>2, <2>5 DEF Promise!Enter
  <2> QED
    BY <2>6, <2>7, Zenon DEF Promise!Next
<1>3. CASE Refused
  BY <1>3 DEF Refused, entry, Promise!Next, Promise!Refuse
<1>4. CASE Unlock
  BY <1>4 DEF Unlock, Cancel, lock, entry, Promise!Next, Promise!Unlock
<1>5. CASE Accepted
  <2>1. (waiting # "nothing") = (waiting # "nothing")' /\ UNCHANGED <<mode, entered, granted, filled>>
    BY <1>5 DEF Accepted, entry
  <2> QED
    BY <2>1 DEF Promise!vars
<1>6. CASE Key \/ DisableKey \/ DisableTimer
  BY <1>6, PromiseStutters DEF entry, Key, EditKey, DisableKey, DisableTimer, DisableOutputs
<1>7. CASE Unlocker \/ \E what \in {"gone", "stuck"} : Fault(what)
  BY <1>7, PromiseStutters DEF entry, Unlocker, Read, Check, Exit, Fault
<1>8. CASE Other \/ UNCHANGED vars
  BY <1>8, OtherSteps, PromiseStutters DEF entry, locked, vars, lock
<1> QED
  BY <1>1, <1>2, <1>3, <1>4, <1>5, <1>6, <1>7, <1>8 DEF Next, Other

(* The screen is unlocked only by an answer to a password, and only if the *)
(* right one was submitted since the screen was locked, or, once one has   *)
(* filled the buffer, one that the right one is a part of (lock_mode.c).   *)
THEOREM LockKeepsItsPromise == Spec => LockIsSafe
  BY SessionInvariant, PromiseInit, PromiseNext, PTL DEF Spec, LockIsSafe, Promise!Spec

-----------------------------------------------------------------------------
(* The outputs                                                             *)

LEMMA DarkInit == Init => DarkOK
  BY DEF Init, DarkOK, OutputsAgree

LEMMA DarkNext == WaitOK /\ DarkOK /\ [Next]_vars => DarkOK'
<1> SUFFICES ASSUME WaitOK, DarkOK, [Next]_vars
             PROVE  DarkOK'
  OBVIOUS
<1> USE DEF WaitOK, DarkOK, OutputsAgree, Dispatch
<1>1. CASE Lock
  BY <1>1 DEF Lock
<1>2. CASE Key
  BY <1>2 DEF Key, EditKey, EnableOutputs
<1>3. CASE SubmitPassword
  BY <1>3 DEF SubmitPassword, EnableOutputs, Show
<1>4. CASE Refused \/ Accepted
  <2>1. ~outputs_disabled /\ mode = "lock" /\ mode' = mode /\ outputs_disabled' = outputs_disabled
    BY <1>4 DEF Refused, Accepted, screen
  <2>2. waiting' = "nothing" => disable_outputs' = "armed"
    BY <1>4 DEF Refused, Accepted
  <2> QED
    BY <2>1, <2>2
<1>5. CASE Unlock
  BY <1>5 DEF Unlock, Cancel, Show, lock
<1>6. CASE DisableKey \/ DisableTimer
  BY <1>6 DEF DisableKey, DisableTimer, DisableOutputs, ClearPassword, Show
<1>7. CASE Unlocker \/ \E what \in {"gone", "stuck"} : Fault(what)
  BY <1>7 DEF Unlocker, Read, Check, Exit, Fault, screen
<1>8. CASE ResetState
  BY <1>8 DEF ResetState, lock
<1>9. CASE \E o \in Output : OutputAdd(o) \/ OutputRemove(o)
  BY <1>9 DEF OutputAdd, OutputRemove, lock, screen
<1>10. CASE \/ \E on \in SUBSET outputs : ManageOutputs(on)
            \/ \E v \in View : MapView(v) \/ UnmapView(v)
  BY <1>10 DEF ManageOutputs, MapView, UnmapView, lock, screen
<1>11. CASE QuitKey \/ Signal \/ ShutdownTimer \/ Stop
  BY <1>11 DEF QuitKey, Signal, Terminate, ShutdownTimer, Stop, lock, screen
<1>12. CASE UNCHANGED vars
  BY <1>12 DEF vars, lock, screen
<1> QED
  BY <1>1, <1>2, <1>3, <1>4, <1>5, <1>6, <1>7, <1>8, <1>9, <1>10, <1>11, <1>12 DEF Next

LEMMA DarkInvariant == Spec => [](WaitOK /\ DarkOK)
<1>1. Inv => WaitOK
  BY DEF Inv
<1> QED
  BY <1>1, SessionInvariant, DarkInit, DarkNext, PTL DEF Spec

(* The flag, the timer and the buffer agree on whether the outputs are     *)
(* disabled: disable_outputs(), enable_outputs() and cancel().             *)
THEOREM FlagAndTimerAgree == Spec => []OutputsAgree
<1>1. DarkOK => OutputsAgree
  BY DEF DarkOK
<1> QED
  BY <1>1, DarkInvariant, PTL

(* Only a key or the output manager lights up an output that the lock has  *)
(* disabled, one that is plugged included (hikari_output_init()).          *)
THEOREM DarkOutputsStayDark == Spec => StaysDark
<1> DEFINE A == outputs_disabled /\ enabled' \ enabled # {} =>
                  ~outputs_disabled' \/ \E on \in SUBSET outputs : ManageOutputs(on)
<1>1. ASSUME WaitOK, DarkOK, [Next]_vars, outputs_disabled, enabled' \ enabled # {},
             ~ \E on \in SUBSET outputs : ManageOutputs(on)
      PROVE  ~outputs_disabled'
  <2> USE <1>1 DEF WaitOK, DarkOK, OutputsAgree
  <2>1. mode = "lock" /\ waiting = "nothing"
    OBVIOUS
  <2>2. CASE Lock \/ Refused \/ Accepted \/ Unlock
    BY <2>1, <2>2 DEF Lock, Refused, Accepted, Unlock
  <2>3. CASE Key \/ SubmitPassword
    BY <2>3 DEF Key, EditKey, SubmitPassword, EnableOutputs
  <2>4. CASE DisableKey \/ DisableTimer
    BY <2>4 DEF DisableKey, DisableTimer, DisableOutputs
  <2>5. CASE ResetState \/ Unlocker \/ \E what \in {"gone", "stuck"} : Fault(what)
    BY <2>5 DEF ResetState, Unlocker, Read, Check, Exit, Fault
  <2>6. CASE \E o \in Output : OutputAdd(o) \/ OutputRemove(o)
    BY <2>1, <2>6 DEF OutputAdd, OutputRemove
  <2>7. CASE \E v \in View : MapView(v) \/ UnmapView(v)
    BY <2>7 DEF MapView, UnmapView
  <2>8. CASE QuitKey \/ Signal \/ ShutdownTimer \/ Stop
    BY <2>8 DEF QuitKey, Signal, Terminate, ShutdownTimer, Stop
  <2>9. CASE UNCHANGED vars
    BY <2>9 DEF vars
  <2> QED
    BY <2>2, <2>3, <2>4, <2>5, <2>6, <2>7, <2>8, <2>9 DEF Next
<1>2. WaitOK /\ DarkOK /\ [Next]_vars => [A]_vars
  BY <1>1
<1> QED
  BY <1>2, DarkInvariant, PTL DEF Spec, StaysDark
=============================================================================
