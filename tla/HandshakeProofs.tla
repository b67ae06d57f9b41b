----------------------------- MODULE HandshakeProofs -----------------------------
(***************************************************************************)
(* Proofs about Handshake, for any sizes and any number of serials: what is *)
(* drawn around an xdg client has the size of its buffer, and an operation  *)
(* is applied by the answer to its own configure event only.                *)
(***************************************************************************)
EXTENDS Handshake, TLAPS

Asked == [serial : Nat, size : Nat]
Operation == {"reset", "resize", "maximize", "unmaximize", "tile"}

(* The states of the model as records, the form in which its handlers       *)
(* compute them.                                                           *)
Sizes  == {"size", "tile_size", "max_size"}
Fields == Sizes \cup {"shell", "life", "dirty", "op", "scheduled", "told", "acked",
                      "surface", "serial"}
IsState(s) == s = [f \in Fields |-> s[f]]

--------------------------------------------------------------------------------
(* The invariant                                                           *)

(* Events are sent and acknowledged in the order of their serials, and the  *)
(* one that waits is later than those that were sent.                       *)
InOrder(s) ==
  /\ s.serial \in Nat /\ s.scheduled \in Asked /\ s.told \in Seq(Asked) /\ s.acked \in Asked
  /\ s.scheduled.serial <= s.serial /\ s.acked.serial <= s.serial
  /\ \A i \in DOMAIN s.told : s.told[i].serial <= s.serial
  /\ s.scheduled.serial # 0 =>
       /\ s.acked.serial < s.scheduled.serial
       /\ \A i \in DOMAIN s.told : s.told[i].serial < s.scheduled.serial

(* From the event on that asked for the pending operation, all events ask   *)
(* for its size.                                                            *)
AskedFor(s) ==
  s.dirty =>
    /\ s.op.serial \in Nat
    /\ s.scheduled.size = s.op.size
    /\ s.acked.serial >= s.op.serial => s.acked.size = s.op.size
    /\ \A i \in DOMAIN s.told :
         s.told[i].serial >= s.op.serial => s.told[i].size = s.op.size

Frame(s) ==
  /\ IsState(s)
  /\ s.shell \in {"xdg", "xwayland"}
  /\ s.dirty \in BOOLEAN
  /\ s.dirty => s.life = "mapped" /\ s.op.type \in Operation
  /\ s.shell = "xdg" => InOrder(s) /\ AskedFor(s)

Agree(s) ==
  (s.shell = "xdg" /\ s.life = "mapped") =>
    s.surface.size \in Size /\ CurrentSize(s) = s.surface.size

Good(s) == Frame(s) /\ Agree(s)

Typed(s) == s.shell = "xdg" => s.size \in Nat /\ s.tile_size \in Nat /\ s.max_size \in Nat

IInv == Good(Now) /\ Typed(Now)

(* Only some fields differ.                                                *)
SameBut(s, t, fields) == IsState(t) /\ \A f \in Fields \ fields : t[f] = s[f]

--------------------------------------------------------------------------------
(* Changing one field, two fields, and the variables                       *)

LEMMA SetOne ==
  ASSUME NEW s, IsState(s), NEW f \in Fields, NEW x
  PROVE  LET t == [s EXCEPT ![f] = x] IN SameBut(s, t, {f}) /\ t[f] = x
<1>1. DOMAIN s = Fields
  BY DEF IsState
<1>2. IsState([s EXCEPT ![f] = x])
  BY <1>1, SMT DEF IsState
<1>3. \A g \in Fields \ {f} : [s EXCEPT ![f] = x][g] = s[g]
  BY <1>1, SMT
<1>4. [s EXCEPT ![f] = x][f] = x
  BY <1>1, SMT
<1> QED BY <1>2, <1>3, <1>4 DEF SameBut

LEMMA SetTwo ==
  ASSUME NEW s, IsState(s), NEW f \in Fields, NEW x, NEW g \in Fields \ {f}, NEW y
  PROVE  SameBut(s, [s EXCEPT ![f] = x, ![g] = y], {f, g})
<1> DEFINE u == [s EXCEPT ![f] = x]
           t == [u EXCEPT ![g] = y]
<1>1. [s EXCEPT ![f] = x, ![g] = y] = t
  OBVIOUS
<1>2. SameBut(s, u, {f})
  BY SetOne
<1>3. SameBut(u, t, {g})
  <2>1. IsState(u)
    BY <1>2 DEF SameBut
  <2> HIDE DEF u
  <2> QED BY <2>1, SetOne
<1>4. SameBut(s, t, {f, g})
  <2> HIDE DEF u, t
  <2> QED BY <1>2, <1>3 DEF SameBut
<1> QED BY <1>1, <1>4

LEMMA NowIsState == IsState(Now)
BY SMT DEF IsState, Fields, Sizes, Now

LEMMA BecomeIsNext == ASSUME NEW t, IsState(t), Become(t) PROVE Now' = t
BY SMT DEF IsState, Fields, Sizes, Now, Become

LEMMA InFields ==
  /\ {"shell", "life", "dirty", "op", "scheduled", "told", "acked", "surface", "serial"}
       \subseteq Fields \ Sizes
  /\ Sizes \subseteq Fields
  /\ Sizes = {"size", "tile_size", "max_size"}
BY SMT DEF Fields, Sizes

--------------------------------------------------------------------------------
(* What the helpers of the handlers change                                 *)

LEMMA RefreshedFacts ==
  ASSUME NEW s, IsState(s), NEW n
  PROVE  /\ SameBut(s, Refreshed(s, n), Sizes)
         /\ n # 0 => CurrentSize(Refreshed(s, n)) = n
<1>1. IsState(Refreshed(s, n))
  BY SMT DEF IsState, Fields, Sizes, Refreshed
<1>2. \A f \in Fields \ Sizes : Refreshed(s, n)[f] = s[f]
  BY SMT DEF IsState, Fields, Sizes, Refreshed
<1>3. n # 0 => CurrentSize(Refreshed(s, n)) = n
  BY SMT DEF IsState, Fields, Sizes, Refreshed, CurrentSize
<1> QED BY <1>1, <1>2, <1>3 DEF SameBut

LEMMA AppliedFacts ==
  ASSUME NEW s, IsState(s), NEW n, s.op.type \in Operation
  PROVE  /\ SameBut(s, Applied(s, n), Sizes)
         /\ n # 0 => CurrentSize(Applied(s, n)) = n
<1>1. CASE s.op.type = "reset"
  <2> DEFINE t == [s EXCEPT !.tile_size = 0, !.max_size = 0]
  <2>1. "tile_size" \in Fields /\ "max_size" \in Fields \ {"tile_size"}
    BY DEF Fields, Sizes
  <2>2. SameBut(s, t, {"tile_size", "max_size"})
    BY <2>1, SetTwo
  <2>3. SameBut(s, t, Sizes)
    BY <2>2 DEF SameBut, Sizes
  <2>4. Applied(s, n) = Refreshed(t, n)
    BY <1>1 DEF Applied
  <2> HIDE DEF t
  <2>5. SameBut(t, Refreshed(t, n), Sizes) /\ (n # 0 => CurrentSize(Refreshed(t, n)) = n)
    BY <2>3, RefreshedFacts DEF SameBut
  <2> QED BY <2>3, <2>4, <2>5 DEF SameBut
<1>2. CASE s.op.type = "unmaximize"
  <2> DEFINE t == [s EXCEPT !.max_size = 0]
  <2>1. SameBut(s, t, Sizes)
    BY SetOne, InFields DEF SameBut
  <2>2. Applied(s, n) = Refreshed(t, n)
    BY <1>2 DEF Applied
  <2> HIDE DEF t
  <2>3. SameBut(t, Refreshed(t, n), Sizes) /\ (n # 0 => CurrentSize(Refreshed(t, n)) = n)
    BY <2>1, RefreshedFacts DEF SameBut
  <2> QED BY <2>1, <2>2, <2>3 DEF SameBut
<1>3. CASE s.op.type = "resize"
  BY <1>3, RefreshedFacts DEF Applied
<1>4. CASE s.op.type = "maximize"
  <2> DEFINE t == [s EXCEPT !.max_size = n]
  <2>1. Applied(s, n) = t
    BY <1>4 DEF Applied
  <2>2. SameBut(s, t, Sizes) /\ t.max_size = n
    BY SetOne, InFields DEF SameBut
  <2> HIDE DEF t
  <2>3. n # 0 => CurrentSize(t) = n
    BY <2>2 DEF CurrentSize
  <2> QED BY <2>1, <2>2, <2>3
<1>5. CASE s.op.type = "tile"
  <2> DEFINE t == [s EXCEPT !.max_size = 0, !.tile_size = n]
  <2>1. Applied(s, n) = t
    BY <1>5 DEF Applied
  <2>2. "max_size" \in Fields /\ "tile_size" \in Fields \ {"max_size"}
    BY DEF Fields, Sizes
  <2>3. SameBut(s, t, {"max_size", "tile_size"})
    BY <2>2, SetTwo
  <2>4. t.max_size = 0 /\ t.tile_size = n
    BY <2>2, SMT DEF IsState
  <2> HIDE DEF t
  <2>5. SameBut(s, t, Sizes) /\ (n # 0 => CurrentSize(t) = n)
    BY <2>3, <2>4 DEF SameBut, Sizes, CurrentSize
  <2> QED BY <2>1, <2>5
<1> QED BY <1>1, <1>2, <1>3, <1>4, <1>5 DEF Operation

LEMMA CommitFacts ==
  ASSUME NEW s, IsState(s), NEW n, s.op.type \in Operation
  PROVE  LET t == CommitPendingOperation(s, n)
         IN  SameBut(s, t, Sizes \cup {"dirty"}) /\ (n # 0 => CurrentSize(t) = n) /\ t.dirty = FALSE
<1> DEFINE u == Applied(s, n)
           t == [u EXCEPT !.dirty = FALSE]
<1>1. SameBut(s, u, Sizes) /\ (n # 0 => CurrentSize(u) = n)
  BY AppliedFacts
<1>2. CommitPendingOperation(s, n) = t
  BY DEF CommitPendingOperation
<1> HIDE DEF u
<1>3. SameBut(u, t, {"dirty"}) /\ t.dirty = FALSE
  BY <1>1, SetOne, InFields DEF SameBut
<1> HIDE DEF t
<1>4. n # 0 => CurrentSize(t) = n
  BY <1>1, <1>3, InFields DEF SameBut, CurrentSize
<1>5. SameBut(s, t, Sizes \cup {"dirty"})
  BY <1>1, <1>3 DEF SameBut
<1> QED BY <1>2, <1>3, <1>4, <1>5

LEMMA ScheduleFacts ==
  ASSUME NEW s, IsState(s), s.scheduled \in Asked
  PROVE  LET t == Schedule(s)
             waits == s.scheduled.serial # 0
         IN  /\ SameBut(s, t, {"scheduled", "serial"})
             /\ t.scheduled = [serial |-> IF waits THEN s.scheduled.serial ELSE s.serial + 1,
                               size   |-> s.scheduled.size]
             /\ t.serial = IF waits THEN s.serial ELSE s.serial + 1
<1>1. CASE s.scheduled.serial # 0
  <2>1. Schedule(s) = s
    BY <1>1 DEF Schedule
  <2>2. s.scheduled = [serial |-> s.scheduled.serial, size |-> s.scheduled.size]
    BY SMT DEF Asked
  <2> QED BY <1>1, <2>1, <2>2 DEF SameBut
<1>2. CASE s.scheduled.serial = 0
  <2> DEFINE next == [serial |-> s.serial + 1, size |-> s.scheduled.size]
             t == [s EXCEPT !.scheduled = next, !.serial = s.serial + 1]
  <2>1. [s.scheduled EXCEPT !.serial = s.serial + 1] = next
    BY SMT DEF Asked
  <2>2. Schedule(s) = [s EXCEPT !.scheduled = [s.scheduled EXCEPT !.serial = s.serial + 1],
                                !.serial = s.serial + 1]
    BY <1>2 DEF Schedule
  <2>3. Schedule(s) = t
    BY <2>1, <2>2
  <2>4. "scheduled" \in Fields /\ "serial" \in Fields \ {"scheduled"}
    BY DEF Fields, Sizes
  <2> HIDE DEF next
  <2>5. SameBut(s, t, {"scheduled", "serial"})
    BY <2>4, SetTwo
  <2>6. t.scheduled = next /\ t.serial = s.serial + 1
    BY <2>4, SMT DEF IsState
  <2> HIDE DEF t
  <2> QED BY <1>2, <2>3, <2>5, <2>6 DEF next
<1> QED BY <1>1, <1>2

LEMMA ConfigureXFacts ==
  ASSUME NEW s, IsState(s), NEW n
  PROVE  SameBut(s, ConfigureX(s, n), {"surface", "told"})
<1> DEFINE shown == [s.surface EXCEPT !.size = n]
           heard == IF n = s.surface.size THEN s.told ELSE <<[serial |-> 0, size |-> n]>>
<1>1. ConfigureX(s, n) = [s EXCEPT !.surface = shown, !.told = heard]
  BY DEF ConfigureX
<1>2. "surface" \in Fields /\ "told" \in Fields \ {"surface"}
  BY DEF Fields, Sizes
<1> HIDE DEF shown, heard
<1>3. SameBut(s, [s EXCEPT !.surface = shown, !.told = heard], {"surface", "told"})
  BY <1>2, SetTwo
<1> QED BY <1>1, <1>3

(* resize() of an X client.                                                *)
LEMMA ResizeXFacts ==
  ASSUME NEW s, IsState(s), s.shell # "xdg", NEW type \in Operation, NEW n
  PROVE  LET t == Resize(s, type, n)
         IN  /\ SameBut(s, t, {"surface", "told", "op", "dirty"})
             /\ t.dirty = TRUE /\ t.op.type = type
<1> DEFINE asked == ConfigureX(s, n)
           queued == [type |-> type, size |-> n, serial |-> 0]
           t == [asked EXCEPT !.op = queued, !.dirty = TRUE]
<1>1. Resize(s, type, n) = t
  BY DEF Resize
<1>2. SameBut(s, asked, {"surface", "told"})
  BY ConfigureXFacts
<1>3. "op" \in Fields /\ "dirty" \in Fields \ {"op"}
  BY DEF Fields, Sizes
<1>4. queued.type = type
  OBVIOUS
<1> HIDE DEF asked, queued
<1>5. SameBut(asked, t, {"op", "dirty"})
  <2>1. IsState(asked)
    BY <1>2 DEF SameBut
  <2> QED BY <2>1, <1>3, SetTwo
<1>6. t.op = queued /\ t.dirty = TRUE
  BY <1>2, <1>3, SMT DEF SameBut, IsState
<1> HIDE DEF t
<1>7. SameBut(s, t, {"surface", "told", "op", "dirty"})
  BY <1>2, <1>5 DEF SameBut
<1> QED BY <1>1, <1>4, <1>6, <1>7

(* resize() of an xdg client: the event that waits, an old one or a new one, *)
(* asks for the size.                                                        *)
LEMMA ResizeXdgFacts ==
  ASSUME NEW s, IsState(s), s.shell = "xdg", s.scheduled \in Asked,
         NEW type \in Operation, NEW n \in Nat
  PROVE  LET t == Resize(s, type, n)
             waits == s.scheduled.serial # 0
             number == IF waits THEN s.scheduled.serial ELSE s.serial + 1
         IN  /\ SameBut(s, t, {"scheduled", "serial", "op", "dirty"})
             /\ t.dirty = TRUE
             /\ t.op = [type |-> type, size |-> n, serial |-> number]
             /\ t.scheduled = [serial |-> number, size |-> n]
             /\ t.serial = IF waits THEN s.serial ELSE s.serial + 1
<1> DEFINE next == [s.scheduled EXCEPT !.size = n]
           u == [s EXCEPT !.scheduled = next]
           number == IF s.scheduled.serial # 0 THEN s.scheduled.serial ELSE s.serial + 1
           asked == Schedule(u)
           queued == [type |-> type, size |-> n, serial |-> asked.scheduled.serial]
           t == [asked EXCEPT !.op = queued, !.dirty = TRUE]
<1>1. Resize(s, type, n) = t
  BY DEF Resize
<1>2. next = [serial |-> s.scheduled.serial, size |-> n]
  BY SMT DEF Asked
<1>3. SameBut(s, u, {"scheduled"}) /\ u.scheduled = next
  <2> HIDE DEF next
  <2> QED BY SetOne, InFields
<1> HIDE DEF next, u
<1>4. next \in Asked /\ next.serial = s.scheduled.serial /\ next.size = n
  BY <1>2, SMT DEF Asked
<1>5. u.serial = s.serial
  BY <1>3, InFields DEF SameBut, Fields
<1>6. /\ SameBut(u, asked, {"scheduled", "serial"})
      /\ asked.scheduled = [serial |-> number, size |-> n]
      /\ asked.serial = IF s.scheduled.serial # 0 THEN s.serial ELSE s.serial + 1
  BY <1>3, <1>4, <1>5, ScheduleFacts DEF SameBut
<1>7. queued = [type |-> type, size |-> n, serial |-> number]
  BY <1>6
<1> HIDE DEF asked, queued
<1>8. "op" \in Fields /\ "dirty" \in Fields \ {"op"}
  BY DEF Fields, Sizes
<1>9. SameBut(asked, t, {"op", "dirty"})
  <2>1. IsState(asked)
    BY <1>6 DEF SameBut
  <2> QED BY <2>1, <1>8, SetTwo
<1>10. t.op = queued /\ t.dirty = TRUE
  BY <1>6, <1>8, SMT DEF SameBut, IsState
<1> HIDE DEF t
<1>11. t.scheduled = asked.scheduled /\ t.serial = asked.serial
  BY <1>9 DEF SameBut, Fields
<1>12. SameBut(s, t, {"scheduled", "serial", "op", "dirty"})
  BY <1>3, <1>6, <1>9 DEF SameBut
<1> QED BY <1>1, <1>6, <1>7, <1>10, <1>11, <1>12

--------------------------------------------------------------------------------
(* The invariant and what the helpers change                               *)

LEMMA InOrderTypes ==
  ASSUME NEW s, InOrder(s)
  PROVE  /\ s.scheduled \in Asked /\ s.serial \in Nat
         /\ s.scheduled.serial \in Nat /\ s.acked.serial \in Nat
         /\ \A i \in DOMAIN s.told : s.told[i] \in Asked /\ s.told[i].serial \in Nat
<1>1. /\ s.serial \in Nat /\ s.scheduled \in Asked /\ s.acked \in Asked
      /\ s.told \in Seq(Asked)
  BY DEF InOrder
<1>2. \A a \in Asked : a.serial \in Nat
  BY SMT DEF Asked
<1>3. \A i \in DOMAIN s.told : s.told[i] \in Asked
  <2> DEFINE q == s.told
  <2>1. q \in Seq(Asked)
    BY <1>1
  <2> HIDE DEF q
  <2>2. \A i \in DOMAIN q : q[i] \in Asked
    BY <2>1, SMT
  <2> QED BY <2>2 DEF q
<1> QED BY <1>1, <1>2, <1>3

LEMMA FrameKept ==
  ASSUME NEW s, NEW t, Frame(s), SameBut(s, t, Sizes \cup {"surface", "life"}),
         s.dirty => t.life = "mapped"
  PROVE  Frame(t)
<1>1. /\ t.shell = s.shell /\ t.dirty = s.dirty /\ t.op = s.op /\ t.scheduled = s.scheduled
      /\ t.told = s.told /\ t.acked = s.acked /\ t.serial = s.serial
  BY InFields DEF SameBut, Fields, Sizes
<1> QED BY <1>1 DEF Frame, InOrder, AskedFor, SameBut

LEMMA FrameCommitted ==
  ASSUME NEW s, NEW t, Frame(s), SameBut(s, t, Sizes \cup {"surface", "op", "dirty"}),
         t.dirty = FALSE
  PROVE  Frame(t)
<1>1. /\ t.shell = s.shell /\ t.scheduled = s.scheduled
      /\ t.told = s.told /\ t.acked = s.acked /\ t.serial = s.serial
  BY InFields DEF SameBut, Fields, Sizes
<1> QED BY <1>1 DEF Frame, InOrder, AskedFor, SameBut

LEMMA FrameScheduled ==
  ASSUME NEW s, Frame(s), s.shell = "xdg"
  PROVE  Frame(Schedule(s)) /\ SameBut(s, Schedule(s), {"scheduled", "serial"})
<1> DEFINE t == Schedule(s)
           waits == s.scheduled.serial # 0
<1>1. InOrder(s) /\ AskedFor(s) /\ IsState(s)
  BY DEF Frame
<1>2. /\ SameBut(s, t, {"scheduled", "serial"})
      /\ t.scheduled = [serial |-> IF waits THEN s.scheduled.serial ELSE s.serial + 1,
                        size   |-> s.scheduled.size]
      /\ t.serial = IF waits THEN s.serial ELSE s.serial + 1
  BY <1>1, ScheduleFacts DEF InOrder
<1> HIDE DEF t
<1>3. /\ t.shell = s.shell /\ t.dirty = s.dirty /\ t.op = s.op /\ t.life = s.life
      /\ t.told = s.told /\ t.acked = s.acked
  BY <1>2 DEF SameBut, Fields, Sizes
<1>4. InOrder(t)
  <2>1. t.scheduled \in Asked /\ t.serial \in Nat
    BY <1>1, <1>2, SMT DEF InOrder, Asked
  <2>2. t.told \in Seq(Asked) /\ t.acked \in Asked
    BY <1>1, <1>3 DEF InOrder
  <2>3. /\ s.serial \in Nat /\ s.scheduled.serial \in Nat /\ s.acked.serial \in Nat
        /\ \A i \in DOMAIN s.told : s.told[i].serial \in Nat
    BY <1>1, InOrderTypes
  <2>4. /\ t.scheduled.serial = IF waits THEN s.scheduled.serial ELSE s.serial + 1
        /\ t.serial = IF waits THEN s.serial ELSE s.serial + 1
    BY <1>2
  <2> QED BY <1>1, <1>3, <2>1, <2>2, <2>3, <2>4, SMT DEF InOrder
<1>5. AskedFor(t)
  BY <1>1, <1>2, <1>3, SMT DEF AskedFor
<1>6. IsState(t)
  BY <1>2 DEF SameBut
<1>7. Frame(t)
  BY <1>3, <1>4, <1>5, <1>6 DEF Frame
<1> QED BY <1>2, <1>7 DEF t

LEMMA AgreeKept ==
  ASSUME NEW s, NEW t, Agree(s),
         SameBut(s, t, {"dirty", "op", "scheduled", "told", "acked", "serial"})
  PROVE  Agree(t)
<1>1. /\ t.shell = s.shell /\ t.life = s.life /\ t.surface = s.surface
      /\ t.size = s.size /\ t.tile_size = s.tile_size /\ t.max_size = s.max_size
  BY DEF SameBut, Fields, Sizes
<1> QED BY <1>1 DEF Agree, CurrentSize

LEMMA GoodX ==
  ASSUME NEW t, IsState(t), t.shell = "xwayland", t.dirty \in BOOLEAN,
         t.dirty => t.life = "mapped" /\ t.op.type \in Operation
  PROVE  Good(t)
BY DEF Good, Frame, Agree

LEMMA GoodResize ==
  ASSUME NEW s, Good(s), s.life = "mapped", NEW type \in Operation, NEW n,
         s.shell = "xdg" => n \in Nat
  PROVE  Good(Resize(s, type, n)) /\ Resize(s, type, n).shell = s.shell
<1> DEFINE t == Resize(s, type, n)
<1>1. CASE s.shell = "xdg"
  <2> DEFINE number == IF s.scheduled.serial # 0 THEN s.scheduled.serial ELSE s.serial + 1
  <2>1. InOrder(s) /\ IsState(s) /\ s.scheduled \in Asked
    BY <1>1 DEF Good, Frame, InOrder
  <2>2. /\ SameBut(s, t, {"scheduled", "serial", "op", "dirty"})
        /\ t.dirty = TRUE
        /\ t.op = [type |-> type, size |-> n, serial |-> number]
        /\ t.scheduled = [serial |-> number, size |-> n]
        /\ t.serial = IF s.scheduled.serial # 0 THEN s.serial ELSE s.serial + 1
    BY <1>1, <2>1, n \in Nat, ResizeXdgFacts
  <2> HIDE DEF t
  <2>3. t.shell = s.shell /\ t.life = s.life /\ t.told = s.told /\ t.acked = s.acked
    BY <2>2 DEF SameBut, Fields, Sizes
  <2>4. /\ s.serial \in Nat /\ s.scheduled.serial \in Nat /\ s.acked.serial \in Nat
        /\ \A i \in DOMAIN s.told : s.told[i].serial \in Nat
    BY <2>1, InOrderTypes
  <2>5. /\ number \in Nat /\ number # 0 /\ number <= t.serial
        /\ s.acked.serial < number /\ \A i \in DOMAIN s.told : s.told[i].serial < number
    BY <2>1, <2>2, <2>4, SMT DEF InOrder
  <2> HIDE DEF number
  <2>6. InOrder(t)
    <3>1. t.scheduled \in Asked /\ t.serial \in Nat
      BY <1>1, <2>2, <2>4, <2>5, SMT DEF Asked
    <3>2. t.told \in Seq(Asked) /\ t.acked \in Asked
      BY <2>1, <2>3 DEF InOrder
    <3>3. t.scheduled.serial = number
      BY <2>2
    <3> QED BY <2>3, <2>4, <2>5, <3>1, <3>2, <3>3, SMT DEF InOrder
  <2>7. AskedFor(t)
    <3>1. t.op.serial = number /\ t.op.size = n /\ t.scheduled.size = n
      BY <2>2
    <3> QED BY <2>3, <2>4, <2>5, <3>1, SMT DEF AskedFor
  <2>8. Frame(t)
    <3>1. t.op.type = type /\ IsState(t)
      BY <2>2 DEF SameBut
    <3> QED BY <1>1, <2>2, <2>3, <2>6, <2>7, <3>1 DEF Frame
  <2>9. Agree(t)
    <3>1. SameBut(s, t, {"dirty", "op", "scheduled", "told", "acked", "serial"})
      BY <2>2 DEF SameBut
    <3> QED BY <3>1, AgreeKept DEF Good
  <2> QED BY <2>3, <2>8, <2>9 DEF Good, t
<1>2. CASE s.shell = "xwayland"
  <2>0. IsState(s) /\ s.shell # "xdg"
    BY <1>2 DEF Good, Frame
  <2>1. SameBut(s, t, {"surface", "told", "op", "dirty"}) /\ t.dirty = TRUE /\ t.op.type = type
    BY <2>0, ResizeXFacts
  <2> HIDE DEF t
  <2>2. t.shell = s.shell /\ t.life = s.life /\ IsState(t)
    BY <2>1 DEF SameBut, Fields, Sizes
  <2>3. Good(t)
    BY <1>2, <2>1, <2>2, GoodX
  <2> QED BY <2>2, <2>3 DEF t
<1> QED BY <1>1, <1>2 DEF Good, Frame

LEMMA GoodQueue ==
  ASSUME NEW s, Good(s), s.life = "mapped", NEW type \in Operation, NEW n,
         s.shell = "xdg" => n \in Nat
  PROVE  Good(Queue(s, type, n)) /\ Queue(s, type, n).shell = s.shell
<1>1. CASE n # CurrentSize(s)
  BY <1>1, GoodResize DEF Queue
<1>2. CASE n = CurrentSize(s)
  <2> DEFINE queued == [type |-> type, size |-> n, serial |-> s.op.serial]
             u == [s EXCEPT !.op = queued]
             t == CommitPendingOperation(u, n)
  <2>1. Queue(s, type, n) = t
    BY <1>2 DEF Queue
  <2>2. IsState(s) /\ Frame(s)
    BY DEF Good, Frame
  <2>3. queued.type = type
    OBVIOUS
  <2> HIDE DEF queued
  <2>4. SameBut(s, u, {"op"}) /\ u.op = queued
    <3>1. "op" \in Fields
      BY DEF Fields
    <3> QED BY <2>2, <3>1, SetOne
  <2> HIDE DEF u
  <2>5. IsState(u) /\ u.op.type \in Operation
    BY <2>3, <2>4 DEF SameBut
  <2>6. /\ SameBut(u, t, Sizes \cup {"dirty"}) /\ t.dirty = FALSE
        /\ n # 0 => CurrentSize(t) = n
    BY <2>5, CommitFacts
  <2> HIDE DEF t
  <2>7. SameBut(s, t, Sizes \cup {"op", "dirty"})
    BY <2>4, <2>6 DEF SameBut
  <2>8. Frame(t)
    <3>1. SameBut(s, t, Sizes \cup {"surface", "op", "dirty"})
      BY <2>7 DEF SameBut
    <3> QED BY <2>2, <2>6, <3>1, FrameCommitted
  <2>9. t.shell = s.shell /\ t.surface = s.surface
    BY <2>7 DEF SameBut, Fields, Sizes
  <2>10. Agree(t)
    <3>1. ASSUME s.shell = "xdg" PROVE n = s.surface.size /\ n # 0 /\ n \in Size
      BY <1>2, <3>1, SizesAreNumbers DEF Good, Agree
    <3> QED BY <2>6, <2>9, <3>1 DEF Agree
  <2> QED BY <2>1, <2>8, <2>9, <2>10 DEF Good
<1> QED BY <1>1, <1>2

(* The operations of an X client are counted.                               *)
LEMMA GoodCounted ==
  ASSUME NEW s, Good(s), s.shell = shell
  PROVE  Good(Counted(s)) /\ IsState(Counted(s))
<1>1. IsState(s) /\ s.shell \in {"xdg", "xwayland"}
  BY DEF Good, Frame
<1>2. CASE shell = "xdg"
  BY <1>1, <1>2 DEF Counted
<1>3. CASE shell # "xdg"
  <2> DEFINE n == s.serial + 1
             t == [s EXCEPT !.serial = n]
  <2>1. Counted(s) = t
    BY <1>3 DEF Counted
  <2> HIDE DEF n
  <2>2. SameBut(s, t, {"serial"})
    BY <1>1, SetOne, InFields
  <2> HIDE DEF t
  <2>3. t.shell = s.shell /\ t.life = s.life /\ t.dirty = s.dirty /\ t.op = s.op /\ IsState(t)
    BY <2>2 DEF SameBut, Fields, Sizes
  <2>4. Good(t)
    BY <1>1, <1>3, <2>3, GoodX DEF Good, Frame
  <2> QED BY <2>1, <2>3, <2>4
<1> QED BY <1>2, <1>3

--------------------------------------------------------------------------------
(* The sizes of the view are numbers.                                      *)

LEMMA TypedKept ==
  ASSUME NEW s, NEW t, Typed(s), SameBut(s, t, Fields \ (Sizes \cup {"shell"}))
  PROVE  Typed(t)
<1>1. /\ t.shell = s.shell
      /\ t.size = s.size /\ t.tile_size = s.tile_size /\ t.max_size = s.max_size
  BY DEF SameBut, Fields, Sizes
<1> QED BY <1>1 DEF Typed

LEMMA RefreshedTyped ==
  ASSUME NEW s, IsState(s), Typed(s), NEW n, s.shell = "xdg" => n \in Nat
  PROVE  Typed(Refreshed(s, n))
BY SMT DEF IsState, Fields, Sizes, Refreshed, Typed

LEMMA AppliedTyped ==
  ASSUME NEW s, IsState(s), Typed(s), NEW n, s.shell = "xdg" => n \in Nat, s.op.type \in Operation
  PROVE  Typed(Applied(s, n))
<1>1. CASE s.op.type = "reset"
  <2> DEFINE t == [s EXCEPT !.tile_size = 0, !.max_size = 0]
  <2>1. "tile_size" \in Fields /\ "max_size" \in Fields \ {"tile_size"}
    BY DEF Fields, Sizes
  <2>2. SameBut(s, t, {"tile_size", "max_size"})
    BY <2>1, SetTwo
  <2>3. t.tile_size = 0 /\ t.max_size = 0
    BY <2>1, SMT DEF IsState
  <2>4. Applied(s, n) = Refreshed(t, n)
    BY <1>1 DEF Applied
  <2> HIDE DEF t
  <2>5. t.shell = s.shell /\ t.size = s.size /\ IsState(t)
    BY <2>2 DEF SameBut, Fields, Sizes
  <2>6. Typed(t)
    BY <2>3, <2>5 DEF Typed
  <2> QED BY <2>4, <2>5, <2>6, RefreshedTyped
<1>2. CASE s.op.type = "unmaximize"
  <2> DEFINE t == [s EXCEPT !.max_size = 0]
  <2>1. SameBut(s, t, {"max_size"}) /\ t.max_size = 0
    BY SetOne, InFields
  <2>2. Applied(s, n) = Refreshed(t, n)
    BY <1>2 DEF Applied
  <2> HIDE DEF t
  <2>3. t.shell = s.shell /\ t.size = s.size /\ t.tile_size = s.tile_size /\ IsState(t)
    BY <2>1 DEF SameBut, Fields, Sizes
  <2>4. Typed(t)
    BY <2>1, <2>3 DEF Typed
  <2> QED BY <2>2, <2>3, <2>4, RefreshedTyped
<1>3. CASE s.op.type = "resize"
  BY <1>3, RefreshedTyped DEF Applied
<1>4. CASE s.op.type = "maximize"
  <2>1. Applied(s, n) = [s EXCEPT !.max_size = n]
    BY <1>4 DEF Applied
  <2> QED BY <2>1, SMT DEF IsState, Fields, Sizes, Typed
<1>5. CASE s.op.type = "tile"
  <2> DEFINE t == [s EXCEPT !.max_size = 0, !.tile_size = n]
  <2>1. Applied(s, n) = t
    BY <1>5 DEF Applied
  <2>2. "max_size" \in Fields /\ "tile_size" \in Fields \ {"max_size"}
    BY DEF Fields, Sizes
  <2>3. SameBut(s, t, {"max_size", "tile_size"})
    BY <2>2, SetTwo
  <2>4. t.max_size = 0 /\ t.tile_size = n
    BY <2>2, SMT DEF IsState
  <2> HIDE DEF t
  <2>5. t.shell = s.shell /\ t.size = s.size
    BY <2>3 DEF SameBut, Fields, Sizes
  <2> QED BY <2>1, <2>4, <2>5 DEF Typed
<1> QED BY <1>1, <1>2, <1>3, <1>4, <1>5 DEF Operation

LEMMA CommitTyped ==
  ASSUME NEW s, IsState(s), Typed(s), NEW n, s.shell = "xdg" => n \in Nat, s.op.type \in Operation
  PROVE  Typed(CommitPendingOperation(s, n))
<1> DEFINE u == Applied(s, n)
           t == [u EXCEPT !.dirty = FALSE]
<1>1. CommitPendingOperation(s, n) = t
  BY DEF CommitPendingOperation
<1>2. SameBut(s, u, Sizes)
  BY AppliedFacts
<1>3. Typed(u)
  BY AppliedTyped
<1>4. IsState(u)
  BY <1>2 DEF SameBut
<1> HIDE DEF u
<1>5. SameBut(u, t, {"dirty"})
  BY <1>4, SetOne, InFields
<1> HIDE DEF t
<1>6. SameBut(u, t, Fields \ (Sizes \cup {"shell"}))
  BY <1>5, InFields DEF SameBut
<1> QED BY <1>1, <1>3, <1>6, TypedKept

LEMMA ResizeTyped ==
  ASSUME NEW s, Good(s), Typed(s), NEW type \in Operation, NEW n, s.shell = "xdg" => n \in Nat
  PROVE  Typed(Resize(s, type, n))
<1> DEFINE t == Resize(s, type, n)
<1>1. IsState(s) /\ s.shell \in {"xdg", "xwayland"}
  BY DEF Good, Frame
<1>2. CASE s.shell = "xdg"
  <2>1. s.scheduled \in Asked /\ n \in Nat
    BY <1>2 DEF Good, Frame, InOrder
  <2>2. SameBut(s, t, {"scheduled", "serial", "op", "dirty"})
    BY <1>1, <1>2, <2>1, ResizeXdgFacts
  <2> HIDE DEF t
  <2>3. SameBut(s, t, Fields \ (Sizes \cup {"shell"}))
    BY <2>2, InFields DEF SameBut
  <2> QED BY <2>3, TypedKept DEF t
<1>3. CASE s.shell = "xwayland"
  <2>1. s.shell # "xdg"
    BY <1>3
  <2>2. SameBut(s, t, {"surface", "told", "op", "dirty"})
    BY <1>1, <2>1, ResizeXFacts
  <2> HIDE DEF t
  <2>3. SameBut(s, t, Fields \ (Sizes \cup {"shell"}))
    BY <2>2, InFields DEF SameBut
  <2> QED BY <2>3, TypedKept DEF t
<1> QED BY <1>1, <1>2, <1>3

LEMMA QueueTyped ==
  ASSUME NEW s, Good(s), Typed(s), NEW type \in Operation, NEW n, s.shell = "xdg" => n \in Nat
  PROVE  Typed(Queue(s, type, n))
<1>1. CASE n # CurrentSize(s)
  BY <1>1, ResizeTyped DEF Queue
<1>2. CASE n = CurrentSize(s)
  <2> DEFINE queued == [type |-> type, size |-> n, serial |-> s.op.serial]
             u == [s EXCEPT !.op = queued]
  <2>1. Queue(s, type, n) = CommitPendingOperation(u, n)
    BY <1>2 DEF Queue
  <2>2. IsState(s) /\ queued.type = type
    BY DEF Good, Frame
  <2> HIDE DEF queued
  <2>3. SameBut(s, u, {"op"}) /\ u.op = queued
    BY <2>2, SetOne, InFields
  <2> HIDE DEF u
  <2>4. SameBut(s, u, Fields \ (Sizes \cup {"shell"})) /\ IsState(u) /\ u.op.type \in Operation
    BY <2>2, <2>3, InFields DEF SameBut
  <2>5. Typed(u) /\ u.shell = s.shell
    BY <2>4, TypedKept DEF SameBut, Fields, Sizes
  <2> QED BY <2>1, <2>4, <2>5, CommitTyped
<1> QED BY <1>1, <1>2

--------------------------------------------------------------------------------
(* The commit handlers, and unmapping                                      *)

LEMMA SizeIsPositive == \A n \in Size : n \in Nat /\ n # 0
BY SizesAreNumbers

LEMMA CommitXdgGood ==
  ASSUME NEW s, Frame(s), Typed(s), s.shell = "xdg", s.surface.size \in Size
  PROVE  LET t == CommitXdg(s)
         IN  /\ Good(t) /\ Typed(t) /\ t.surface = s.surface
             /\ s.dirty /\ ~t.dirty => WasUpdated(s)
<1> DEFINE n == s.surface.size
           t == CommitXdg(s)
<1>1. n \in Nat /\ n # 0 /\ n \in Size /\ IsState(s)
  BY SizeIsPositive DEF Frame
<1>2. CASE ~WasUpdated(s)
  <2>1. t = Refreshed(s, n)
    BY <1>2 DEF CommitXdg
  <2> HIDE DEF n, t
  <2>2. SameBut(s, t, Sizes) /\ CurrentSize(t) = n
    BY <1>1, <2>1, RefreshedFacts
  <2>3. t.surface = s.surface /\ t.dirty = s.dirty /\ t.life = s.life
    BY <2>2, InFields DEF SameBut
  <2>4. Frame(t)
    <3>1. SameBut(s, t, Sizes \cup {"surface", "life"})
      BY <2>2 DEF SameBut
    <3> QED BY <2>3, <3>1, FrameKept DEF Frame
  <2>5. Typed(t)
    BY <1>1, <2>1, RefreshedTyped
  <2>6. Agree(t)
    BY <1>1, <2>2, <2>3 DEF Agree, n
  <2> QED BY <2>3, <2>4, <2>5, <2>6 DEF Good, t
<1>3. CASE WasUpdated(s)
  <2> DEFINE d == IF s.op.type = "resize" THEN s ELSE Schedule(s)
  <2>1. t = CommitPendingOperation(d, n)
    BY <1>3 DEF CommitXdg
  <2>2. Frame(d) /\ SameBut(s, d, {"scheduled", "serial"})
    BY <1>1, FrameScheduled DEF SameBut
  <2> HIDE DEF d, n, t
  <2>3. /\ IsState(d) /\ d.surface = s.surface /\ d.op = s.op /\ d.dirty = s.dirty
        /\ d.shell = s.shell
    BY <2>2 DEF SameBut, Fields, Sizes
  <2>4. d.op.type \in Operation
    BY <1>3, <2>3 DEF WasUpdated, Frame
  <2>5. SameBut(d, t, Sizes \cup {"dirty"}) /\ t.dirty = FALSE /\ CurrentSize(t) = n
    BY <1>1, <2>1, <2>3, <2>4, CommitFacts
  <2>6. t.surface = s.surface
    BY <2>3, <2>5 DEF SameBut, Fields, Sizes
  <2>7. Frame(t)
    <3>1. SameBut(d, t, Sizes \cup {"surface", "op", "dirty"})
      BY <2>5 DEF SameBut
    <3> QED BY <2>2, <2>5, <3>1, FrameCommitted
  <2>8. Typed(t)
    <3>1. SameBut(s, d, Fields \ (Sizes \cup {"shell"}))
      BY <2>2, InFields DEF SameBut
    <3>2. Typed(d)
      BY <3>1, TypedKept
    <3> QED BY <1>1, <2>1, <2>3, <2>4, <3>2, CommitTyped
  <2>9. Agree(t)
    BY <1>1, <2>5, <2>6 DEF Agree, n
  <2> QED BY <1>3, <2>6, <2>7, <2>8, <2>9 DEF Good, t
<1> QED BY <1>2, <1>3

LEMMA CommitXGood ==
  ASSUME NEW s, Frame(s), s.shell = "xwayland"
  PROVE  Good(CommitX(s)) /\ Typed(CommitX(s))
<1> DEFINE t == CommitX(s)
<1>1. IsState(s)
  BY DEF Frame
<1>2. SameBut(s, t, Sizes \cup {"dirty"}) /\ t.dirty \in {FALSE, s.dirty}
  <2>1. CASE WasUpdated(s)
    <3>1. s.op.type \in Operation
      BY <2>1 DEF WasUpdated, Frame
    <3>2. t = CommitPendingOperation(s, s.op.size)
      BY <2>1 DEF CommitX
    <3> HIDE DEF t
    <3> QED BY <1>1, <3>1, <3>2, CommitFacts
  <2>2. CASE ~WasUpdated(s)
    <3>1. t = Refreshed(s, s.surface.size)
      BY <2>2 DEF CommitX
    <3> HIDE DEF t
    <3>2. SameBut(s, t, Sizes)
      BY <1>1, <3>1, RefreshedFacts
    <3>3. t.dirty = s.dirty
      BY <3>2, InFields DEF SameBut
    <3> QED BY <3>2, <3>3 DEF SameBut
  <2> QED BY <2>1, <2>2
<1> HIDE DEF t
<1>3. t.shell = s.shell /\ t.life = s.life /\ t.op = s.op /\ IsState(t)
  BY <1>2 DEF SameBut, Fields, Sizes
<1>4. Good(t) /\ Typed(t)
  BY <1>2, <1>3, GoodX DEF Frame, Typed
<1> QED BY <1>4 DEF t

(* Three steps of two fields each.                                         *)
LEMMA UnmappedGood ==
  ASSUME NEW s, Good(s), Typed(s)
  PROVE  LET t == Unmapped(s)
         IN  /\ Good(t) /\ Typed(t) /\ IsState(t) /\ t.shell = s.shell
             /\ t.dirty = FALSE
<1> DEFINE n == CurrentSize(s)
           v == [s EXCEPT !.tile_size = 0]
           u == Refreshed(v, n)
           none == [size |-> 0, answers |-> 0, serial |-> 0]
           t1 == [u EXCEPT !.dirty = FALSE, !.life = "new"]
           t2 == [t1 EXCEPT !.scheduled = Nothing, !.told = <<>>]
           t3 == [t2 EXCEPT !.acked = Nothing, !.surface = none]
           t == Unmapped(s)
<1>1. t = t3
  BY DEF Unmapped
<1>2. IsState(s) /\ (s.shell = "xdg" => n \in Nat)
  BY DEF Good, Frame, Typed, CurrentSize
<1> HIDE DEF n, t, none
<1>3. SameBut(s, v, {"tile_size"}) /\ v.tile_size = 0
  BY <1>2, SetOne, InFields
<1> HIDE DEF v
<1>4. IsState(v) /\ v.shell = s.shell /\ v.size = s.size /\ v.max_size = s.max_size
      /\ v.serial = s.serial
  BY <1>3 DEF SameBut, Fields, Sizes
<1>5. Typed(v)
  BY <1>3, <1>4 DEF Typed
<1>6. SameBut(v, u, Sizes) /\ Typed(u)
  BY <1>2, <1>4, <1>5, RefreshedFacts, RefreshedTyped
<1> HIDE DEF u
<1>7. IsState(u) /\ u.shell = s.shell /\ u.serial = s.serial
  BY <1>4, <1>6 DEF SameBut, Fields, Sizes
<1>8. SameBut(u, t1, {"dirty", "life"}) /\ t1.dirty = FALSE /\ t1.life = "new"
  <2>1. "dirty" \in Fields /\ "life" \in Fields \ {"dirty"}
    BY DEF Fields, Sizes
  <2>2. SameBut(u, t1, {"dirty", "life"})
    BY <1>7, <2>1, SetTwo
  <2>3. t1.dirty = FALSE /\ t1.life = "new"
    BY <1>7, <2>1, SMT DEF IsState
  <2> QED BY <2>2, <2>3
<1> HIDE DEF t1
<1>9. SameBut(t1, t2, {"scheduled", "told"}) /\ t2.scheduled = Nothing /\ t2.told = <<>>
  <2>1. "scheduled" \in Fields /\ "told" \in Fields \ {"scheduled"} /\ IsState(t1)
    BY <1>8 DEF Fields, Sizes, SameBut
  <2>2. SameBut(t1, t2, {"scheduled", "told"})
    BY <2>1, SetTwo
  <2>3. t2.scheduled = Nothing /\ t2.told = <<>>
    BY <2>1, SMT DEF IsState
  <2> QED BY <2>2, <2>3
<1> HIDE DEF t2
<1>10. SameBut(t2, t3, {"acked", "surface"}) /\ t3.acked = Nothing
  <2>1. "acked" \in Fields /\ "surface" \in Fields \ {"acked"} /\ IsState(t2)
    BY <1>9 DEF Fields, Sizes, SameBut
  <2>2. SameBut(t2, t3, {"acked", "surface"})
    BY <2>1, SetTwo
  <2>3. t3.acked = Nothing
    BY <2>1, SMT DEF IsState
  <2> QED BY <2>2, <2>3
<1> HIDE DEF t3
<1>11. /\ t3.dirty = FALSE /\ t3.life = "new" /\ t3.scheduled = Nothing /\ t3.told = <<>>
       /\ t3.shell = s.shell /\ t3.serial = s.serial /\ IsState(t3)
  BY <1>7, <1>8, <1>9, <1>10 DEF SameBut, Fields, Sizes
<1>12. SameBut(u, t3, Fields \ (Sizes \cup {"shell"}))
  BY <1>8, <1>9, <1>10, InFields DEF SameBut
<1>13. Typed(t3)
  BY <1>6, <1>12, TypedKept
<1>14. s.shell = "xdg" => InOrder(t3)
  <2>1. Nothing \in Asked /\ Nothing.serial = 0 /\ <<>> \in Seq(Asked) /\ DOMAIN <<>> = {}
    BY SMT DEF Nothing, Asked
  <2>2. s.shell = "xdg" => s.serial \in Nat
    BY DEF Good, Frame, InOrder
  <2> QED BY <1>10, <1>11, <2>1, <2>2, SMT DEF InOrder
<1>15. Good(t3)
  BY <1>11, <1>14 DEF Good, Frame, Agree, AskedFor
<1> QED BY <1>1, <1>11, <1>13, <1>15 DEF t

--------------------------------------------------------------------------------
(* The actions                                                             *)

(* The states that an action becomes.                                      *)
LEMMA BecomeInv ==
  ASSUME NEW t, Good(t), Typed(t), Become(t)
  PROVE  IInv'
<1>1. Now' = t
  BY BecomeIsNext DEF Good, Frame
<1> QED BY <1>1 DEF IInv, Good, Frame, InOrder, AskedFor, Agree, Typed, CurrentSize, IsState

LEMMA NowIsThis ==
  /\ Now.shell = shell /\ Now.life = life /\ Now.size = size /\ Now.tile_size = tile_size
  /\ Now.max_size = max_size /\ Now.dirty = dirty /\ Now.op = op /\ Now.scheduled = scheduled
  /\ Now.told = told /\ Now.acked = acked /\ Now.surface = surface /\ Now.serial = serial
BY SMT DEF Now

LEMMA InitHolds == Init => IInv
<1> SUFFICES ASSUME Init PROVE IInv
  OBVIOUS
<1>1. /\ Now.shell \in {"xdg", "xwayland"} /\ Now.life = "new" /\ Now.dirty = FALSE
      /\ Now.size = 0 /\ Now.tile_size = 0 /\ Now.max_size = 0 /\ Now.serial = 0
      /\ Now.scheduled = Nothing /\ Now.acked = Nothing /\ Now.told = <<>>
  BY NowIsThis DEF Init
<1>2. Nothing \in Asked /\ Nothing.serial = 0 /\ <<>> \in Seq(Asked) /\ DOMAIN <<>> = {}
  BY SMT DEF Nothing, Asked
<1>3. InOrder(Now)
  BY <1>1, <1>2, SMT DEF InOrder
<1> DEFINE s == Now
<1>4. Frame(s)
  <2>1. IsState(s)
    BY NowIsState
  <2> HIDE DEF s
  <2> QED BY <1>1, <1>3, <2>1 DEF Frame, AskedFor, s
<1>5. Agree(Now)
  BY <1>1 DEF Agree
<1>6. Typed(Now)
  BY <1>1, SMT DEF Typed
<1> QED BY <1>4, <1>5, <1>6 DEF IInv, Good

(* The life of a surface.                                                  *)
LEMMA LifeSet ==
  ASSUME NEW s, Good(s), Typed(s), ~s.dirty, NEW l, l # "mapped"
  PROVE  LET t == [s EXCEPT !.life = l] IN Good(t) /\ Typed(t)
<1> DEFINE t == [s EXCEPT !.life = l]
<1>1. SameBut(s, t, {"life"}) /\ t.life = l
  <2>1. IsState(s)
    BY DEF Good, Frame
  <2> QED BY <2>1, SetOne, InFields
<1> HIDE DEF t
<1>2. SameBut(s, t, Sizes \cup {"surface", "life"}) /\ SameBut(s, t, Fields \ (Sizes \cup {"shell"}))
  BY <1>1, InFields DEF SameBut
<1>3. Frame(t) /\ Typed(t)
  BY <1>2, FrameKept, TypedKept DEF Good
<1>4. Agree(t)
  BY <1>1 DEF Agree
<1> QED BY <1>3, <1>4 DEF Good, t

LEMMA ScheduleGood ==
  ASSUME NEW s, Good(s), Typed(s), s.shell = "xdg"
  PROVE  Good(Schedule(s)) /\ Typed(Schedule(s)) /\ Schedule(s).dirty = s.dirty
<1>1. Frame(Schedule(s)) /\ SameBut(s, Schedule(s), {"scheduled", "serial"})
  BY FrameScheduled DEF Good
<1>2. /\ SameBut(s, Schedule(s), {"dirty", "op", "scheduled", "told", "acked", "serial"})
      /\ SameBut(s, Schedule(s), Fields \ (Sizes \cup {"shell"}))
  BY <1>1, InFields DEF SameBut
<1>3. Agree(Schedule(s)) /\ Typed(Schedule(s))
  BY <1>2, AgreeKept, TypedKept DEF Good
<1>4. Schedule(s).dirty = s.dirty
  BY <1>1 DEF SameBut, Fields, Sizes
<1> QED BY <1>1, <1>3, <1>4 DEF Good

LEMMA InitialCommitKeeps == ASSUME IInv, InitialCommit PROVE IInv'
<1> DEFINE t == [Schedule(Now) EXCEPT !.life = "initialized"]
<1>1. ~Now.dirty /\ Now.shell = "xdg"
  BY NowIsThis DEF IInv, Good, Frame, InitialCommit
<1>2. Good(Schedule(Now)) /\ Typed(Schedule(Now)) /\ ~Schedule(Now).dirty
  BY <1>1, ScheduleGood DEF IInv
<1>3. Good(t) /\ Typed(t)
  BY <1>2, LifeSet, "initialized" # "mapped"
<1> QED BY <1>3, BecomeInv DEF InitialCommit

LEMMA ReconfigureKeeps == ASSUME IInv, Reconfigure PROVE IInv'
<1>1. Good(Schedule(Now)) /\ Typed(Schedule(Now))
  BY ScheduleGood, NowIsThis DEF IInv, Reconfigure
<1> QED BY <1>1, BecomeInv DEF Reconfigure

LEMMA SendConfigureKeeps == ASSUME IInv, SendConfigure PROVE IInv'
<1> DEFINE s == Now
           next == Append(told, scheduled)
           sent == [scheduled EXCEPT !.serial = 0]
           t == [s EXCEPT !.told = next, !.scheduled = sent]
<1>1. [Now EXCEPT !.told = Append(@, scheduled), !.scheduled.serial = 0] = t
  BY NowIsThis
<1>2. s.told = told /\ s.scheduled = scheduled /\ scheduled.serial # 0
  BY NowIsThis DEF SendConfigure
<1>3. Good(s) /\ Typed(s) /\ IsState(s) /\ Frame(s)
  BY DEF IInv, Good, Frame
<1> HIDE DEF next, sent, s
<1>4. "told" \in Fields /\ "scheduled" \in Fields \ {"told"}
  BY DEF Fields, Sizes
<1>5. SameBut(s, t, {"told", "scheduled"})
  BY <1>3, <1>4, SetTwo
<1>6. t.told = next /\ t.scheduled = sent
  BY <1>3, <1>4, SMT DEF IsState
<1> HIDE DEF t
<1>7. /\ t.shell = s.shell /\ t.dirty = s.dirty /\ t.op = s.op /\ t.acked = s.acked
      /\ t.serial = s.serial /\ t.life = s.life /\ IsState(t)
  BY <1>5 DEF SameBut, Fields, Sizes
<1>8. ASSUME s.shell = "xdg" PROVE InOrder(t) /\ AskedFor(t)
  <2>1. InOrder(s) /\ AskedFor(s)
    BY <1>3, <1>8 DEF Frame
  <2>2. /\ s.serial \in Nat /\ s.scheduled.serial \in Nat /\ s.acked.serial \in Nat
        /\ scheduled \in Asked /\ told \in Seq(Asked) /\ s.acked \in Asked
        /\ \A i \in DOMAIN told : told[i].serial \in Nat
    BY <1>2, <2>1, InOrderTypes DEF InOrder
  <2>3. sent \in Asked /\ sent.serial = 0 /\ sent.size = scheduled.size
    BY <2>2, SMT DEF Asked, sent
  <2>4. /\ next \in Seq(Asked)
        /\ \A i \in DOMAIN next : next[i] = scheduled \/ (i \in DOMAIN told /\ next[i] = told[i])
    BY <2>2, SMT DEF next
  <2>5. InOrder(t)
    BY <1>2, <1>6, <1>7, <2>1, <2>2, <2>3, <2>4, SMT DEF InOrder
  <2>6. AskedFor(t)
    <3>1. s.dirty => /\ s.op.serial \in Nat /\ scheduled.size = s.op.size
                     /\ s.acked.serial >= s.op.serial => s.acked.size = s.op.size
                     /\ \A k \in DOMAIN told :
                          told[k].serial >= s.op.serial => told[k].size = s.op.size
      BY <1>2, <2>1 DEF AskedFor
    <3>2. s.dirty => \A i \in DOMAIN next :
                       next[i].serial >= s.op.serial => next[i].size = s.op.size
      BY <2>4, <3>1
    <3> QED BY <1>6, <1>7, <2>3, <3>1, <3>2 DEF AskedFor
  <2> QED BY <2>5, <2>6
<1>9. Frame(t)
  BY <1>3, <1>7, <1>8 DEF Frame
<1>10. /\ SameBut(s, t, {"dirty", "op", "scheduled", "told", "acked", "serial"})
       /\ SameBut(s, t, Fields \ (Sizes \cup {"shell"}))
  BY <1>5, InFields DEF SameBut
<1>11. Good(t) /\ Typed(t)
  BY <1>3, <1>9, <1>10, AgreeKept, TypedKept DEF Good
<1> QED BY <1>1, <1>11, BecomeInv DEF SendConfigure

LEMMA AckConfigureKeeps == ASSUME IInv, AckConfigure PROVE IInv'
<1> DEFINE s == Now
<1>1. PICK i \in DOMAIN told :
        Become([Now EXCEPT !.acked = told[i], !.told = SubSeq(@, i + 1, Len(@))])
  BY DEF AckConfigure
<1> DEFINE answered == told[i]
           rest == SubSeq(told, i + 1, Len(told))
           t == [s EXCEPT !.acked = answered, !.told = rest]
<1>2. [Now EXCEPT !.acked = told[i], !.told = SubSeq(@, i + 1, Len(@))] = t
  BY NowIsThis
<1>3. s.told = told /\ s.shell = "xdg"
  BY NowIsThis DEF AckConfigure
<1>4. Good(s) /\ Typed(s) /\ IsState(s) /\ Frame(s)
  BY DEF IInv, Good, Frame
<1> HIDE DEF rest, answered, s
<1>5. "acked" \in Fields /\ "told" \in Fields \ {"acked"}
  BY DEF Fields, Sizes
<1>6. SameBut(s, t, {"acked", "told"})
  BY <1>4, <1>5, SetTwo
<1>7. t.acked = answered /\ t.told = rest
  BY <1>4, <1>5, SMT DEF IsState
<1>8. t = [Now EXCEPT !.acked = told[i], !.told = SubSeq(@, i + 1, Len(@))]
  BY <1>2
<1> HIDE DEF t
<1>9. /\ t.shell = s.shell /\ t.dirty = s.dirty /\ t.op = s.op /\ t.scheduled = s.scheduled
      /\ t.serial = s.serial /\ t.life = s.life /\ IsState(t)
  BY <1>6 DEF SameBut, Fields, Sizes
<1>10. InOrder(s) /\ AskedFor(s)
  BY <1>3, <1>4 DEF Frame
<1>11. /\ s.serial \in Nat /\ s.scheduled.serial \in Nat /\ s.scheduled \in Asked
       /\ told \in Seq(Asked)
       /\ \A j \in DOMAIN told : told[j] \in Asked /\ told[j].serial \in Nat
  BY <1>3, <1>10, InOrderTypes DEF InOrder
<1>12. rest \in Seq(Asked) /\ \A j \in DOMAIN rest : \E k \in DOMAIN told : rest[j] = told[k]
  BY <1>11, SMT DEF rest
<1>13. answered \in Asked /\ answered = told[i]
  BY <1>11 DEF answered
<1>14. InOrder(t)
  BY <1>3, <1>7, <1>9, <1>10, <1>11, <1>12, <1>13, SMT DEF InOrder
<1>15. AskedFor(t)
  <2>1. s.dirty => /\ s.op.serial \in Nat /\ s.scheduled.size = s.op.size
                   /\ \A k \in DOMAIN told :
                        told[k].serial >= s.op.serial => told[k].size = s.op.size
    BY <1>3, <1>10 DEF AskedFor
  <2>2. s.dirty /\ answered.serial >= s.op.serial => answered.size = s.op.size
    BY <1>13, <2>1
  <2>3. s.dirty => \A j \in DOMAIN rest : rest[j].serial >= s.op.serial => rest[j].size = s.op.size
    BY <1>12, <2>1
  <2> QED
    BY <1>7, <1>9, <2>1, <2>2, <2>3 DEF AskedFor
<1>16. Frame(t)
  BY <1>4, <1>9, <1>14, <1>15 DEF Frame
<1>17. /\ SameBut(s, t, {"dirty", "op", "scheduled", "told", "acked", "serial"})
       /\ SameBut(s, t, Fields \ (Sizes \cup {"shell"}))
  BY <1>6, InFields DEF SameBut
<1>18. Good(t) /\ Typed(t)
  BY <1>4, <1>16, <1>17, AgreeKept, TypedKept DEF Good
<1> QED BY <1>1, <1>8, <1>18, BecomeInv

LEMMA UnmapKeeps == ASSUME IInv, Unmap PROVE IInv'
<1>1. Good(Unmapped(Now)) /\ Typed(Unmapped(Now))
  BY UnmappedGood DEF IInv
<1> QED BY <1>1, BecomeInv DEF Unmap

LEMMA DestroyKeeps == ASSUME IInv, Destroy PROVE IInv'
<1> DEFINE s == IF life = "mapped" THEN Unmapped(Now) ELSE Now
           u == [s EXCEPT !.life = "gone"]
           t == [u EXCEPT !.scheduled = Nothing, !.told = <<>>]
<1>1. Become(t)
  BY DEF Destroy
<1>2. Good(s) /\ Typed(s) /\ ~s.dirty
  <2>1. CASE life = "mapped"
    BY <2>1, UnmappedGood DEF IInv
  <2>2. CASE life # "mapped"
    BY <2>2, NowIsThis DEF IInv, Good, Frame
  <2> QED BY <2>1, <2>2
<1> HIDE DEF s
<1>3. Good(u) /\ Typed(u) /\ u.dirty = FALSE /\ u.life = "gone"
  <2>1. IsState(s)
    BY <1>2 DEF Good, Frame
  <2>2. Good(u) /\ Typed(u)
    BY <1>2, LifeSet, "gone" # "mapped"
  <2>3. SameBut(s, u, {"life"}) /\ u.life = "gone"
    <3>1. "life" \in Fields
      BY DEF Fields
    <3> QED BY <2>1, <3>1, SetOne
  <2>4. u.dirty = s.dirty /\ s.dirty \in BOOLEAN
    BY <1>2, <2>3 DEF SameBut, Fields, Sizes, Good, Frame
  <2> QED BY <1>2, <2>2, <2>3, <2>4
<1> HIDE DEF u
<1>4. IsState(u) /\ Frame(u)
  BY <1>3 DEF Good, Frame
<1>5. SameBut(u, t, {"scheduled", "told"}) /\ t.scheduled = Nothing /\ t.told = <<>>
  <2>1. "scheduled" \in Fields /\ "told" \in Fields \ {"scheduled"}
    BY DEF Fields, Sizes
  <2>2. SameBut(u, t, {"scheduled", "told"})
    BY <1>4, <2>1, SetTwo
  <2>3. t.scheduled = Nothing /\ t.told = <<>>
    BY <1>4, <2>1, SMT DEF IsState
  <2> QED BY <2>2, <2>3
<1> HIDE DEF t
<1>6. /\ t.shell = u.shell /\ t.dirty = FALSE /\ t.life = "gone"
      /\ t.acked = u.acked /\ t.serial = u.serial /\ IsState(t)
  BY <1>3, <1>5 DEF SameBut, Fields, Sizes
<1>7. u.shell = "xdg" => InOrder(t)
  <2>1. Nothing \in Asked /\ Nothing.serial = 0 /\ <<>> \in Seq(Asked) /\ DOMAIN <<>> = {}
    BY SMT DEF Nothing, Asked
  <2>2. u.shell = "xdg" => u.serial \in Nat /\ u.acked \in Asked /\ u.acked.serial <= u.serial
    BY <1>4 DEF Frame, InOrder
  <2> QED BY <1>5, <1>6, <2>1, <2>2, SMT DEF InOrder
<1>8. Good(t)
  BY <1>4, <1>6, <1>7 DEF Good, Frame, Agree, AskedFor
<1>9. Typed(t)
  <2>1. SameBut(u, t, Fields \ (Sizes \cup {"shell"}))
    BY <1>5, InFields DEF SameBut
  <2> QED BY <1>3, <2>1, TypedKept
<1> QED BY <1>1, <1>8, <1>9, BecomeInv DEF t, u

(* A commit makes the size of its buffer that of the surface.               *)
LEMMA CommittedXdg ==
  ASSUME IInv, shell = "xdg", NEW n \in Size
  PROVE  LET c == Committed(n)
         IN  /\ Frame(c) /\ Typed(c) /\ SameBut(Now, c, {"surface"}) /\ c.shell = "xdg"
             /\ c.surface.size = n
             /\ c.surface.answers = acked.size /\ c.surface.serial = acked.serial
<1> DEFINE shown == [size |-> n, answers |-> acked.size, serial |-> acked.serial]
           c == [Now EXCEPT !.surface = shown]
<1>1. Committed(n) = c
  BY DEF Committed
<1>7. shown.size = n /\ shown.answers = acked.size /\ shown.serial = acked.serial
  OBVIOUS
<1> HIDE DEF shown
<1>2. SameBut(Now, c, {"surface"}) /\ c.surface = shown
  BY NowIsState, SetOne, InFields
<1> HIDE DEF c
<1>3. /\ SameBut(Now, c, Sizes \cup {"surface", "life"})
      /\ SameBut(Now, c, Fields \ (Sizes \cup {"shell"}))
  BY <1>2, InFields DEF SameBut
<1>4. c.shell = Now.shell /\ c.life = Now.life
  BY <1>2 DEF SameBut, Fields, Sizes
<1>5. Frame(c)
  BY <1>3, <1>4, FrameKept DEF IInv, Good, Frame
<1>6. Typed(c)
  BY <1>3, TypedKept DEF IInv
<1> QED BY <1>1, <1>2, <1>4, <1>5, <1>6, <1>7, NowIsThis

LEMMA CommittedX ==
  ASSUME IInv, shell # "xdg", NEW n
  PROVE  LET c == Committed(n)
         IN  /\ Frame(c) /\ SameBut(Now, c, {"told"}) /\ c.shell = "xwayland"
<1> DEFINE c == [Now EXCEPT !.told = <<>>]
<1>1. Committed(n) = c
  BY DEF Committed
<1>2. SameBut(Now, c, {"told"})
  BY NowIsState, SetOne, InFields
<1> HIDE DEF c
<1>3. c.shell = Now.shell /\ c.life = Now.life /\ c.dirty = Now.dirty /\ c.op = Now.op /\ IsState(c)
  BY <1>2 DEF SameBut, Fields, Sizes
<1>4. Now.shell = "xwayland"
  BY NowIsThis DEF IInv, Good, Frame
<1>5. Frame(c)
  BY <1>3, <1>4 DEF IInv, Good, Frame
<1> QED BY <1>1, <1>2, <1>3, <1>4, <1>5

LEMMA CommitKeeps == ASSUME IInv, NEW n \in Size, Commit(n) PROVE IInv'
<1>1. CASE shell = "xdg"
  <2>1. Good(CommitXdg(Committed(n))) /\ Typed(CommitXdg(Committed(n)))
    <3>1. /\ Frame(Committed(n)) /\ Typed(Committed(n)) /\ Committed(n).shell = "xdg"
          /\ Committed(n).surface.size = n
      BY <1>1, CommittedXdg
    <3> QED BY <3>1, CommitXdgGood
  <2> QED BY <1>1, <2>1, BecomeInv DEF Commit
<1>2. CASE shell # "xdg"
  <2>1. Good(CommitX(Committed(n))) /\ Typed(CommitX(Committed(n)))
    BY <1>2, CommittedX, CommitXGood
  <2> QED BY <1>2, <2>1, BecomeInv DEF Commit
<1> QED BY <1>1, <1>2

LEMMA MapKeeps == ASSUME IInv, NEW n \in Size, Map(n) PROVE IInv'
<1> DEFINE c == Committed(n)
           m == [c EXCEPT !.life = "mapped"]
<1>1. ~Now.dirty
  BY NowIsThis DEF IInv, Good, Frame, Map
<1>2. n \in Nat /\ n # 0
  BY SizeIsPositive
<1>3. CASE shell = "xdg"
  <2> DEFINE t == Refreshed(m, n)
  <2>1. /\ Frame(c) /\ Typed(c) /\ SameBut(Now, c, {"surface"}) /\ c.shell = "xdg"
        /\ c.surface.size = n
    BY <1>3, CommittedXdg
  <2>2. Become(t)
    BY <1>3 DEF Map
  <2> HIDE DEF c
  <2>3. IsState(c)
    BY <2>1 DEF Frame
  <2>4. SameBut(c, m, {"life"}) /\ m.life = "mapped"
    <3>1. "life" \in Fields
      BY DEF Fields
    <3> QED BY <2>3, <3>1, SetOne
  <2> HIDE DEF m
  <2>5. IsState(m) /\ m.shell = "xdg" /\ m.surface = c.surface
    BY <2>1, <2>4 DEF SameBut, Fields, Sizes
  <2>6. Frame(m) /\ Typed(m)
    <3>1. /\ SameBut(c, m, Sizes \cup {"surface", "life"})
          /\ SameBut(c, m, Fields \ (Sizes \cup {"shell"}))
      BY <2>4, InFields DEF SameBut
    <3> QED BY <2>1, <2>4, <3>1, FrameKept, TypedKept
  <2>7. SameBut(m, t, Sizes) /\ CurrentSize(t) = n /\ Typed(t)
    BY <1>2, <2>5, <2>6, RefreshedFacts, RefreshedTyped
  <2> HIDE DEF t
  <2>8. t.surface = m.surface /\ t.life = "mapped" /\ t.shell = "xdg"
    BY <2>4, <2>5, <2>7 DEF SameBut, Fields, Sizes
  <2>9. Frame(t)
    <3>1. SameBut(m, t, Sizes \cup {"surface", "life"})
      BY <2>7 DEF SameBut
    <3> QED BY <2>6, <2>8, <3>1, FrameKept
  <2>10. Agree(t)
    BY <2>1, <2>5, <2>7, <2>8 DEF Agree
  <2> QED BY <2>2, <2>7, <2>9, <2>10, BecomeInv DEF Good
<1>4. CASE shell # "xdg"
  <2> DEFINE k == ConfigureX(m, n)
             t == Refreshed(k, n)
  <2>1. Frame(c) /\ SameBut(Now, c, {"told"}) /\ c.shell = "xwayland"
    BY <1>4, CommittedX
  <2>2. Become(t)
    BY <1>4 DEF Map
  <2> HIDE DEF c
  <2>3. IsState(c) /\ c.dirty = Now.dirty
    BY <2>1 DEF SameBut, Fields, Sizes
  <2>4. SameBut(c, m, {"life"}) /\ m.life = "mapped"
    <3>1. "life" \in Fields
      BY DEF Fields
    <3> QED BY <2>3, <3>1, SetOne
  <2> HIDE DEF m
  <2>5. IsState(m) /\ m.shell = "xwayland" /\ m.dirty = c.dirty
    BY <2>1, <2>4 DEF SameBut, Fields, Sizes
  <2>6. SameBut(m, k, {"surface", "told"})
    BY <2>5, ConfigureXFacts
  <2> HIDE DEF k
  <2>7. SameBut(k, t, Sizes)
    BY <2>6, RefreshedFacts DEF SameBut
  <2> HIDE DEF t
  <2>8. t.shell = "xwayland" /\ t.dirty = m.dirty /\ IsState(t)
    BY <2>5, <2>6, <2>7 DEF SameBut, Fields, Sizes
  <2>9. ~t.dirty /\ t.dirty \in BOOLEAN
    BY <1>1, <2>3, <2>5, <2>8 DEF IInv, Good, Frame
  <2>10. Good(t) /\ Typed(t)
    BY <2>8, <2>9, GoodX DEF Typed
  <2> QED BY <2>2, <2>10, BecomeInv
<1> QED BY <1>3, <1>4

LEMMA RequestConfigureKeeps == ASSUME IInv, NEW n, RequestConfigure(n) PROVE IInv'
<1> DEFINE k == ConfigureX(Now, n)
           number == k.serial + 1
           t == [k EXCEPT !.serial = number]
<1>1. Become(t)
  BY DEF RequestConfigure
<1>2. SameBut(Now, k, {"surface", "told"})
  BY NowIsState, ConfigureXFacts
<1> HIDE DEF k, number
<1>3. IsState(k) /\ k.shell = Now.shell /\ k.life = Now.life /\ k.dirty = Now.dirty /\ k.op = Now.op
  BY <1>2 DEF SameBut, Fields, Sizes
<1>4. SameBut(k, t, {"serial"})
  BY <1>3, SetOne, InFields
<1>5. Become(t)
  BY <1>1 DEF number
<1> HIDE DEF t
<1>6. /\ IsState(t) /\ t.shell = Now.shell /\ t.life = Now.life /\ t.dirty = Now.dirty
      /\ t.op = Now.op
  BY <1>3, <1>4 DEF SameBut, Fields, Sizes
<1>7. Now.shell = "xwayland"
  BY NowIsThis DEF RequestConfigure
<1>8. Good(t) /\ Typed(t)
  BY <1>6, <1>7, GoodX DEF IInv, Good, Frame, Typed
<1> QED BY <1>5, <1>8, BecomeInv

LEMMA CountedTyped ==
  ASSUME NEW s, Good(s), Typed(s), s.shell = shell
  PROVE  Typed(Counted(s))
<1>1. CASE shell = "xdg"
  BY <1>1 DEF Counted
<1>2. CASE shell # "xdg"
  <2> DEFINE t == [s EXCEPT !.serial = s.serial + 1]
  <2>1. Counted(s) = t
    BY <1>2 DEF Counted
  <2>2. IsState(s)
    BY DEF Good, Frame
  <2>3. SameBut(s, t, {"serial"})
    BY <2>2, SetOne, InFields
  <2> HIDE DEF t
  <2>4. SameBut(s, t, Fields \ (Sizes \cup {"shell"}))
    BY <2>3, InFields DEF SameBut
  <2> QED BY <2>1, <2>4, TypedKept
<1> QED BY <1>1, <1>2

(* The operations: a size to ask for, and the handler that asks.            *)
LEMMA ResizeKeeps ==
  ASSUME IInv, life = "mapped", NEW type \in Operation, NEW n, shell = "xdg" => n \in Nat,
         Become(Counted(Resize(Now, type, n)))
  PROVE  IInv'
<1> DEFINE t == Resize(Now, type, n)
<1>1. Good(t) /\ Typed(t) /\ t.shell = shell
  BY GoodResize, ResizeTyped, NowIsThis DEF IInv
<1> HIDE DEF t
<1>2. Good(Counted(t)) /\ Typed(Counted(t))
  BY <1>1, GoodCounted, CountedTyped
<1> QED BY <1>2, BecomeInv DEF t

LEMMA QueueKeeps ==
  ASSUME IInv, life = "mapped", NEW type \in Operation, NEW n, shell = "xdg" => n \in Nat,
         Become(Counted(Queue(Now, type, n)))
  PROVE  IInv'
<1> DEFINE t == Queue(Now, type, n)
<1>1. Good(t) /\ Typed(t) /\ t.shell = shell
  BY GoodQueue, QueueTyped, NowIsThis DEF IInv
<1> HIDE DEF t
<1>2. Good(Counted(t)) /\ Typed(Counted(t))
  BY <1>1, GoodCounted, CountedTyped
<1> QED BY <1>2, BecomeInv DEF t

LEMMA ResizeViewKeeps == ASSUME IInv, NEW n \in Size, ResizeView(n) PROVE IInv'
<1>1. "resize" \in Operation
  BY DEF Operation
<1> QED BY <1>1, SizeIsPositive, ResizeKeeps DEF ResizeView, May

LEMMA ToggleFullMaximizeKeeps == ASSUME IInv, ToggleFullMaximize PROVE IInv'
<1>1. "maximize" \in Operation /\ "unmaximize" \in Operation
  BY DEF Operation
<1>2. Full \in Nat
  BY SizesAreNumbers
<1>3. shell = "xdg" => size \in Nat /\ tile_size \in Nat
  BY NowIsThis DEF IInv, Typed
<1>4. CASE max_size # 0
  BY <1>1, <1>3, <1>4, ResizeKeeps DEF ToggleFullMaximize, May
<1>5. CASE max_size = 0
  BY <1>1, <1>2, <1>5, ResizeKeeps DEF ToggleFullMaximize, May
<1> QED BY <1>4, <1>5

LEMMA TileViewKeeps == ASSUME IInv, NEW n \in Size, TileView(n) PROVE IInv'
<1>1. "tile" \in Operation
  BY DEF Operation
<1> QED BY <1>1, SizeIsPositive, QueueKeeps DEF TileView, May

LEMMA ResetViewKeeps == ASSUME IInv, ResetView PROVE IInv'
<1>1. "reset" \in Operation
  BY DEF Operation
<1>2. shell = "xdg" => size \in Nat
  BY NowIsThis DEF IInv, Typed
<1> QED BY <1>1, <1>2, QueueKeeps DEF ResetView, May

LEMMA StutterKeeps == ASSUME IInv, UNCHANGED vars PROVE IInv'
<1>1. Become(Now)
  BY NowIsThis DEF Become, vars
<1> QED BY <1>1, BecomeInv DEF IInv

LEMMA NextKeeps == IInv /\ [Next]_vars => IInv'
<1> SUFFICES ASSUME IInv, [Next]_vars PROVE IInv'
  OBVIOUS
<1>1. CASE UNCHANGED vars
  BY <1>1, StutterKeeps
<1>2. CASE InitialCommit
  BY <1>2, InitialCommitKeeps
<1>3. CASE SendConfigure
  BY <1>3, SendConfigureKeeps
<1>4. CASE AckConfigure
  BY <1>4, AckConfigureKeeps
<1>5. CASE Unmap
  BY <1>5, UnmapKeeps
<1>6. CASE Destroy
  BY <1>6, DestroyKeeps
<1>7. CASE Reconfigure
  BY <1>7, ReconfigureKeeps
<1>8. ASSUME NEW n \in Size, Map(n) PROVE IInv'
  BY <1>8, MapKeeps
<1>9. ASSUME NEW n \in Size, Commit(n) PROVE IInv'
  BY <1>9, CommitKeeps
<1>10. ASSUME NEW n \in Size, RequestConfigure(n) PROVE IInv'
  BY <1>10, RequestConfigureKeeps
<1>11. ASSUME NEW n \in Size, ResizeView(n) PROVE IInv'
  BY <1>11, ResizeViewKeeps
<1>12. ASSUME NEW n \in Size, TileView(n) PROVE IInv'
  BY <1>12, TileViewKeeps
<1>13. CASE ToggleFullMaximize
  BY <1>13, ToggleFullMaximizeKeeps
<1>14. CASE ResetView
  BY <1>14, ResetViewKeeps
<1> QED
  BY <1>1, <1>2, <1>3, <1>4, <1>5, <1>6, <1>7, <1>8, <1>9, <1>10, <1>11, <1>12, <1>13, <1>14
  DEF Next

--------------------------------------------------------------------------------
(* The theorems                                                            *)

(* The strengthening: events in the order of their serials, and every event *)
(* from the one that asked for the pending operation on asks for its size.  *)
THEOREM HandshakeInvariant == Spec => []IInv
BY InitHolds, NextKeeps, PTL DEF Spec

(* What is drawn around an xdg client has the size of its buffer, whatever   *)
(* is pending (commit_handler of xdg_view.c).                                *)
THEOREM SizesAgree == Spec => []SizeIsTheClients
<1>1. IInv => SizeIsTheClients
  BY NowIsThis DEF IInv, Good, Agree, SizeIsTheClients
<1> QED BY <1>1, HandshakeInvariant, PTL

(* Only the answer to its own configure event, or to a later one that asks   *)
(* for the same, applies an operation (hikari_view_was_updated).             *)
THEOREM OnlyAnswersApply == Spec => OperationsAreAnswered
<1>1. ASSUME IInv, shell = "xdg", dirty, ~dirty', Answers
      PROVE  surface'.answers = op.size
  <2>1. PICK n \in Size : Commit(n)
    BY <1>1 DEF Answers
  <2> DEFINE c == Committed(n)
             t == CommitXdg(c)
  <2>2. /\ Frame(c) /\ Typed(c) /\ SameBut(Now, c, {"surface"}) /\ c.shell = "xdg"
        /\ c.surface.size = n
        /\ c.surface.answers = acked.size /\ c.surface.serial = acked.serial
    BY <1>1, CommittedXdg
  <2>3. Become(t)
    BY <1>1, <2>1 DEF Commit
  <2> HIDE DEF c
  <2>4. t.surface = c.surface /\ (c.dirty /\ ~t.dirty => WasUpdated(c))
    BY <2>2, CommitXdgGood
  <2> HIDE DEF t
  <2>5. surface' = c.surface /\ ~t.dirty
    BY <1>1, <2>3, <2>4 DEF Become
  <2>6. c.dirty = dirty /\ c.op = op
    BY <2>2, NowIsThis DEF SameBut, Fields, Sizes
  <2>7. acked.serial >= op.serial
    BY <1>1, <2>2, <2>4, <2>5, <2>6 DEF WasUpdated
  <2>8. acked.serial >= op.serial => acked.size = op.size
    BY <1>1, NowIsThis DEF IInv, Good, Frame, AskedFor
  <2> QED BY <2>2, <2>5, <2>7, <2>8
<1>2. IInv /\ [Next]_vars => [shell = "xdg" /\ dirty /\ ~dirty' /\ Answers
                               => surface'.answers = op.size]_vars
  BY <1>1
<1> QED BY <1>2, HandshakeInvariant, PTL DEF Spec, OperationsAreAnswered

================================================================================
