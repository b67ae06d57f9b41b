------------------------------ MODULE Session ------------------------------
(***************************************************************************)
(* The session: the lock screen with its password, its timers and the      *)
(* unlocker process at the other end of two pipes (lock_mode.c,            *)
(* lock_indicator.c, hikari_unlocker.c), the outputs that are switched off *)
(* and on (output.c, server.c), and the shutdown, which waits for the      *)
(* views of the clients (server.c).                                        *)
(*                                                                         *)
(* The compositor is one event loop.  It stands still while submit_password*)
(* waits for the unlocker (`waiting`); only a signal is handled then.  A   *)
(* code point is the sequence of its bytes, and the buffer holds bytes.    *)
(* Which views are shown on the lock screen is in Desktop.                 *)
(***************************************************************************)
EXTENDS Naturals, SequencesExt

CONSTANTS
    Output, View,
    Char,        \* the code points that are typed, each a sequence of bytes
    Password,    \* the bytes of the right password
    BufferSize,  \* BUFFER_SIZE and INPUT_BUFFER_SIZE: 1024 in the code
    Zero,        \* the byte that ends a string
    MaxFilled,   \* bound: the passwords that fill the buffer in one lock
    Noop, NULL

Byte == UNION {ToSet(c) : c \in Char}
Control == {"Escape", "BackSpace", "Return", "Ctrl+c", "Shift_L"}

ASSUME BufferAssumption == BufferSize \in Nat /\ BufferSize > 1
ASSUME BoundAssumption == MaxFilled \in Nat
ASSUME CharAssumption ==
    /\ \A c \in Char : c \in Seq(ToSet(c)) /\ c # <<>>
    /\ Zero \notin Byte
    /\ Password \in Seq(Byte)
ASSUME NoopAssumption == Noop \notin Output /\ NULL \notin Output \cup {Noop}

VARIABLES
    mode,             \* server.mode: the lock mode, or any other
    waiting,          \* what submit_password() waits for
    input_buffer,     \* the bytes up to the cursor of the lock mode
    question, answer, \* the two pipes: bytes and answers that are not read
    unlocker,         \* what the unlocker process is doing
    given,            \* the string that the unlocker has read
    entered,          \* history: a password of this lock had the right one in it
    granted,          \* history: one was the right one
    filled,           \* history: how many have filled the buffer
    indicator,        \* lock_indicator->current, "gone" when it is freed
    reset_state,      \* its timer is armed
    disable_outputs,  \* the timer of the lock mode
    outputs_disabled, \* the flag of the lock mode
    outputs, enabled, \* server.outputs, and those that are enabled
    cursor_active,    \* the cursor's listeners are linked
    place,            \* the output that has a mapped view in its list
    asked,            \* the views that were asked to quit
    shutdown_timer,   \* it is there, and armed
    process           \* the compositor: running, terminated, stopped, crashed

entry == <<entered, granted, filled>>
lock == <<input_buffer, question, answer, unlocker, given, entry>>
screen == <<indicator, reset_state, disable_outputs, outputs_disabled>>
clients == <<place, asked>>
vars == <<mode, waiting, lock, screen, outputs, enabled, cursor_active, clients,
          shutdown_timer, process>>

Init ==
    /\ mode = "normal" /\ waiting = "nothing"
    /\ input_buffer = <<>> /\ question = <<>> /\ answer = <<>>
    /\ unlocker = "gone" /\ given = <<>>
    /\ entered = FALSE /\ granted = FALSE /\ filled = 0
    /\ indicator = "gone" /\ reset_state = FALSE
    /\ disable_outputs = "gone" /\ outputs_disabled = FALSE
    /\ outputs = {} /\ enabled = {} /\ cursor_active = TRUE
    /\ place = [v \in View |-> NULL] /\ asked = {}
    /\ shutdown_timer = FALSE /\ process = "running"

(* The event loop dispatches the next event. *)
Dispatch == process = "running" /\ waiting = "nothing"

-----------------------------------------------------------------------------
(* The lock screen.                                                        *)

(* hikari_lock_mode_enter() *)
Lock ==
    /\ Dispatch /\ mode = "normal"
    /\ mode' = "lock"
    /\ input_buffer' = <<>>
    /\ question' = <<>> /\ answer' = <<>> /\ given' = <<>>
    /\ unlocker' = "reading"
    /\ entered' = FALSE /\ granted' = FALSE /\ filled' = 0
    /\ indicator' = "none" /\ reset_state' = FALSE
    /\ disable_outputs' = "armed"
    /\ cursor_active' = FALSE
    /\ UNCHANGED <<waiting, outputs_disabled, outputs, enabled, clients, shutdown_timer,
                   process>>

(* What a key does to the buffer and the indicator, in lock mode. *)
Show(what, armed) == indicator' = what /\ reset_state' = armed

ClearPassword == input_buffer' = <<>> /\ Show("none", FALSE)

PutChar(c) ==
    IF Len(input_buffer) + Len(c) < BufferSize
    THEN input_buffer' = input_buffer \o c /\ Show("type", TRUE)
    ELSE UNCHANGED <<input_buffer, indicator, reset_state>>

(* One byte is deleted, not one code point.                                *)
DeleteChar ==
    IF input_buffer = <<>> THEN UNCHANGED <<input_buffer, indicator, reset_state>>
    ELSE /\ input_buffer' = Front(input_buffer)
         /\ IF Len(input_buffer) = 1 THEN Show("none", FALSE) ELSE Show("type", TRUE)

(* enable_outputs(), on every key that is pressed; the mutant forgets the  *)
(* flag.                                                                   *)
EnableOutputsStayDisabled ==
    /\ enabled' = IF outputs_disabled THEN outputs ELSE enabled
    /\ UNCHANGED outputs_disabled
EnableOutputs ==
    /\ enabled' = IF outputs_disabled THEN outputs ELSE enabled
    /\ outputs_disabled' = FALSE

EditKey(k) ==
    /\ Dispatch /\ mode = "lock"
    /\ EnableOutputs
    /\ \/ k = "Escape" /\ ClearPassword
       \/ k = "BackSpace" /\ DeleteChar
       \/ k = "Shift_L" /\ UNCHANGED <<input_buffer, indicator, reset_state>>
       \/ k \in Char /\ PutChar(k)
    /\ disable_outputs' = "armed"
    /\ UNCHANGED <<mode, waiting, question, answer, unlocker, given, entry,
                   outputs, cursor_active, clients, shutdown_timer, process>>

Fills(password) == IF Len(password) = BufferSize - 1 THEN 1 ELSE 0

(* submit_password() up to the read(); the string is written with its end, *)
(* and an unlocker that is gone reads nothing.  MaxFilled bounds how often *)
(* a password fills the buffer: each leaves one more answer in the pipe    *)
(* than is read.                                                           *)
SubmitPassword ==
    /\ Dispatch /\ mode = "lock"
    /\ filled + Fills(input_buffer) <= MaxFilled
    /\ EnableOutputs
    /\ waiting' = "answer"
    /\ Show("verify", FALSE)
    /\ question' = IF unlocker = "gone" THEN question
                   ELSE question \o Append(input_buffer, Zero)
    /\ entered' = (entered \/ Password \in SubSeqs(input_buffer))
    /\ granted' = (granted \/ input_buffer = Password)
    /\ filled' = filled + Fills(input_buffer)
    /\ input_buffer' = <<>>
    /\ UNCHANGED <<mode, answer, unlocker, given, disable_outputs, outputs, cursor_active,
                   clients, shutdown_timer, process>>

(* The read() returns: an answer, or the end of a pipe that nobody writes. *)
(* A refusal is shown, and key_handler() arms the timer.                   *)
Refused ==
    /\ waiting = "answer"
    /\ \/ answer # <<>> /\ ~Head(answer) /\ answer' = Tail(answer)
       \/ answer = <<>> /\ unlocker = "gone" /\ UNCHANGED answer
    /\ waiting' = "nothing"
    /\ Show("deny", TRUE)
    /\ disable_outputs' = "armed"
    /\ UNCHANGED <<mode, input_buffer, question, unlocker, given, entry,
                   outputs_disabled, outputs, enabled, cursor_active, clients, shutdown_timer,
                   process>>

(* The mutant takes the end of the pipe for success. *)
AcceptedAtEnd ==
    /\ waiting = "answer"
    /\ \/ answer # <<>> /\ Head(answer) /\ answer' = Tail(answer)
       \/ answer = <<>> /\ unlocker = "gone" /\ UNCHANGED answer
    /\ waiting' = "exit"
    /\ UNCHANGED <<mode, input_buffer, question, unlocker, given, entry, screen,
                   outputs, enabled, cursor_active, clients, shutdown_timer, process>>
Accepted ==
    /\ waiting = "answer"
    /\ answer # <<>> /\ Head(answer)
    /\ answer' = Tail(answer)
    /\ waiting' = "exit"
    /\ UNCHANGED <<mode, input_buffer, question, unlocker, given, entry, screen,
                   outputs, enabled, cursor_active, clients, shutdown_timer, process>>

(* wait() returns, and cancel() leaves the lock mode.                      *)
Cancel ==
    /\ mode' = "normal" /\ disable_outputs' = "gone"
    /\ Show("gone", FALSE) /\ cursor_active' = TRUE
    /\ enabled' = outputs
    /\ UNCHANGED outputs_disabled

Unlock ==
    /\ waiting = "exit" /\ unlocker = "gone"
    /\ waiting' = "nothing"
    /\ Cancel
    /\ UNCHANGED <<lock, outputs, clients, shutdown_timer, process>>

-----------------------------------------------------------------------------
(* The timers of the lock screen.                                          *)

(* disable_outputs(), from Ctrl+c and from the timer; the mutant leaves    *)
(* the timer armed and the outputs on.                                     *)
DisableOutputsLit ==
    /\ disable_outputs' = "idle" /\ outputs_disabled' = TRUE
    /\ enabled' = enabled
    /\ ClearPassword
    /\ UNCHANGED <<mode, waiting, question, answer, unlocker, given, entry, outputs,
                   cursor_active, clients, shutdown_timer, process>>
DisableOutputs ==
    /\ disable_outputs' = "idle" /\ outputs_disabled' = TRUE
    /\ enabled' = {}
    /\ ClearPassword
    /\ UNCHANGED <<mode, waiting, question, answer, unlocker, given, entry, outputs,
                   cursor_active, clients, shutdown_timer, process>>

DisableKey == Dispatch /\ mode = "lock" /\ DisableOutputs

DisableTimer == Dispatch /\ disable_outputs = "armed" /\ DisableOutputs

(* reset_state_handler() *)
ResetState ==
    /\ Dispatch /\ reset_state
    /\ Show(IF indicator = "deny" THEN "none" ELSE "wait", FALSE)
    /\ UNCHANGED <<mode, waiting, lock, disable_outputs, outputs_disabled, outputs, enabled,
                   cursor_active, clients, shutdown_timer, process>>

-----------------------------------------------------------------------------
(* The unlocker process: check_password() until it succeeds.  It reads     *)
(* less than the size of its buffer, and what it reads ends at a zero.     *)

StringUnended(bytes) == bytes
String(bytes) ==
    IF Contains(bytes, Zero)
    THEN SubSeq(bytes, 1, (CHOOSE i \in 1 .. Len(bytes) :
            bytes[i] = Zero /\ \A j \in 1 .. i - 1 : bytes[j] # Zero) - 1)
    ELSE bytes

(* The mutant reads two bytes less. *)
ReadLess ==
    /\ unlocker = "reading" /\ question # <<>>
    /\ LET n == IF Len(question) < BufferSize - 1 THEN Len(question) ELSE BufferSize - 2
       IN  /\ given' = String(SubSeq(question, 1, n))
           /\ question' = SubSeq(question, n + 1, Len(question))
    /\ unlocker' = "checking"
    /\ UNCHANGED <<mode, waiting, input_buffer, answer, entry, screen, outputs,
                   enabled, cursor_active, clients, shutdown_timer, process>>
Read ==
    /\ unlocker = "reading" /\ question # <<>>
    /\ LET n == IF Len(question) < BufferSize THEN Len(question) ELSE BufferSize - 1
       IN  /\ given' = String(SubSeq(question, 1, n))
           /\ question' = SubSeq(question, n + 1, Len(question))
    /\ unlocker' = "checking"
    /\ UNCHANGED <<mode, waiting, input_buffer, answer, entry, screen, outputs,
                   enabled, cursor_active, clients, shutdown_timer, process>>

Check ==
    /\ unlocker = "checking"
    /\ answer' = Append(answer, given = Password)
    /\ unlocker' = IF given = Password THEN "exiting" ELSE "reading"
    /\ given' = <<>>
    /\ UNCHANGED <<mode, waiting, input_buffer, question, entry, screen, outputs,
                   enabled, cursor_active, clients, shutdown_timer, process>>

Exit ==
    /\ unlocker = "exiting"
    /\ unlocker' = "gone"
    /\ question' = <<>>
    /\ UNCHANGED <<mode, waiting, input_buffer, answer, given, entry, screen, outputs,
                   enabled, cursor_active, clients, shutdown_timer, process>>

(* It is not installed, killed, or pam_start() fails for ever, in which    *)
(* case it is there but neither reads nor answers.                         *)
Fault(what) ==
    /\ unlocker \in {"reading", "checking"}
    /\ unlocker' = what
    /\ question' = IF what = "gone" THEN <<>> ELSE question
    /\ given' = <<>>
    /\ what = "stuck" => unlocker = "reading"
    /\ UNCHANGED <<mode, waiting, input_buffer, answer, entry, screen, outputs,
                   enabled, cursor_active, clients, shutdown_timer, process>>

-----------------------------------------------------------------------------
(* Outputs.                                                                *)

(* hikari_output_init(); with the first output the views of the noop       *)
(* output move to it.  The mutant enables it in every mode.                *)
OutputAddEnabled(o) ==
    /\ Dispatch /\ o \notin outputs
    /\ outputs' = outputs \cup {o} /\ enabled' = enabled \cup {o}
    /\ place' = [v \in View |-> IF outputs = {} /\ place[v] = Noop THEN o ELSE place[v]]
    /\ UNCHANGED <<mode, waiting, lock, screen, cursor_active, asked, shutdown_timer, process>>
OutputAdd(o) ==
    /\ Dispatch /\ o \notin outputs
    /\ outputs' = outputs \cup {o}
    /\ enabled' = IF mode = "lock" THEN enabled ELSE enabled \cup {o}
    /\ place' = [v \in View |-> IF outputs = {} /\ place[v] = Noop THEN o ELSE place[v]]
    /\ UNCHANGED <<mode, waiting, lock, screen, cursor_active, asked, shutdown_timer, process>>

(* hikari_output_fini() *)
OutputRemove(o) ==
    /\ Dispatch /\ o \in outputs
    /\ outputs' = outputs \ {o} /\ enabled' = enabled \ {o}
    /\ \E next \in IF outputs = {o} THEN {Noop} ELSE outputs \ {o} :
          place' = [v \in View |-> IF place[v] = o THEN next ELSE place[v]]
    /\ UNCHANGED <<mode, waiting, lock, screen, cursor_active, asked, shutdown_timer, process>>

(* A client of the output management protocol says which outputs are on:   *)
(* output_manager_apply_config(), when the backend accepts it.             *)
ManageOutputs(on) ==
    /\ Dispatch
    /\ enabled' = on
    /\ UNCHANGED <<mode, waiting, lock, screen, outputs, cursor_active, clients, shutdown_timer,
                   process>>

-----------------------------------------------------------------------------
(* Shutdown.                                                               *)

OnOutput(v) == place[v] \in outputs

MapView(v) ==
    /\ Dispatch /\ place[v] = NULL
    /\ \E o \in IF outputs = {} THEN {Noop} ELSE outputs : place' = [place EXCEPT ![v] = o]
    /\ UNCHANGED <<mode, waiting, lock, screen, outputs, enabled, cursor_active, asked,
                   shutdown_timer, process>>

UnmapView(v) ==
    /\ Dispatch /\ place[v] # NULL
    /\ place' = [place EXCEPT ![v] = NULL]
    /\ asked' = asked \ {v}
    /\ UNCHANGED <<mode, waiting, lock, screen, outputs, enabled, cursor_active, shutdown_timer,
                   process>>

(* hikari_server_terminate() *)
Terminate ==
    /\ \/ /\ shutdown_timer
          /\ shutdown_timer' = FALSE /\ process' = "terminated"
          /\ UNCHANGED asked
       \/ /\ ~shutdown_timer
          /\ shutdown_timer' = TRUE
          /\ asked' = asked \cup {v \in View : OnOutput(v)}
          /\ UNCHANGED process
    /\ UNCHANGED <<mode, waiting, lock, screen, outputs, enabled, cursor_active, place>>

QuitKey == Dispatch /\ mode = "normal" /\ Terminate

(* sig_handler(): a signal arrives at any time, also while the event loop  *)
(* stands still.                                                           *)
Signal == process \in {"running", "terminated"} /\ Terminate

(* shutdown_handler(), when it does not arm its timer again; the mutant    *)
(* waits for the views of the noop output, too.                            *)
ShutdownTimerAll ==
    /\ Dispatch /\ shutdown_timer
    /\ \A v \in View : place[v] = NULL
    /\ process' = "terminated"
    /\ UNCHANGED <<mode, waiting, lock, screen, outputs, enabled, cursor_active, clients,
                   shutdown_timer>>
ShutdownTimer ==
    /\ Dispatch /\ shutdown_timer
    /\ \A v \in View : ~OnOutput(v)
    /\ process' = "terminated"
    /\ UNCHANGED <<mode, waiting, lock, screen, outputs, enabled, cursor_active, clients,
                   shutdown_timer>>

(* The event loop ends and hikari_server_stop() runs.  It unlinks the      *)
(* listeners of the cursor, which the lock mode has unlinked already.      *)
Stop ==
    /\ process = "terminated" /\ waiting = "nothing"
    /\ process' = IF cursor_active THEN "stopped" ELSE "crashed"
    /\ UNCHANGED <<mode, waiting, lock, screen, outputs, enabled, cursor_active, clients,
                   shutdown_timer>>

-----------------------------------------------------------------------------
Key == \E k \in Control \cup Char : EditKey(k)

Unlocker == Read \/ Check \/ Exit

Next ==
    \/ Lock \/ Key \/ SubmitPassword \/ Refused \/ Accepted \/ Unlock
    \/ DisableKey \/ DisableTimer \/ ResetState
    \/ Unlocker \/ \E what \in {"gone", "stuck"} : Fault(what)
    \/ \E o \in Output : OutputAdd(o) \/ OutputRemove(o)
    \/ \E on \in SUBSET outputs : ManageOutputs(on)
    \/ \E v \in View : MapView(v) \/ UnmapView(v)
    \/ QuitKey \/ Signal \/ ShutdownTimer \/ Stop

(* The unlocker runs, as any process does; a read() or wait() that can     *)
(* return returns; the event loop ends when it is told to; a timer that is *)
(* armed and not armed again fires, the shutdown timer also when the loop  *)
(* stands still now and then, as it is dispatched with the other events.   *)
(* Nothing is assumed of the user, of clients or of the hardware.          *)
Fairness ==
    /\ WF_vars(Unlocker)
    /\ WF_vars(Refused) /\ WF_vars(Accepted) /\ WF_vars(Unlock)
    /\ SF_vars(ShutdownTimer) /\ WF_vars(Stop)
    /\ <>[][~(Key \/ SubmitPassword)]_vars => WF_vars(DisableTimer)

Spec == Init /\ [][Next]_vars
FairSpec == Spec /\ Fairness

-----------------------------------------------------------------------------
(* An answer is the answer to the password that was submitted last: while  *)
(* the event loop runs nothing is left in the pipes (submit_password() and *)
(* check_password()).  This holds until a password fills the buffer:       *)
(* the unlocker reads one byte less than is written, and takes the zero    *)
(* that is left for the next password.                                     *)
AnswersKeepStep ==
    mode = "lock" /\ waiting = "nothing" /\ filled = 0 =>
        question = <<>> /\ answer = <<>> /\ unlocker # "checking"

(* Keys find the outputs enabled or enable them, with an empty buffer      *)
(* (the assertion in enable_outputs()), and the timer, the keys, the       *)
(* unlocker and plugged outputs agree on whether the outputs are disabled. *)
OutputsAgree ==
    /\ outputs_disabled => mode = "lock" /\ input_buffer = <<>> /\ disable_outputs = "idle"
    /\ mode = "lock" /\ ~outputs_disabled /\ Dispatch => disable_outputs = "armed"

(* Once the lock has disabled the outputs only a key or the output         *)
(* manager lights one up, an output that is plugged included.              *)
StaysDark ==
    [][outputs_disabled /\ enabled' \ enabled # {} =>
        ~outputs_disabled' \/ \E on \in SUBSET outputs : ManageOutputs(on)]_vars

(* submit_password() stands still until the unlocker answers: it does not  *)
(* wait for ever, unless pam_start() fails in the unlocker again and again *)
(* (the one way to be "stuck"), and the right password unlocks the screen  *)
(* (hikari.md, "lock"), if the unlocker is there and no earlier answer is  *)
(* left in the pipe for the next read() to take.                           *)
AnswerArrives ==
    /\ waiting # "nothing" ~> waiting = "nothing" \/ unlocker = "stuck"
    /\ waiting = "answer" /\ answer = <<>>
       /\ question = Append(Password, Zero) /\ unlocker = "reading"
          ~> mode = "normal" \/ unlocker = "stuck" \/ (waiting = "nothing" /\ unlocker = "gone")

(* The lock screen turns off all outputs (hikari.md, "lock") when no key   *)
(* is pressed, as long as the process runs and nothing waits for the       *)
(* unlocker.                                                               *)
OutputsGoDark ==
    \/ []<><<Key \/ SubmitPassword>>_vars
    \/ mode = "lock" /\ ~outputs_disabled ~>
          (outputs_disabled /\ enabled = {}) \/ process # "running" \/ waiting # "nothing"

(* A shutdown ends when the clients close the views that were asked to     *)
(* quit (shutdown_handler()), unless a view is there that was not: one     *)
(* mapped later, or one of the noop output that a plugged output took over.*)
(* Asked for again it ends right away (hikari.md, "quit"), whoever is left *)
(* and in every mode, unless the event loop stands still for ever.         *)
Ended == process \in {"stopped", "crashed"} \/ unlocker = "stuck"
ShutdownEnds ==
    /\ (\A v \in View : []<>(v \notin asked)) =>
         []<>(~shutdown_timer \/ Ended \/ \E v \in View : OnOutput(v) /\ v \notin asked)
    /\ process = "terminated" ~> Ended

(* The lock screen implements what ScreenLock promises. *)
Promise == INSTANCE ScreenLock WITH
    locked <- mode = "lock", asking <- waiting # "nothing",
    right <- granted, part <- entered, whole <- filled = 0
LockIsSafe == Promise!Spec
=============================================================================
