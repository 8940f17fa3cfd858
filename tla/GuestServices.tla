--------------------------- MODULE GuestServices ---------------------------
(***************************************************************************)
(* What the emulator offers a guest: boot_homebrew with its supervisor     *)
(* calls (nx86-runtime/src/lib.rs, nx86-hle/src/lib.rs), which opens audio *)
(* sessions, reads commands from guest memory and queues audio; the        *)
(* session table and the command format as libraries of their own; the     *)
(* loading of the homebrew, which comes before its boot; and the thread    *)
(* scheduler, which no boot uses yet.  A behaviour is about one of these   *)
(* parts.                                                                  *)
(***************************************************************************)
EXTENDS IpcSessions, AudioQueue, Scheduler, Homebrew

CONSTANTS MaxSteps,    \* the interpreter's budget
          MaxBoots,    \* bound on boots that share one audio runtime
          AudioOut,    \* service identifiers
          OtherService,
          MaxCommand,  \* limits on what is read from guest memory, in bytes
          MaxBuffer,
          Mapped,      \* [address -> bytes readable from there], 0 if none
          MessageAt,   \* where the guest writes its messages
          Requests,    \* what it writes, and its registers: [words, x0, x1]
          Buffers,     \* commands and responses decoded without any session
          Owned,       \* and those a client of the table sends
          MaxOpen,     \* bound on what a client of the table keeps open
          MaxMissed,   \* bound on the frames the device asks for in vain
          Buttons      \* values the input provider may return
\* Registers and words of memory are unsigned.
ASSUME ServicesAssumption ==
    /\ \A r \in Requests : r.words \in Seq(Nat) /\ r.x0 \in Nat /\ r.x1 \in Nat
    /\ Buffers \subseteq Seq(Nat) /\ Owned \subseteq Seq(Nat) /\ MaxCommand \in Nat

VARIABLES part,    \* "import", "boot", "table", "codec" or "threads"
          boot,    \* [phase, steps, halted, x0, x1, n]: n counts the boots
          message, \* the words at MessageAt
          granted, \* history: the sessions this boot has opened
          reply    \* the last supervisor call: [imm, status, value]
bootVars == <<boot, message, granted, reply>>

\* ResultCode
Success == 0
InvalidCommandBuffer == 57345
InvalidHandle == 57346
UnsupportedCommand == 57347
NoReply == [imm |-> 99, status |-> Success, value |-> 0]

AnyCap == CHOOSE cap \in Caps : TRUE
Init ==
    /\ part \in {"import", "boot", "table", "codec", "threads"}
    /\ TableInit /\ AudioInit /\ (part # "boot" => backend = "null")
    /\ SchedInit /\ (part # "threads" => replay.cap = AnyCap)
    /\ IF part = "import" THEN ImportInit ELSE NoImport
    /\ boot = [phase |-> "idle", steps |-> 0, halted |-> FALSE, x0 |-> 0, x1 |-> 0, n |-> 0]
    /\ message = <<>> /\ granted = {} /\ reply = NoReply

-----------------------------------------------------------------------------
(* A boot: new memory, new state, new sessions; the audio runtime stays.   *)

StartBoot ==
    /\ boot.phase # "running" /\ boot.n < MaxBoots
    /\ boot' = [phase |-> "running", steps |-> 0, halted |-> FALSE, x0 |-> 0, x1 |-> 0, n |-> boot.n + 1]
    /\ message' = <<>> /\ granted' = {} /\ reply' = NoReply
    /\ next' = [session |-> 1, domain |-> 1, object |-> 1] /\ sessions' = Empty /\ domains' = Empty /\ objects' = Empty
    /\ UNCHANGED <<audioVars, schedVars>>

\* The interpreter's loop: budget first, then the halted flag; a program that
\* halts with its last permitted instruction is a StepLimit error.
Budget == boot.phase = "running" /\ boot.steps < MaxSteps
Executes == Budget /\ ~boot.halted
EndOfBoot ==
    /\ boot.phase = "running"
    /\ boot' = [boot EXCEPT !.phase = IF boot.steps = MaxSteps THEN "step limit" ELSE "ok"]
    /\ boot.steps = MaxSteps \/ boot.halted
    /\ UNCHANGED <<message, granted, reply, tableVars, audioVars, schedVars>>

\* Ordinary instructions that write a message and the two registers.
Prepare(words, x0, x1) ==
    /\ Executes
    /\ message' = words /\ reply' = NoReply
    /\ boot' = [boot EXCEPT !.steps = @ + 1, !.x0 = x0, !.x1 = x1]
    /\ UNCHANGED <<granted, tableVars, audioVars, schedVars>>

\* apply_svc_outcome: status and value go into x0 and x1.
Continue(imm, status, value) ==
    /\ reply' = [imm |-> imm, status |-> status, value |-> value]
    /\ boot' = [boot EXCEPT !.steps = @ + 1, !.x0 = status, !.x1 = value]
    /\ UNCHANGED message

\* Exit, or a number nobody handles: the guest stops.
SvcStops ==
    /\ Executes
    /\ boot' = [boot EXCEPT !.steps = @ + 1, !.halted = TRUE]
    /\ UNCHANGED <<message, granted, reply, tableVars, audioVars, schedVars>>

\* File system, thread, memory and input answer at once.
SvcQuery(imm) ==
    /\ Executes
    /\ \E value \in (CASE imm = 1 -> {0} [] imm = 2 -> {1} [] imm = 3 -> {4096} [] imm = 4 -> Buttons) :
          Continue(imm, Success, value)
    /\ UNCHANGED <<granted, tableVars, audioVars, schedVars>>

SvcOpenAudio ==
    /\ Executes
    /\ OpenService(AudioOut)
    /\ Continue(5, Success, next.session)
    /\ granted' = granted \cup {next.session}
    /\ UNCHANGED <<audioVars, schedVars>>

-----------------------------------------------------------------------------
(* dispatch_audio_ipc.                                                     *)

Readable(address, bytes) == address \in DOMAIN Mapped /\ bytes <= Mapped[address]

\* The command buffer: short enough, readable, a whole number of words, and
\* well formed.  A read past the message's end finds zeroes.
WordsRead == [i \in 1 .. boot.x1 \div 8 |-> IF i <= Len(message) THEN message[i] ELSE 0]
CommandRead ==
    /\ boot.x1 \in 0 .. MaxCommand /\ boot.x0 = MessageAt /\ Readable(boot.x0, boot.x1)
    /\ boot.x1 % 8 = 0 /\ WellFormed(WordsRead)

\* append_audio_buffer: the first descriptor the guest sends from.
Sendable(c) == {i \in DOMAIN c.descriptors : c.descriptors[i].kind \in {"static", "send", "exchange"}}
Source(c) == c.descriptors[CHOOSE i \in Sendable(c) : \A j \in Sendable(c) : i <= j]
BufferRead(c) ==
    /\ Sendable(c) # {} /\ c.payload # <<>> /\ Narrow(c.payload[1])
    /\ LET d == Source(c)
       IN  /\ d.size <= MaxBuffer /\ Readable(d.address, d.size)
           /\ d.size % 4 = 0 /\ ValidBuffer(d.size \div 4, c.payload[1])
Fail(status) == Continue(6, status, 0) /\ UNCHANGED audioVars

\* Mutant: a buffer is taken before its alignment is looked at.
AppendUnchecked(c) ==
    IF Sendable(c) # {} /\ c.payload # <<>>
    THEN Enqueue(Source(c).size \div 4, c.payload[1]) /\ Continue(6, Success, Len(samples') \div 2)
    ELSE Fail(InvalidCommandBuffer)
AppendAudioBuffer(c) ==
    IF BufferRead(c)
    THEN Enqueue(Source(c).size \div 4, c.payload[1]) /\ Continue(6, Success, Len(samples') \div 2)
    ELSE Fail(InvalidCommandBuffer)

AudioCommand(c) ==
    CASE c.id = 1 -> AppendAudioBuffer(c)
      [] c.id = 2 -> Continue(6, Success, QueuedFrames) /\ UNCHANGED audioVars
      [] c.id = 3 -> AdvanceClock(IF c.payload = <<>> THEN 0 ELSE c.payload[1]) /\ Continue(6, Success, Len(samples') \div 2)
      [] OTHER -> Fail(UnsupportedCommand)

SvcAudioIpc ==
    /\ Executes
    /\ LET c == FromWords(WordsRead)
       IN  CASE ~CommandRead -> Fail(InvalidCommandBuffer)
             [] CommandRead /\ ~Routes(c) -> Fail(InvalidHandle)
             [] CommandRead /\ Routes(c) /\ c.service # AudioOut -> Fail(UnsupportedCommand)
             [] OTHER -> AudioCommand(c)
    /\ UNCHANGED <<granted, tableVars, schedVars>>

Guest ==
    \/ StartBoot \/ EndOfBoot \/ SvcStops \/ SvcOpenAudio \/ SvcAudioIpc
    \/ (\E imm \in 1 .. 4 : SvcQuery(imm))
    \/ \E r \in Requests : Prepare(r.words, r.x0, r.x1)

\* The device's thread, and the host's mute switch between two boots.
Host ==
    /\ \/ counts.underflows < MaxMissed /\ \E values \in {Channels, 2 * Channels + 1} : FillOutput(values)
       \/ boot.phase # "running" /\ \E m \in BOOLEAN : SetMuted(m)
    /\ UNCHANGED <<bootVars, tableVars, schedVars>>

\* A client of the table, which decodes and routes commands as well.
Client ==
    /\ \/ OpenService(AudioOut)
       \/ \E s \in DOMAIN sessions : CloseSession(s) \/ OpenDomain(s)
       \/ \E d \in DOMAIN domains : AddObject(d)
    /\ Cardinality(DOMAIN sessions') + Cardinality(DOMAIN domains') + Cardinality(DOMAIN objects') <= MaxOpen
    /\ message' = <<>> /\ reply' = NoReply
    /\ UNCHANGED <<boot, granted, audioVars, schedVars>>
Decode(words) ==
    /\ message' = words
    /\ reply' = [NoReply EXCEPT !.status = IF ~WellFormed(words) THEN InvalidCommandBuffer
                                          ELSE IF Routes(FromWords(words)) THEN Success ELSE InvalidHandle]
    /\ UNCHANGED <<boot, granted, tableVars, audioVars, schedVars>>

Threads == SchedNext /\ UNCHANGED <<bootVars, tableVars, audioVars>>

Next ==
    /\ \/ part = "import" /\ ImportNext /\ UNCHANGED <<bootVars, tableVars, audioVars, schedVars>>
       \/ /\ \/ part = "boot" /\ (Guest \/ Host)
             \/ part = "table" /\ (Client \/ \E words \in Owned : Decode(words))
             \/ part = "codec" /\ \E words \in Buffers : Decode(words)
             \/ part = "threads" /\ Threads
          /\ UNCHANGED importVars
    /\ UNCHANGED part
vars == <<part, bootVars, tableVars, audioVars, schedVars, importVars>>
Spec == Init /\ [][Next]_vars

-----------------------------------------------------------------------------
(* Every command buffer reads back as it was written, the session table's  *)
(* three maps agree, and a call that succeeded came over a session this    *)
(* boot opened (dispatch_audio_ipc, SessionTable, GuestCommand).           *)
IpcFaithful ==
    /\ ReadsBack(message) /\ ResponseReadsBack(message) /\ TablesAgree
    /\ reply.imm = 6 /\ reply.status = Success =>
           reply.value \in 0 .. MaxQueuedFrames /\ message[5] \in granted
=============================================================================
