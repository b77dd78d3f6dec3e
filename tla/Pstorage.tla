------------------------------- MODULE Pstorage -------------------------------
(***************************************************************************)
(* The persistent storage of the SDK (pstorage.c): a queue of store,       *)
(* update and clear commands, executed as a chain of flash operations that *)
(* the SoftDevice accepts, refuses while it is busy, and completes with    *)
(* success or an error.  Flash is erased by the page; what shares a page   *)
(* with the blocks of an update or a clear goes to the swap page and back. *)
(*                                                                         *)
(* The end of an operation and its event are two steps.  The SoftDevice    *)
(* posts "exactly one" event for a command and is busy until it completed  *)
(* (nrf_soc.h:845-848, 865); the program pulls the event later             *)
(* (softdevice_handler.c:116-135) and is not told whose command it was.  A *)
(* request accepted while the event of somebody else's command waits is    *)
(* overtaken by it: the module takes that event for its own.               *)
(*                                                                         *)
(* Addresses and sizes are words; the data pages begin at 0 and one module *)
(* is registered there.  A word holds Erased, or which of the values ever  *)
(* written to it; writing over what is not erased mixes the two.           *)
(***************************************************************************)
EXTENDS Integers, Sequences

CONSTANTS PageWords, NumPages,   (* PSTORAGE_FLASH_PAGE_SIZE, _NUM_OF_PAGES  *)
          BlockWords, BlockCount,
          PSTORAGE_CMD_QUEUE_SIZE, SD_CMD_MAX_TRIES,
          Requests,              (* what the application may ask for         *)
          MaxRequests,           (* bound on commands accepted in a run      *)
          MaxEnds                (* bound on events not yet pulled, when     *)
                                 (* somebody else asks for the flash         *)

AreaEnd == BlockWords * BlockCount

(* Each block lies within a page: with an update of a later page of its    *)
(* block the single-page test of line 425 goes wrong.                      *)
ASSUME Layout == /\ {PageWords, NumPages, BlockWords, BlockCount} \subseteq Nat \ {0}
                 /\ PageWords % BlockWords = 0
                 /\ AreaEnd <= PageWords * NumPages
                 /\ {PSTORAGE_CMD_QUEUE_SIZE, SD_CMD_MAX_TRIES} \subseteq Nat \ {0}

(* The parameters that the checks of the API let pass. *)
Valid(r) ==
  /\ {r.block, r.size, r.offset} \subseteq Nat /\ r.size > 0
  /\ r.block < AreaEnd /\ r.block % BlockWords = 0
  /\ \/ r.op \in {"store", "update"} /\ r.offset + r.size <= BlockWords
     \/ r.op = "clear" /\ r.offset = 0 /\ r.size % BlockWords = 0 /\ r.block + r.size <= AreaEnd

ASSUME ValidRequests == \A r \in Requests : Valid(r)

VARIABLES
  m,          (* the static variables, and the operation the SoftDevice is at *)
  flash,
  ends,       (* the events not yet pulled: of a success or an error (ok), and *)
              (* whether the operation was the module's, which no event says   *)
  (* history: the contents after the commands notified so far; how many of    *)
  (* them, how many accepted; failures of the current command's operations;   *)
  (* whether a request was ever overtaken by the event of another's           *)
  expected, notified, accepted, failures, overtaken

vars == <<m, flash, ends, expected, notified, accepted, failures, overtaken>>

-----------------------------------------------------------------------------
(* Flash. *)
Erased == -1
Mixed == -2
Data == 0..(PageWords * NumPages - 1)
Swap == PageWords * NumPages
Words == 0..(Swap + PageWords - 1)

Value(w, id) == w + id * Swap
Covered(c) == (c.block + c.offset)..(c.block + c.offset + c.size - 1)

NoOp == [kind |-> "none", at |-> 0, data |-> <<>>]
Foreign == [kind |-> "foreign", at |-> 0, data |-> <<>>]
Erase(page) == [kind |-> "erase", at |-> page * PageWords, data |-> <<>>]
Write(at, data) == [kind |-> "write", at |-> at, data |-> data]

Read(f, at, size) == [k \in 1..size |-> f[at + k - 1]]

Overwritten(old, new) ==
  IF old = Erased THEN new ELSE IF new \in {Erased, old} THEN old ELSE Mixed

Performed(f, op) ==
  [w \in Words |->
     CASE op.kind = "erase" /\ w \div PageWords = op.at \div PageWords -> Erased
       [] op.kind = "write" /\ w \in op.at..(op.at + Len(op.data) - 1) ->
            Overwritten(f[w], op.data[w - op.at + 1])
       [] OTHER -> f[w]]

(* flash_api_err_code_process(): a request made while another operation is *)
(* under way is refused.  The other errors, of a wrong length, an address  *)
(* that does not exist or one that is protected, are left out.             *)
Issue(s, op) == IF s.flashOp = NoOp THEN [s EXCEPT !.flashOp = op] ELSE [s EXCEPT !.busy = TRUE]

-----------------------------------------------------------------------------
Current(s) == Head(s.cmds)
CmdEnd(c) == c.block + c.size + c.offset
LastPage(s) == (CmdEnd(Current(s)) - 1) \div PageWords

(* Faults a change to the source could introduce; no action uses them. *)
BusyIsFailure(s) == FALSE
EveryPage(s) == s.page <= LastPage(s)
EndWithoutIdle(s, f, more) == [s EXCEPT !.cmds = Tail(s.cmds \o more), !.state = "IDLE", !.retries = 0]

(* tail_word_size_calculate() *)
TailWords(c) ==
  IF AreaEnd \div PageWords = CmdEnd(c) \div PageWords
    THEN AreaEnd - CmdEnd(c)
    ELSE PageWords - (CmdEnd(c) % PageWords)

HasTail(c) == CmdEnd(c) # AreaEnd /\ CmdEnd(c) % PageWords # 0

(* Nothing on the pages but what the command covers. *)
NoSwapNeeded(c) ==
  /\ c.block % PageWords = 0
  /\ c.size = PageWords \/ (CmdEnd(c) = AreaEnd /\ c.offset = 0)

TailSwapRequired(s) == s.tail # 0 /\ s.page = LastPage(s)
PageEraseRequired(s) == s.page < LastPage(s) \/ (s.page = LastPage(s) /\ s.tail = 0)

-----------------------------------------------------------------------------
(* The flash operation of a state, with what flash holds when it is asked   *)
(* for.                                                                    *)
SwapOperation(s, f) ==
  LET c == Current(s) IN
  CASE s.sub = "ERASE_SWAP"         -> Erase(NumPages)
    [] s.sub = "WRITE_DATA_TO_SWAP" -> Write(Swap, Read(f, s.page * PageWords, PageWords))
    [] s.sub = "ERASE_DATA_PAGE"    -> Erase(s.page)
    [] s.sub = "RESTORE_TAIL"       -> Write(CmdEnd(c), Read(f, Swap + (CmdEnd(c) % PageWords), s.tail))
    [] s.sub = "RESTORE_HEAD"       -> Write((s.page - 1) * PageWords, Read(f, Swap, s.head))

StoreOperation(c) ==
  Write(c.block + c.offset, [k \in 1..c.size |-> Value(c.block + c.offset + k - 1, c.id)])

Operation(s, f) ==
  CASE s.state = "STORE"                -> StoreOperation(Current(s))
    [] s.state = "DATA_ERASE"           -> Erase(s.page)
    [] s.state = "DATA_ERASE_WITH_SWAP" -> SwapOperation(s, f)

(* Entry actions: each state begins with its flash operation; on a self    *)
(* transition it is issued again.                                          *)
Enter(s, f) == Issue(s, Operation(s, f))

ToSub(s, f, sub) == Enter([s EXCEPT !.sub = sub], f)
StoreEntry(s, f) == Enter([s EXCEPT !.state = "STORE"], f)
EraseEntry(s, f) == Enter([s EXCEPT !.state = "DATA_ERASE"], f)

(* state_data_erase_swap_entry_run(): whether the first page needs a swap. *)
SwapEntry(s, f) ==
  LET c      == Current(s)
      page   == c.block \div PageWords
      single == page = (c.block + c.size - 1) \div PageWords
  IN ToSub([s EXCEPT !.state = "DATA_ERASE_WITH_SWAP", !.tailDone = FALSE,
                     !.page = page, !.single = single],
           f, IF s.head = 0 /\ ~single THEN "ERASE_DATA_PAGE" ELSE "ERASE_SWAP")

(* clear_operation_execute() *)
ClearOperation(s, f) ==
  LET c == Current(s) IN
  IF NoSwapNeeded(c)
    THEN EraseEntry([s EXCEPT !.tail = 0, !.page = c.block \div PageWords], f)
    ELSE SwapEntry([s EXCEPT !.head = (c.block + c.offset) % PageWords,
                             !.tail = IF HasTail(c) THEN TailWords(c) ELSE 0], f)

(* cmd_process() *)
Process(s, f) == IF Current(s).op = "store" THEN StoreEntry(s, f) ELSE ClearOperation(s, f)

Idle(s, f) ==
  LET idle == [s EXCEPT !.state = "IDLE", !.retries = 0]
  IN IF idle.cmds = <<>> THEN idle ELSE Process(idle, f)

(* command_end_procedure_run(): the application, notified, may enqueue     *)
(* more before the command leaves the queue.                               *)
CommandEnd(s, f, more) == Idle([s EXCEPT !.cmds = Tail(s.cmds \o more)], f)

(* clear_post_processing_run() *)
Cleared(s, f, more) ==
  IF Current(s).op = "update" THEN StoreEntry(s, f) ELSE CommandEnd(s, f, more)

-----------------------------------------------------------------------------
(* Another fault: the head that was restored is taken for one of the next page. *)
HeadStaysSet(s, f, more) ==
  CASE TailSwapRequired(s)  -> ToSub([s EXCEPT !.tailDone = TRUE], f, "ERASE_SWAP")
    [] ~TailSwapRequired(s) /\ PageEraseRequired(s) -> ToSub(s, f, "ERASE_DATA_PAGE")
    [] OTHER -> IF s.tail # 0 THEN ToSub(s, f, "RESTORE_TAIL") ELSE Cleared(s, f, more)

(* flash_operation_success_run(), when the operation was accepted. *)
AfterHeadRestore(s, f, more) ==
  CASE TailSwapRequired(s)  -> ToSub([s EXCEPT !.head = 0, !.tailDone = TRUE], f, "ERASE_SWAP")
    [] ~TailSwapRequired(s) /\ PageEraseRequired(s) -> ToSub([s EXCEPT !.head = 0], f, "ERASE_DATA_PAGE")
    [] OTHER -> IF s.tail # 0 THEN ToSub(s, f, "RESTORE_TAIL") ELSE Cleared(s, f, more)

AfterDataPageErase(s, f, more) ==
  LET t == [s EXCEPT !.page = @ + 1] IN
  CASE t.head # 0                         -> ToSub(t, f, "RESTORE_HEAD")
    [] t.head = 0 /\ PageEraseRequired(t) -> ToSub(t, f, "ERASE_DATA_PAGE")
    [] OTHER ->
         IF t.tail = 0 THEN Cleared(t, f, more)
         ELSE IF t.tailDone THEN ToSub(t, f, "RESTORE_TAIL")
         ELSE ToSub([t EXCEPT !.tailDone = TRUE], f, "ERASE_SWAP")

AfterSwapOperation(s, f, more) ==
  CASE s.sub = "ERASE_SWAP"         -> ToSub(s, f, "WRITE_DATA_TO_SWAP")
    [] s.sub = "WRITE_DATA_TO_SWAP" ->
         ToSub([s EXCEPT !.tailDone = @ \/ s.single], f, "ERASE_DATA_PAGE")
    [] s.sub = "ERASE_DATA_PAGE"    -> AfterDataPageErase(s, f, more)
    [] s.sub = "RESTORE_TAIL"       -> Cleared(s, f, more)
    [] s.sub = "RESTORE_HEAD"       -> AfterHeadRestore(s, f, more)

AfterErase(s, f, more) ==
  LET t == [s EXCEPT !.page = @ + 1]
  IN IF PageEraseRequired(t) THEN EraseEntry(t, f) ELSE Cleared(t, f, more)

AfterOperation(s, f, more) ==
  CASE s.state = "STORE"                -> CommandEnd(s, f, more)
    [] s.state = "DATA_ERASE"           -> AfterErase(s, f, more)
    [] s.state = "DATA_ERASE_WITH_SWAP" -> AfterSwapOperation(s, f, more)

(* flash_operation_failure_run() *)
AfterFailure(s, f) ==
  LET t == [s EXCEPT !.retries = @ + 1]
  IN IF t.retries # SD_CMD_MAX_TRIES THEN Enter(t, f) ELSE [t EXCEPT !.state = "ERROR"]

(* The last request was refused: the module waits for whatever ends. *)
WaitsForOther(s) == s.busy

-----------------------------------------------------------------------------
Promise(e, c) ==
  [w \in Data |-> IF w \notin Covered(c) THEN e[w]
                  ELSE IF c.op = "clear" THEN Erased ELSE Value(w, c.id)]

(* What the first commands of a queue leave of a word. *)
ErasedBefore(cmds, e, w, k) ==
  \/ e[w] = Erased /\ \A n \in 1..(k - 1) : w \notin Covered(cmds[n])
  \/ \E j \in 1..(k - 1) :
       /\ cmds[j].op = "clear" /\ w \in Covered(cmds[j])
       /\ \A n \in (j + 1)..(k - 1) : w \notin Covered(cmds[n])

(* The application stores only to what will be erased by then, as far as it *)
(* can know what its commands did.                                         *)
MayAsk(r) ==
  /\ Len(m.cmds) < PSTORAGE_CMD_QUEUE_SIZE /\ accepted < MaxRequests
  /\ r.op = "store" /\ ~overtaken =>
       \A w \in Covered(r) : ErasedBefore(m.cmds, expected, w, Len(m.cmds) + 1)

Command(r) == [op |-> r.op, block |-> r.block, size |-> r.size, offset |-> r.offset, id |-> accepted + 1]

(* A request is accepted, and what waits is the end of another's operation. *)
Overtaken(t, waiting) ==
  /\ m.flashOp = NoOp /\ t.flashOp.kind \in {"erase", "write"}
  /\ \E k \in 1..Len(waiting) : ~waiting[k].own

(* pstorage_store(), _update(), _clear() *)
Ask(r) ==
  /\ MayAsk(r)
  /\ LET s == [m EXCEPT !.cmds = Append(@, Command(r))]
     IN m' = IF s.state = "IDLE" THEN Process(s, flash) ELSE s
  /\ accepted' = accepted + 1
  /\ overtaken' = (overtaken \/ Overtaken(m', ends))
  /\ UNCHANGED <<flash, ends, expected, notified, failures>>

-----------------------------------------------------------------------------
(* Somebody else's operation; its event is told to every module. *)
OtherBegins ==
  /\ m.flashOp = NoOp /\ Len(ends) < MaxEnds
  /\ m' = [m EXCEPT !.flashOp = Foreign]
  /\ UNCHANGED <<flash, ends, expected, notified, accepted, failures, overtaken>>

(* The SoftDevice is through with an operation, or could not start it. *)
OperationEnds(ok) ==
  /\ m.flashOp # NoOp
  /\ flash' = IF ok THEN Performed(flash, m.flashOp) ELSE flash
  /\ m' = [m EXCEPT !.flashOp = NoOp]
  /\ ends' = Append(ends, [own |-> m.flashOp # Foreign, ok |-> ok])
  /\ UNCHANGED <<expected, notified, accepted, failures, overtaken>>

-----------------------------------------------------------------------------
(* pstorage_sys_event_handler() *)
Working(s) == s.state \notin {"IDLE", "ERROR"}

Handled(s, f, ok, more) ==
  CASE ~Working(s)                                -> s
    [] Working(s) /\ WaitsForOther(s)             -> Enter([s EXCEPT !.busy = FALSE], f)
    [] Working(s) /\ ~WaitsForOther(s) /\ ok      -> AfterOperation(s, f, more)
    [] Working(s) /\ ~WaitsForOther(s) /\ ~ok     -> AfterFailure(s, f)

(* The event is taken for the success of the command's last operation. *)
EndsCommand(s, f, ok) ==
  /\ Working(s) /\ ~WaitsForOther(s) /\ ok
  /\ Len(AfterOperation(s, f, <<>>).cmds) < Len(s.cmds)

(* The program pulls the next event; the application, notified, may ask for *)
(* more.                                                                    *)
PullEnd ==
  /\ ends # <<>>
  /\ ends' = Tail(ends)
  /\ LET end  == Head(ends)
         over == EndsCommand(m, flash, end.ok)
     IN /\ \E more \in {<<>>} \cup {<<Command(r)>> : r \in {q \in Requests : over /\ MayAsk(q)}} :
             /\ m' = Handled(m, flash, end.ok, more)
             /\ accepted' = accepted + Len(more)
        /\ expected' = IF over THEN Promise(expected, Current(m)) ELSE expected
        /\ notified' = IF over THEN notified + 1 ELSE notified
        /\ failures' = IF over THEN 0 ELSE IF end.own /\ ~end.ok THEN failures + 1 ELSE failures
  /\ overtaken' = (overtaken \/ Overtaken(m', ends'))
  /\ UNCHANGED flash

Reset(s) == [s EXCEPT !.cmds = <<>>, !.state = "IDLE", !.page = 0, !.retries = 0,
                      !.busy = FALSE, !.tailDone = FALSE, !.single = FALSE]

(* pstorage_init(), by an application that was told of an error. *)
Recover ==
  /\ m.state = "ERROR"
  /\ m' = Reset(m)
  /\ expected' = [w \in Data |-> flash[w]]
  /\ failures' = 0
  /\ UNCHANGED <<flash, ends, notified, accepted, overtaken>>

Init ==
  /\ m = [state |-> "IDLE", sub |-> "ERASE_SWAP", cmds |-> <<>>, head |-> 0, tail |-> 0,
          page |-> 0, retries |-> 0, busy |-> FALSE, tailDone |-> FALSE, single |-> FALSE,
          flashOp |-> NoOp]
  /\ flash = [w \in Words |-> IF w < AreaEnd THEN Value(w, 0) ELSE Erased]
  /\ expected = [w \in Data |-> flash[w]]
  /\ ends = <<>> /\ notified = 0 /\ accepted = 0 /\ failures = 0 /\ overtaken = FALSE

Next ==
  \/ \E r \in Requests : Ask(r)
  \/ OtherBegins \/ \E ok \in BOOLEAN : OperationEnds(ok)
  \/ PullEnd
  \/ Recover

(* The SoftDevice ends the operations it accepts; waitForEvent() pulls.    *)
Fairness == WF_vars(\E ok \in BOOLEAN : OperationEnds(ok)) /\ WF_vars(PullEnd)

Spec == Init /\ [][Next]_vars /\ Fairness

-----------------------------------------------------------------------------
(* The type invariant; a word is programmed over another one only after an *)
(* event was taken for the wrong operation's.                              *)
TypeOK ==
  /\ m.state \in {"IDLE", "STORE", "DATA_ERASE", "DATA_ERASE_WITH_SWAP", "ERROR"}
  /\ Len(m.cmds) <= PSTORAGE_CMD_QUEUE_SIZE
  /\ m.retries \in 0..SD_CMD_MAX_TRIES
  /\ m.page \in 0..NumPages
  /\ {m.head, m.tail} \subseteq 0..(PageWords - 1)
  /\ overtaken \/ \A w \in Words : flash[w] >= Erased

(* When the application is notified of a success, the data pages hold what *)
(* the commands so far, one after another, make of them: all of the blocks *)
(* the command covers, and not a word of another one changed.  Unless a    *)
(* request was overtaken: pstorage.c cannot tell whose event it handles.   *)
NotifiedIsStored ==
  [][notified' # notified /\ ~overtaken => \A w \in Data : flash'[w] = expected'[w]]_vars

(* At no time, and if no request was overtaken, is a word that the command *)
(* does not cover in RAM alone, or nowhere: what is erased on the data page *)
(* is on the swap page.                                                    *)
KeptInFlash ==
  ~overtaken =>
    \A w \in Data :
      \/ flash[w] = expected[w]
      \/ m.cmds # <<>> /\ (w \in Covered(Current(m)) \/ flash[Swap + (w % PageWords)] = expected[w])

(* A command is given up after SD_CMD_MAX_TRIES failures of its operations *)
(* and not before: that other users of the flash are served first, or fail,*)
(* costs no try, as long as no request was overtaken by such an event.     *)
GivenUpAfterTries ==
  ~overtaken => failures = (IF m.state = "ERROR" THEN SD_CMD_MAX_TRIES ELSE m.retries)

(* Others leave the flash free, now and then, when the program pulls an    *)
(* event: nothing else keeps them from always being served first.          *)
OthersYield == <>[](m.flashOp # Foreign) \/ []<><<PullEnd /\ m.flashOp # Foreign>>_vars

(* Whoever else uses the flash, and whosever events the module takes for   *)
(* its own, an accepted command is ended, unless the module tells its      *)
(* application of a failure and waits for pstorage_init.                   *)
EveryCommandEnds ==
  OthersYield =>
    \A id \in 1..MaxRequests :
      (\E k \in 1..Len(m.cmds) : m.cmds[k].id = id)
        ~> (m.state = "ERROR" \/ \A k \in 1..Len(m.cmds) : m.cmds[k].id # id)
=============================================================================
