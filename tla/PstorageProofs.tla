---------------------------- MODULE PstorageProofs ----------------------------
(***************************************************************************)
(* Proofs about Pstorage for every size of a page, of a block and of the   *)
(* queue, every number of pages, of blocks and of tries, and any requests. *)
(*                                                                         *)
(* What the properties say of the flash is not inductive: whether an erase *)
(* loses a word depends on what was copied two operations ago, and on      *)
(* whether page, head, tail, tailDone and single still say where that copy *)
(* has to go back to.  PInv says of every state of the machine what        *)
(* those variables are (Control), which words are done, untouched, blank   *)
(* or saved in the swap page (Holds), and that the operation under way is  *)
(* the one this state asks for with what the flash holds now (Issued).  A  *)
(* store finds its words erased by what is ahead of it in the queue        *)
(* (Ready).                                                                *)
(*                                                                         *)
(* Between the end of an operation and the pull of its event the flash is  *)
(* a step ahead of the machine (Waits), and an event is the module's own   *)
(* only if it is the first (Agree).  That is lost as soon as a request was *)
(* overtaken by the event of another's operation.  What holds even then    *)
(* (Coherent) depends on no word of the flash: each step is compared with  *)
(* that of a twin on a blank flash, to which the same lemmas apply.        *)
(*                                                                         *)
(* The lemmas go from numbers (where the words of a command lie) over the  *)
(* flash (what an operation makes of those words) and the entry of each    *)
(* state to what follows each operation (AfterEach), and to the actions    *)
(* (Step).  The last part is the safety half of EveryCommandEnds: Position *)
(* counts the operations of a command; none is repeated but after a        *)
(* failure or a refusal.                                                   *)
(***************************************************************************)
EXTENDS Pstorage, SequenceTheorems, TLAPS

(* Types.  No word is ever Mixed. *)
States == {"IDLE", "STORE", "DATA_ERASE", "DATA_ERASE_WITH_SWAP", "ERROR"}
Subs == {"ERASE_SWAP", "WRITE_DATA_TO_SWAP", "ERASE_DATA_PAGE", "RESTORE_TAIL", "RESTORE_HEAD"}
Contents == {v \in Int : v >= Erased}
FlashOps == [kind : {"none", "foreign", "erase", "write"}, at : Int, data : Seq(Contents)]
Commands == {c \in [op : {"store", "update", "clear"}, block : Nat, size : Nat, offset : Nat, id : Nat] :
               Valid(c)}
Machine == [state : States, sub : Subs, cmds : Seq(Commands), head : Nat, tail : Nat, page : Int,
            retries : Nat, busy : BOOLEAN, tailDone : BOOLEAN, single : BOOLEAN, flashOp : FlashOps]

Active(s) == s.state \in {"STORE", "DATA_ERASE", "DATA_ERASE_WITH_SWAP"}

(* Geometry of a command: its pages, its first word, and the words of the  *)
(* first and of the last page that are not its own.                        *)
First(c) == c.block \div PageWords
Final(c) == (CmdEnd(c) - 1) \div PageWords
Start(c) == c.block + c.offset
HeadOf(c) == Start(c) % PageWords
TailOf(c) == IF HasTail(c) THEN TailWords(c) ELSE 0
Base(s) == s.page * PageWords

(* What the flash f holds: from lo on, what it held before the command; up  *)
(* to hi, what the erase of the command leaves; nothing; copies, in the     *)
(* swap page, of the words from lo on of the page that begins at base.      *)
Intact(f, e, lo) == \A w \in Data : lo <= w => f[w] = e[w]
Done(f, e, c, hi) == \A w \in Data : w < hi => f[w] = IF w \in Covered(c) THEN Erased ELSE e[w]
Blank(f, lo, hi) == \A w \in Words : lo <= w /\ w < hi => f[w] = Erased
Saved(f, e, c, base, lo) ==
  \A w \in Data : lo <= w /\ w < base + PageWords /\ w \notin Covered(c) /\ w < AreaEnd
                    => f[Swap + (w - base)] = e[w]

(* Where an erase with swap is, and what its variables say of what is left. *)
SwapControl(s) ==
  LET c == Current(s) IN
  /\ s.tail = TailOf(c)
  /\ s.single = (First(c) = Final(c))
  /\ s.sub \in {"ERASE_SWAP", "WRITE_DATA_TO_SWAP"} =>
       \/ s.page = First(c) /\ s.head = HeadOf(c) /\ s.tailDone = FALSE
            /\ (s.head # 0 \/ First(c) = Final(c))
       \/ s.page = Final(c) /\ First(c) # Final(c) /\ s.head = 0 /\ s.tail # 0 /\ s.tailDone = TRUE
  /\ s.sub = "ERASE_DATA_PAGE" =>
       \/ s.page = First(c) /\ s.head = HeadOf(c) /\ s.tailDone = (First(c) = Final(c))
       \/ First(c) < s.page /\ s.page <= Final(c) /\ s.head = 0
            /\ s.tailDone = (s.page = Final(c) /\ s.tail # 0)
  /\ s.sub = "RESTORE_HEAD" => /\ s.page = First(c) + 1 /\ s.head = HeadOf(c) /\ s.head # 0
                               /\ s.tailDone = (First(c) = Final(c))
  /\ s.sub = "RESTORE_TAIL" => s.page = Final(c) + 1 /\ s.tail # 0

Control(s) ==
  /\ s.state = "IDLE" => s.cmds = <<>>
  /\ s.state # "IDLE" => s.cmds # <<>>
  /\ s.page \in 0..NumPages /\ s.head < PageWords /\ s.tail < PageWords
  /\ s.state = "DATA_ERASE" => /\ NoSwapNeeded(Current(s)) /\ s.tail = 0
                               /\ First(Current(s)) <= s.page /\ s.page <= Final(Current(s))
                               /\ Current(s).op # "store"
  /\ s.state = "DATA_ERASE_WITH_SWAP" => SwapControl(s) /\ Current(s).op # "store"
  /\ s.state = "STORE" => Current(s).op # "clear"

(* What the flash holds when the operation of a state begins. *)
SwapFlash(s, f, e) ==
  LET c == Current(s) IN
  /\ s.sub \in {"ERASE_SWAP", "WRITE_DATA_TO_SWAP", "ERASE_DATA_PAGE"} =>
       Done(f, e, c, Base(s)) /\ Intact(f, e, Base(s))
  /\ s.sub = "WRITE_DATA_TO_SWAP" => Blank(f, Swap, Swap + PageWords)
  /\ s.sub = "ERASE_DATA_PAGE" => Saved(f, e, c, Base(s), Base(s))
  /\ s.sub = "RESTORE_HEAD" =>
       /\ Done(f, e, c, Base(s) - PageWords) /\ Intact(f, e, Base(s))
       /\ Blank(f, Base(s) - PageWords, Base(s))
       /\ Saved(f, e, c, Base(s) - PageWords, Base(s) - PageWords)
  /\ s.sub = "RESTORE_TAIL" =>
       /\ Done(f, e, c, CmdEnd(c)) /\ Intact(f, e, Base(s))
       /\ Blank(f, CmdEnd(c), Base(s))
       /\ Saved(f, e, c, Base(s) - PageWords, CmdEnd(c))

Holds(s, f, e) ==
  /\ s.state = "IDLE" => Intact(f, e, 0)
  /\ s.state = "STORE" => IF Current(s).op = "store" THEN Intact(f, e, 0) ELSE Done(f, e, Current(s), Swap)
  /\ s.state = "DATA_ERASE" => Done(f, e, Current(s), Base(s)) /\ Intact(f, e, Base(s))
  /\ s.state = "DATA_ERASE_WITH_SWAP" => SwapFlash(s, f, e)

(* KeptInFlash, of any machine. *)
Kept(s, f, e) ==
  \A w \in Data :
    \/ f[w] = e[w]
    \/ s.cmds # <<>> /\ (w \in Covered(Current(s)) \/ f[Swap + (w % PageWords)] = e[w])

(* Behind the last block nothing is written. *)
Beyond(f) == \A w \in Data : AreaEnd <= w => f[w] = Erased

(* The operation under way; or a request was refused, and the other's      *)
(* operation, or its event, is waited for.                                 *)
Issued(s, f) ==
  IF Active(s) THEN \/ s.flashOp = Operation(s, f) /\ s.busy = FALSE
                    \/ s.flashOp \in {NoOp, Foreign} /\ s.busy = TRUE
               ELSE s.flashOp \in {NoOp, Foreign} /\ s.busy = FALSE

(* A store of the queue finds its words erased when its turn comes. *)
Ready(q, e) ==
  \A k \in 1..Len(q) : q[k].op = "store" => \A w \in Covered(q[k]) : ErasedBefore(q, e, w, k)

(* The machine, the flash and the contents promised so far agree, but for  *)
(* the operation under way; with it.                                       *)
Settled(s, f, e) ==
  /\ s \in Machine /\ f \in [Words -> Contents] /\ e \in [Data -> Contents]
  /\ Len(s.cmds) <= PSTORAGE_CMD_QUEUE_SIZE
  /\ Control(s) /\ Holds(s, f, e)
  /\ s.state = "ERROR" => Kept(s, f, e)
  /\ Beyond(f) /\ Beyond(e)
  /\ Ready(s.cmds, e)

Consistent(s, f, e) == Settled(s, f, e) /\ Issued(s, f)

(* The module's operation has ended, and its event waits: the flash holds   *)
(* what the operation made of it, or what it held before.                  *)
Waits(s, f, e, ok) ==
  /\ Active(s) /\ s.busy = FALSE /\ s.flashOp \in {NoOp, Foreign}
  /\ \E g \in [Words -> Contents] :
       Settled(s, g, e) /\ f = IF ok THEN Performed(g, Operation(s, g)) ELSE g

(* Events of others; an event of the module is the first of all. *)
Foreigners(q) == \A k \in 1..Len(q) : q[k].own = FALSE
OwnEnd(q) == q # <<>> /\ Head(q).own = TRUE

Agree(s, f, e, q) ==
  IF OwnEnd(q)
    THEN Foreigners(Tail(q)) /\ Waits(s, f, e, Head(q).ok)
    ELSE Foreigners(q) /\ Consistent(s, f, e) /\ (s.flashOp \notin {NoOp, Foreign} => q = <<>>)

(* n failures of the command so far. *)
Tries(s, n) ==
  IF s.state = "ERROR" THEN s.retries = SD_CMD_MAX_TRIES /\ n = SD_CMD_MAX_TRIES
                       ELSE s.retries < SD_CMD_MAX_TRIES /\ n = s.retries

(* The machine by itself, whatever operation is under way; whatever the    *)
(* flash holds, and whosever events it took for its own.                   *)
Shaped(s) ==
  s \in [state : States, sub : Subs, cmds : Seq(Commands), head : Nat, tail : Nat, page : Int,
         retries : Nat, busy : BOOLEAN, tailDone : BOOLEAN, single : BOOLEAN, flashOp : {s.flashOp}]

Coherent(s) ==
  /\ Shaped(s) /\ Control(s) /\ Len(s.cmds) <= PSTORAGE_CMD_QUEUE_SIZE
  /\ IF s.state = "ERROR" THEN s.retries = SD_CMD_MAX_TRIES ELSE s.retries < SD_CMD_MAX_TRIES

Events == [own : BOOLEAN, ok : BOOLEAN]

PInv ==
  /\ Coherent(m) /\ (Active(m) => m.flashOp # NoOp \/ ends # <<>>)
  /\ ends \in Seq(Events) /\ accepted \in Nat /\ overtaken \in BOOLEAN
  /\ overtaken = FALSE => Agree(m, flash, expected, ends) /\ Tries(m, failures)

-----------------------------------------------------------------------------
(* Pages and words. *)
LEMMA Sizes == /\ PageWords \in Nat /\ PageWords > 0 /\ NumPages \in Nat /\ NumPages > 0
               /\ BlockWords \in Nat /\ BlockWords > 0 /\ BlockCount \in Nat /\ BlockCount > 0
               /\ PageWords % BlockWords = 0
               /\ AreaEnd \in Nat /\ AreaEnd <= Swap /\ Swap \in Nat
               /\ PSTORAGE_CMD_QUEUE_SIZE \in Nat /\ PSTORAGE_CMD_QUEUE_SIZE > 0
               /\ SD_CMD_MAX_TRIES \in Nat /\ SD_CMD_MAX_TRIES > 0
<1>1. /\ PageWords \in Nat /\ PageWords > 0 /\ NumPages \in Nat /\ NumPages > 0
      /\ BlockWords \in Nat /\ BlockWords > 0 /\ BlockCount \in Nat /\ BlockCount > 0
      /\ PageWords % BlockWords = 0 /\ AreaEnd <= PageWords * NumPages
      /\ PSTORAGE_CMD_QUEUE_SIZE \in Nat /\ PSTORAGE_CMD_QUEUE_SIZE > 0
      /\ SD_CMD_MAX_TRIES \in Nat /\ SD_CMD_MAX_TRIES > 0
  BY Layout
<1>2. \A a, b \in Nat : a * b \in Nat
  OBVIOUS
<1>3. AreaEnd \in Nat /\ Swap \in Nat
  BY <1>1, <1>2 DEF AreaEnd, Swap
<1> QED
  BY <1>1, <1>3 DEF Swap

LEMMA Dividing ==
  ASSUME NEW a \in Int, NEW b \in Nat, b > 0
  PROVE  /\ a \div b \in Int /\ a % b \in Int /\ 0 <= a % b /\ a % b < b
         /\ a = (a \div b) * b + (a % b)
<1>1. a = b * (a \div b) + (a % b)
  OBVIOUS
<1>2. a \div b \in Int /\ a % b \in Int /\ 0 <= a % b /\ a % b < b
  OBVIOUS
<1>3. \A x, y \in Int : x * y = y * x
  OBVIOUS
<1> QED
  BY <1>1, <1>2, <1>3

LEMMA Products ==
  ASSUME NEW a \in Int, NEW b \in Int, NEW c \in Nat, c > 0
  PROVE  /\ a * c \in Int /\ b * c \in Int
         /\ (a + 1) * c = a * c + c /\ (a - 1) * c = a * c - c
         /\ a < b => a * c + c <= b * c
         /\ a <= b => a * c <= b * c
         /\ a * c < b * c + c => a <= b
<1>1. a * c \in Int /\ b * c \in Int
  OBVIOUS
<1>2. /\ (a + 1) * c = a * c + c /\ (a - 1) * c = a * c - c
  OBVIOUS
<1>3. \A n, k \in Nat : n * k >= 0
  OBVIOUS
<1>4. ASSUME a <= b PROVE a * c <= b * c
  <2>1. (b - a) * c >= 0
    BY <1>3, <1>4
  <2>2. (b - a) * c = b * c - a * c
    OBVIOUS
  <2> QED
    BY <1>1, <2>1, <2>2
<1>5. ASSUME a < b PROVE a * c + c <= b * c
  <2>1. (b - (a + 1)) * c >= 0
    BY <1>3, <1>5
  <2>2. (b - (a + 1)) * c = b * c - a * c - c
    OBVIOUS
  <2> QED
    BY <1>1, <2>1, <2>2
<1>6. ASSUME a * c < b * c + c PROVE a <= b
  <2> SUFFICES ASSUME b < a PROVE FALSE
    OBVIOUS
  <2>1. (a - (b + 1)) * c >= 0
    BY <1>3
  <2>2. (a - (b + 1)) * c = a * c - b * c - c
    OBVIOUS
  <2> QED
    BY <1>1, <1>6, <2>1, <2>2
<1> QED
  BY <1>1, <1>2, <1>4, <1>5, <1>6

(* The words of a page. *)
LEMMA Paging ==
  ASSUME NEW w \in Int, NEW q \in Int
  PROVE  /\ w \div PageWords = q <=> q * PageWords <= w /\ w < q * PageWords + PageWords
         /\ q * PageWords <= w /\ w < q * PageWords + PageWords => w % PageWords = w - q * PageWords
<1> DEFINE d == w \div PageWords
<1>1. /\ d \in Int /\ w % PageWords \in Int /\ 0 <= w % PageWords /\ w % PageWords < PageWords
      /\ w = d * PageWords + (w % PageWords)
  BY Sizes, Dividing
<1> HIDE DEF d
<1>2. d * PageWords \in Int /\ q * PageWords \in Int
  BY <1>1, Sizes
<1>3. ASSUME q * PageWords <= w, w < q * PageWords + PageWords PROVE d = q
  <2>1. q <= d
    <3>1. q * PageWords < d * PageWords + PageWords
      BY <1>1, <1>2, <1>3, Sizes
    <3> QED
      BY <1>1, <3>1, Products, Sizes
  <2>2. d <= q
    <3>1. d * PageWords < q * PageWords + PageWords
      BY <1>1, <1>2, <1>3, Sizes
    <3> QED
      BY <1>1, <3>1, Products, Sizes
  <2> QED
    BY <1>1, <2>1, <2>2
<1>4. d = q => q * PageWords <= w /\ w < q * PageWords + PageWords
  BY <1>1, <1>2, Sizes
<1>5. d = q => w % PageWords = w - q * PageWords
  BY <1>1, <1>2, Sizes
<1> QED
  BY <1>3, <1>4, <1>5 DEF d

(* A block lies within a page. *)
LEMMA BlockInPage ==
  ASSUME NEW a \in Nat, a % BlockWords = 0, NEW q \in Int,
         q * PageWords <= a, a < q * PageWords + PageWords
  PROVE  a + BlockWords <= q * PageWords + PageWords
<1> DEFINE k == a \div BlockWords
           n == PageWords \div BlockWords
<1>1. k \in Int /\ a = k * BlockWords
  <2>1. k \in Int /\ a = k * BlockWords + (a % BlockWords)
    BY Sizes, Dividing
  <2> HIDE DEF k
  <2>2. k * BlockWords \in Int
    BY <2>1, Sizes
  <2> QED
    BY <2>1, <2>2
<1>2. n \in Int /\ PageWords = n * BlockWords
  <2>1. n \in Int /\ PageWords = n * BlockWords + (PageWords % BlockWords)
    BY Sizes, Dividing
  <2> HIDE DEF n
  <2>2. n * BlockWords \in Int
    BY <2>1, Sizes
  <2> QED
    BY <2>1, <2>2, Sizes
<1> HIDE DEF k, n
<1> DEFINE j == q * n + n
<1>3. j \in Int
  BY <1>2
<1>4. j * BlockWords = q * PageWords + PageWords
  BY <1>2, Sizes
<1> HIDE DEF j
<1>5. k < j
  <2> SUFFICES ASSUME j <= k PROVE FALSE
    BY <1>1, <1>3
  <2>1. j * BlockWords <= k * BlockWords
    BY <1>1, <1>3, Products, Sizes
  <2> QED
    BY <1>1, <1>4, <2>1, Sizes
<1>6. k * BlockWords + BlockWords <= j * BlockWords
  BY <1>1, <1>3, <1>5, Products, Sizes
<1> QED
  BY <1>1, <1>4, <1>6

LEMMA CommandFields ==
  ASSUME NEW c \in Commands
  PROVE  /\ c.op \in {"store", "update", "clear"}
         /\ c.block \in Nat /\ c.size \in Nat /\ c.offset \in Nat /\ c.id \in Nat
         /\ c.size > 0 /\ c.block < AreaEnd /\ c.block % BlockWords = 0
         /\ \/ c.op \in {"store", "update"} /\ c.offset + c.size <= BlockWords
            \/ c.op = "clear" /\ c.offset = 0 /\ c.block + c.size <= AreaEnd
BY DEF Commands, Valid

(* A block that begins in the area ends in it. *)
LEMMA BlockInArea ==
  ASSUME NEW a \in Nat, a % BlockWords = 0, a < AreaEnd
  PROVE  a + BlockWords <= AreaEnd
<1> DEFINE k == a \div BlockWords
<1>1. k \in Int /\ a = k * BlockWords + (a % BlockWords)
  BY Sizes, Dividing
<1> HIDE DEF k
<1>2. a = k * BlockWords /\ k * BlockWords \in Int
  BY <1>1, Sizes
<1>3. BlockCount * BlockWords = AreaEnd
  BY Sizes DEF AreaEnd
<1>4. k < BlockCount
  <2> SUFFICES ASSUME BlockCount <= k PROVE FALSE
    BY <1>1, Sizes
  <2>1. BlockCount * BlockWords <= k * BlockWords
    BY <1>1, Sizes, Products
  <2> QED
    BY <1>2, <1>3, <2>1, Sizes
<1>5. k * BlockWords + BlockWords <= BlockCount * BlockWords
  BY <1>1, <1>4, Sizes, Products
<1> QED
  BY <1>2, <1>3, <1>5

(* Where a command's words are: from the page First to the page Final. *)
LEMMA Geometry ==
  ASSUME NEW c \in Commands
  PROVE  /\ First(c) \in Nat /\ Final(c) \in Nat /\ First(c) <= Final(c) /\ Final(c) < NumPages
         /\ Start(c) \in Nat /\ CmdEnd(c) \in Nat /\ Start(c) < CmdEnd(c) /\ CmdEnd(c) <= AreaEnd
         /\ First(c) * PageWords <= Start(c)
         /\ Start(c) < First(c) * PageWords + PageWords
         /\ Final(c) * PageWords < CmdEnd(c) /\ CmdEnd(c) <= Final(c) * PageWords + PageWords
         /\ (First(c) = (c.block + c.size - 1) \div PageWords) = (First(c) = Final(c))
         /\ Covered(c) = Start(c)..(CmdEnd(c) - 1)
         /\ First(c) * PageWords \in Nat /\ Final(c) * PageWords \in Nat
<1>1. /\ c.block \in Nat /\ c.size \in Nat /\ c.offset \in Nat
      /\ c.size > 0 /\ c.block < AreaEnd /\ c.block % BlockWords = 0
      /\ \/ c.offset + c.size <= BlockWords
         \/ c.offset = 0 /\ c.block + c.size <= AreaEnd
  BY CommandFields
<1> DEFINE p == First(c)
           q == Final(c)
           b == p * PageWords
           d == q * PageWords
<1>2. p \in Int /\ q \in Int
  BY <1>1, Sizes, Dividing DEF First, Final, CmdEnd
<1>3. b <= c.block /\ c.block < b + PageWords
  BY <1>1, <1>2, Paging DEF First
<1>4. d <= CmdEnd(c) - 1 /\ CmdEnd(c) - 1 < d + PageWords
  BY <1>1, <1>2, Paging DEF Final, CmdEnd
<1>5. b \in Int /\ d \in Int
  BY <1>2, Sizes
<1>6. /\ Start(c) = c.block + c.offset /\ CmdEnd(c) = Start(c) + c.size
      /\ Start(c) \in Nat /\ CmdEnd(c) \in Nat
  BY <1>1 DEF Start, CmdEnd
<1>7. /\ CmdEnd(c) <= AreaEnd /\ Start(c) < b + PageWords
      /\ (p = (c.block + c.size - 1) \div PageWords) = (p = q)
  <2>1. CASE c.offset + c.size <= BlockWords
    <3>1. c.block + BlockWords <= b + PageWords
      BY <1>1, <1>2, <1>3, BlockInPage
    <3>2. c.block + BlockWords <= AreaEnd
      BY <1>1, BlockInArea
    <3> HIDE DEF b, d, p, q
    <3>3. CmdEnd(c) <= AreaEnd /\ CmdEnd(c) <= b + PageWords
      BY <1>1, <1>5, <1>6, <2>1, <3>1, <3>2, Sizes
    <3>4. q = p
      <4>1. b <= CmdEnd(c) - 1 /\ CmdEnd(c) - 1 < b + PageWords
        BY <1>1, <1>3, <1>5, <1>6, <3>3, Sizes
      <4> QED
        BY <1>2, <1>6, <4>1, Paging DEF Final, q, b
    <3>5. (c.block + c.size - 1) \div PageWords = p
      <4>1. /\ c.block + c.size - 1 \in Int /\ b <= c.block + c.size - 1
            /\ c.block + c.size - 1 < b + PageWords
        BY <1>1, <1>3, <1>5, <1>6, <3>3, Sizes
      <4> QED
        BY <1>2, <4>1, Paging DEF b
    <3> QED
      BY <1>1, <1>5, <1>6, <3>3, <3>4, <3>5, Sizes
  <2>2. CASE c.offset = 0 /\ c.block + c.size <= AreaEnd
    <3>1. c.block + c.size - 1 = CmdEnd(c) - 1
      BY <1>1, <1>6, <2>2
    <3> HIDE DEF b, d, p
    <3> QED
      BY <1>1, <1>3, <1>5, <1>6, <2>2, <3>1, Sizes DEF Final
  <2> QED
    BY <1>1, <2>1, <2>2
<1> HIDE DEF p, q, b, d
<1>8. p \in Nat /\ b \in Nat
  <2>1. p >= 0
    <3> SUFFICES ASSUME p < 0 PROVE FALSE
      BY <1>2
    <3>1. p * PageWords + PageWords <= 0 * PageWords
      BY <1>2, Products, Sizes
    <3> QED
      BY <1>1, <1>3, <1>5, <3>1, Sizes DEF b
  <2> QED
    BY <1>2, <1>5, <2>1, Sizes DEF b
<1>9. p <= q
  <2>1. b < d + PageWords
    BY <1>1, <1>3, <1>4, <1>5, <1>6, Sizes
  <2> QED
    BY <1>2, <2>1, Products, Sizes DEF b, d
<1>10. q < NumPages
  <2> SUFFICES ASSUME NumPages <= q PROVE FALSE
    BY <1>2, Sizes
  <2>1. NumPages * PageWords <= d
    BY <1>2, Products, Sizes DEF d
  <2>2. NumPages * PageWords = Swap
    BY Sizes DEF Swap
  <2> QED
    BY <1>4, <1>5, <1>6, <1>7, <2>1, <2>2, Sizes
<1>11. d \in Nat
  BY <1>2, <1>8, <1>9, Sizes DEF d
<1>12. Covered(c) = Start(c)..(CmdEnd(c) - 1)
  BY <1>1, <1>6 DEF Covered
<1>13. b <= Start(c) /\ Start(c) < CmdEnd(c) /\ d < CmdEnd(c) /\ CmdEnd(c) <= d + PageWords
  BY <1>1, <1>3, <1>4, <1>5, <1>6, Sizes
<1> QED
  BY <1>2, <1>6, <1>7, <1>8, <1>9, <1>10, <1>11, <1>12, <1>13 DEF p, q, b, d

LEMMA TailGeometry ==
  ASSUME NEW c \in Commands
  PROVE  /\ TailOf(c) \in Nat /\ TailOf(c) < PageWords
         /\ TailOf(c) = 0 => CmdEnd(c) = AreaEnd \/ CmdEnd(c) = Final(c) * PageWords + PageWords
         /\ TailOf(c) # 0 => /\ CmdEnd(c) < Final(c) * PageWords + PageWords
                             /\ CmdEnd(c) % PageWords = CmdEnd(c) - Final(c) * PageWords
                             /\ CmdEnd(c) + TailOf(c) <= AreaEnd
                             /\ CmdEnd(c) + TailOf(c) <= Final(c) * PageWords + PageWords
                             /\ CmdEnd(c) + TailOf(c) \in {AreaEnd, Final(c) * PageWords + PageWords}
<1> DEFINE z == CmdEnd(c)
           q == Final(c)
           d == q * PageWords
<1>1. /\ z \in Nat /\ q \in Nat /\ d \in Nat /\ d < z /\ z <= d + PageWords /\ z <= AreaEnd
  BY Geometry
<1>2. /\ (q + 1) * PageWords = d + PageWords
  BY <1>1, Products, Sizes
<1>3. CASE z = d + PageWords
  <2>1. z % PageWords = 0
    <3> DEFINE r == q + 1
               y == r * PageWords
    <3>1. r \in Int /\ y = z
      BY <1>1, <1>2, <1>3
    <3> HIDE DEF z, q, d, r
    <3>2. y <= z /\ z < y + PageWords
      <4> HIDE DEF y
      <4> QED BY <1>1, <3>1, Sizes
    <3>3. z % PageWords = z - y
      BY <1>1, <3>1, <3>2, Paging
    <3>4. z - y = 0
      <4> HIDE DEF y
      <4> QED BY <1>1, <3>1
    <3> QED
      BY <3>3, <3>4
  <2>2. TailOf(c) = 0
    BY <2>1 DEF TailOf, HasTail
  <2> QED
    BY <1>3, <2>2, Sizes
<1>4. CASE z < d + PageWords
  <2>1. z \div PageWords = q /\ z % PageWords = z - d
    <3> HIDE DEF z, q
    <3> QED
      BY <1>1, <1>4, Paging, Sizes
  <2>2. CASE z = AreaEnd
    <3>1. TailOf(c) = 0
      BY <2>2 DEF TailOf, HasTail
    <3> QED
      BY <2>2, <3>1, Sizes
  <2>3. CASE z # AreaEnd
    <3>1. TailOf(c) = IF AreaEnd \div PageWords = q THEN AreaEnd - z ELSE PageWords - (z - d)
      <4>1. z % PageWords # 0
        <5> HIDE DEF z, q, d
        <5> QED BY <1>1, <2>1, Sizes
      <4> QED
        BY <2>1, <2>3, <4>1 DEF TailOf, HasTail, TailWords
    <3>2. AreaEnd \div PageWords = q <=> d <= AreaEnd /\ AreaEnd < d + PageWords
      <4> HIDE DEF q
      <4> QED BY <1>1, Paging, Sizes
    <3> DEFINE x == TailOf(c)
    <3>3. /\ x \in Nat /\ x < PageWords /\ x # 0 /\ z + x <= AreaEnd /\ z + x <= d + PageWords
          /\ z + x = AreaEnd \/ z + x = d + PageWords
      <4> DEFINE same == AreaEnd \div PageWords = q
      <4>1. x = IF same THEN AreaEnd - z ELSE PageWords - (z - d)
        BY <3>1
      <4>2. same <=> d <= AreaEnd /\ AreaEnd < d + PageWords
        BY <3>2
      <4> HIDE DEF z, q, d, x, same
      <4> QED
        BY <1>1, <1>4, <2>3, <4>1, <4>2, Sizes
    <3> QED
      BY <1>4, <2>1, <3>3
  <2> QED
    BY <2>2, <2>3
<1>5. z = d + PageWords \/ z < d + PageWords
  <2> HIDE DEF z, q, d
  <2> QED BY <1>1, Sizes
<1> QED
  BY <1>3, <1>4, <1>5

LEMMA HeadGeometry ==
  ASSUME NEW c \in Commands
  PROVE  HeadOf(c) = Start(c) - First(c) * PageWords /\ HeadOf(c) \in Nat /\ HeadOf(c) < PageWords
<1> DEFINE p == First(c)
           a == Start(c)
<1>1. /\ p \in Nat /\ a \in Nat /\ p * PageWords \in Nat
      /\ p * PageWords <= a /\ a < p * PageWords + PageWords
  BY Geometry
<1>2. a % PageWords = a - p * PageWords
  <2> HIDE DEF p, a
  <2> QED BY <1>1, Paging
<1>3. a - p * PageWords \in Nat /\ a - p * PageWords < PageWords
  <2> DEFINE b == p * PageWords
  <2> HIDE DEF p, a, b
  <2> QED BY <1>1, Sizes DEF b
<1> QED
  BY <1>2, <1>3 DEF HeadOf

(* Without a swap the command covers its pages. *)
LEMMA NoSwapGeometry ==
  ASSUME NEW c \in Commands, NoSwapNeeded(c)
  PROVE  /\ Start(c) = First(c) * PageWords
         /\ CmdEnd(c) = AreaEnd \/ CmdEnd(c) = Final(c) * PageWords + PageWords
<1> DEFINE p == First(c)
           b == p * PageWords
           z == CmdEnd(c)
<1>1. /\ c.block \in Nat /\ c.size \in Nat /\ c.offset \in Nat
      /\ c.offset + c.size <= BlockWords \/ c.offset = 0
      /\ c.block % PageWords = 0
      /\ c.size = PageWords \/ (z = AreaEnd /\ c.offset = 0)
      /\ z = c.block + c.size + c.offset
  BY CommandFields DEF NoSwapNeeded, CmdEnd
<1>2. BlockWords <= PageWords
  <2>1. 0 % BlockWords = 0 /\ 0 * PageWords = 0
    BY Sizes
  <2>2. 0 + BlockWords <= 0 * PageWords + PageWords
    BY <2>1, BlockInPage, Sizes
  <2> QED
    BY <2>1, <2>2, Sizes
<1>3. c.offset = 0
  BY <1>1, <1>2, Sizes
<1>4. p \in Nat /\ c.block = b
  <2>1. p \in Int /\ c.block = p * PageWords + (c.block % PageWords)
    BY <1>1, Sizes, Dividing DEF First
  <2>2. p \in Nat /\ p * PageWords \in Nat
    BY Geometry
  <2> QED
    BY <1>1, <2>1, <2>2
<1>5. Start(c) = b
  BY <1>1, <1>3, <1>4 DEF Start
<1>6. CASE c.size = PageWords
  <2>1. z = b + PageWords
    BY <1>1, <1>3, <1>4, <1>6, Sizes
  <2>2. Final(c) = p
    <3>1. z - 1 \in Int /\ b <= z - 1 /\ z - 1 < b + PageWords
      BY <1>1, <1>4, <2>1, Sizes
    <3>2. (z - 1) \div PageWords = p
      <4> HIDE DEF z, p
      <4> QED BY <1>4, <3>1, Paging
    <3> QED
      BY <3>2 DEF Final
  <2> QED
    BY <1>5, <2>1, <2>2
<1> QED
  BY <1>1, <1>5, <1>6

(* A page begins where the one before it ends. *)
LEMMA Pages ==
  ASSUME NEW c \in Commands, NEW p \in Nat
  PROVE  /\ p * PageWords \in Nat
         /\ (p + 1) * PageWords = p * PageWords + PageWords
         /\ p = First(c) => p * PageWords = First(c) * PageWords
         /\ First(c) < p => First(c) * PageWords + PageWords <= p * PageWords
         /\ First(c) <= p => First(c) * PageWords <= p * PageWords
         /\ p = Final(c) => p * PageWords = Final(c) * PageWords
         /\ p < Final(c) => p * PageWords + PageWords <= Final(c) * PageWords
         /\ p < NumPages => p * PageWords + PageWords <= Swap
<1>1. First(c) \in Nat /\ Final(c) \in Nat /\ NumPages * PageWords = Swap
  BY Geometry, Sizes DEF Swap
<1>2. \A a, b \in Nat : a * b \in Nat
  OBVIOUS
<1>3. p * PageWords \in Nat /\ First(c) * PageWords \in Nat /\ Final(c) * PageWords \in Nat
  BY <1>1, <1>2, Sizes
<1>4. (p + 1) * PageWords = p * PageWords + PageWords
  BY Products, Sizes
<1>5. First(c) < p => First(c) * PageWords + PageWords <= p * PageWords
  BY <1>1, Products, Sizes
<1>6. First(c) <= p => First(c) * PageWords <= p * PageWords
  BY <1>1, Products, Sizes
<1>7. p < Final(c) => p * PageWords + PageWords <= Final(c) * PageWords
  BY <1>1, Products, Sizes
<1>8. p < NumPages => p * PageWords + PageWords <= NumPages * PageWords
  BY <1>1, Products, Sizes
<1> QED
  BY <1>1, <1>3, <1>4, <1>5, <1>6, <1>7, <1>8

-----------------------------------------------------------------------------
(* What an operation makes of the flash. *)
LEMMA ErasedPage ==
  ASSUME NEW g \in [Words -> Contents], NEW p \in Nat
  PROVE  /\ Performed(g, Erase(p)) \in [Words -> Contents]
         /\ \A w \in Words : Performed(g, Erase(p))[w] =
              IF p * PageWords <= w /\ w < p * PageWords + PageWords THEN Erased ELSE g[w]
<1> DEFINE b == p * PageWords
<1>1. b \in Int /\ b \div PageWords = p
  <2>1. b \in Int
    BY Sizes
  <2>2. b <= b /\ b < b + PageWords
    <3> HIDE DEF b
    <3> QED BY <2>1, Sizes
  <2> QED
    BY <2>1, <2>2, Paging
<1>2. ASSUME NEW w \in Words
      PROVE  w \div PageWords = p <=> b <= w /\ w < b + PageWords
  <2>1. w \in Int
    BY Sizes DEF Words
  <2> QED
    BY <2>1, Paging
<1>3. /\ Erase(p).kind = "erase" /\ Erase(p).at = b
  BY DEF Erase
<1>4. Erased \in Contents
  BY DEF Erased, Contents
<1>5. \A w \in Words : Performed(g, Erase(p))[w] = IF w \div PageWords = p THEN Erased ELSE g[w]
  <2> HIDE DEF b
  <2> QED BY <1>1, <1>3 DEF Performed
<1>6. \A w \in Words : Performed(g, Erase(p))[w] =
        IF b <= w /\ w < b + PageWords THEN Erased ELSE g[w]
  <2> HIDE DEF b
  <2> QED BY <1>2, <1>5
<1>7. Performed(g, Erase(p)) \in [Words -> Contents]
  <2>1. Performed(g, Erase(p)) = [w \in Words |-> Performed(g, Erase(p))[w]]
    BY DEF Performed
  <2>2. \A w \in Words : Performed(g, Erase(p))[w] \in Contents
    BY <1>4, <1>5
  <2> QED
    BY <2>1, <2>2
<1> QED
  BY <1>6, <1>7

LEMMA WrittenWords ==
  ASSUME NEW g \in [Words -> Contents], NEW at \in Nat, NEW d \in Seq(Contents),
         \A w \in Words : at <= w /\ w < at + Len(d) => g[w] = Erased
  PROVE  /\ Performed(g, Write(at, d)) \in [Words -> Contents]
         /\ \A w \in Words : Performed(g, Write(at, d))[w] =
              IF at <= w /\ w < at + Len(d) THEN d[w - at + 1] ELSE g[w]
<1> DEFINE f == Performed(g, Write(at, d))
<1>1. Words \subseteq Int /\ Len(d) \in Nat
  BY Sizes, LenProperties DEF Words
<1>2. Write(at, d).kind = "write" /\ Write(at, d).at = at /\ Write(at, d).data = d
  BY DEF Write
<1>3. \A w \in Words : w \in at..(at + Len(d) - 1) <=> at <= w /\ w < at + Len(d)
  BY <1>1
<1>4. \A w \in Words : f[w] =
        IF w \in at..(at + Len(d) - 1) THEN Overwritten(g[w], d[w - at + 1]) ELSE g[w]
  BY <1>2 DEF Performed
<1>5. \A w \in Words : f[w] = IF at <= w /\ w < at + Len(d) THEN d[w - at + 1] ELSE g[w]
  BY <1>3, <1>4 DEF Overwritten
<1>6. ASSUME NEW w \in Words PROVE f[w] \in Contents
  <2>1. CASE at <= w /\ w < at + Len(d)
    <3>1. w - at + 1 \in 1..Len(d)
      BY <1>1, <2>1
    <3>2. d[w - at + 1] \in Contents
      BY <3>1, ElementOfSeq
    <3> QED
      BY <1>5, <2>1, <3>2
  <2> QED
    BY <1>5, <2>1
<1>7. f = [w \in Words |-> f[w]]
  BY DEF Performed
<1>8. f \in [Words -> Contents]
  BY <1>6, <1>7
<1> QED
  BY <1>5, <1>8

LEMMA ReadWords ==
  ASSUME NEW g \in [Words -> Contents], NEW at \in Nat, NEW n \in Nat,
         at + n <= Swap + PageWords
  PROVE  /\ Read(g, at, n) \in Seq(Contents) /\ Len(Read(g, at, n)) = n
         /\ \A k \in 1..n : Read(g, at, n)[k] = g[at + k - 1]
<1>1. \A k \in 1..n : at + k - 1 \in Words
  BY Sizes DEF Words
<1>2. \A k \in 1..n : g[at + k - 1] \in Contents
  BY <1>1
<1>3. Read(g, at, n) \in [1..n -> Contents]
  BY <1>2 DEF Read
<1>4. Read(g, at, n) \in Seq(Contents)
  BY <1>3, SeqDef
<1>5. Len(Read(g, at, n)) = n
  BY <1>4, <1>3, LenProperties
<1> QED
  BY <1>4, <1>5 DEF Read

(* A copy of n words. *)
LEMMA CopiedWords ==
  ASSUME NEW g \in [Words -> Contents], NEW at \in Nat, NEW from \in Nat, NEW n \in Nat,
         from + n <= Swap + PageWords, Blank(g, at, at + n)
  PROVE  /\ Performed(g, Write(at, Read(g, from, n))) \in [Words -> Contents]
         /\ \A w \in Words : Performed(g, Write(at, Read(g, from, n)))[w] =
              IF at <= w /\ w < at + n THEN g[from + (w - at)] ELSE g[w]
<1> DEFINE d == Read(g, from, n)
<1>1. d \in Seq(Contents) /\ Len(d) = n /\ \A k \in 1..n : d[k] = g[from + k - 1]
  BY ReadWords
<1>2. \A w \in Words : at <= w /\ w < at + Len(d) => g[w] = Erased
  BY <1>1 DEF Blank
<1> HIDE DEF d
<1>3. /\ Performed(g, Write(at, d)) \in [Words -> Contents]
      /\ \A w \in Words : Performed(g, Write(at, d))[w] =
           IF at <= w /\ w < at + n THEN d[w - at + 1] ELSE g[w]
  BY <1>1, <1>2, WrittenWords
<1>4. ASSUME NEW w \in Words, at <= w, w < at + n
      PROVE  d[w - at + 1] = g[from + (w - at)]
  <2>1. w \in Int
    BY Sizes DEF Words
  <2>2. w - at + 1 \in 1..n /\ from + (w - at + 1) - 1 = from + (w - at)
    BY <2>1, <1>4
  <2> QED
    BY <1>1, <2>2
<1> QED
  BY <1>3, <1>4 DEF d

-----------------------------------------------------------------------------
(* Entering a state: the flash operation is issued, or waits for another's. *)
Alike(r, s) ==
  /\ r.state = s.state /\ r.sub = s.sub /\ r.cmds = s.cmds /\ r.head = s.head /\ r.tail = s.tail
  /\ r.page = s.page /\ r.retries = s.retries /\ r.tailDone = s.tailDone /\ r.single = s.single

LEMMA AlikeStates ==
  ASSUME NEW r \in Machine, NEW s \in Machine, Alike(r, s), NEW f, NEW e
  PROVE  /\ Control(s) => Control(r)
         /\ Holds(s, f, e) => Holds(r, f, e)
         /\ Kept(s, f, e) => Kept(r, f, e)
         /\ Operation(r, f) = Operation(s, f)
         /\ Active(r) <=> Active(s)
<1>1. Control(s) => Control(r)
  BY DEF Alike, Control, SwapControl, Current
<1>2. Holds(s, f, e) => Holds(r, f, e)
  BY DEF Alike, Holds, SwapFlash, Current, Base
<1>3. Kept(s, f, e) => Kept(r, f, e)
  BY DEF Alike, Kept, Current
<1>4. Operation(r, f) = Operation(s, f)
  BY DEF Alike, Operation, SwapOperation, Current
<1>5. Active(r) <=> Active(s)
  BY DEF Alike, Active
<1> QED
  BY <1>1, <1>2, <1>3, <1>4, <1>5

LEMMA MachineFields ==
  ASSUME NEW s \in Machine
  PROVE  /\ s.state \in States /\ s.sub \in Subs /\ s.cmds \in Seq(Commands)
         /\ s.head \in Nat /\ s.tail \in Nat /\ s.page \in Int /\ s.retries \in Nat
         /\ s.busy \in BOOLEAN /\ s.tailDone \in BOOLEAN /\ s.single \in BOOLEAN
         /\ s.flashOp \in FlashOps
         /\ s.cmds # <<>> => Current(s) \in Commands
BY HeadTailProperties DEF Machine, Current

LEMMA IdleOps == NoOp \in FlashOps /\ Foreign \in FlashOps
<1>1. <<>> \in Seq(Contents)
  BY EmptySeq
<1> QED
  BY <1>1 DEF NoOp, Foreign, FlashOps

LEMMA EraseIsOp ==
  ASSUME NEW p \in Int
  PROVE  Erase(p) \in FlashOps /\ Erase(p).kind = "erase"
<1>1. p * PageWords \in Int
  BY Sizes
<1>2. <<>> \in Seq(Contents)
  BY EmptySeq
<1> QED
  BY <1>1, <1>2 DEF Erase, FlashOps

LEMMA WriteIsOp ==
  ASSUME NEW at \in Int, NEW d \in Seq(Contents)
  PROVE  Write(at, d) \in FlashOps /\ Write(at, d).kind = "write"
BY DEF Write, FlashOps

(* The words a store or an update leaves behind. *)
LEMMA StoredWords ==
  ASSUME NEW c \in Commands
  PROVE  LET d == [k \in 1..c.size |-> Value(c.block + c.offset + k - 1, c.id)]
         IN /\ d \in Seq(Contents) /\ Len(d) = c.size
            /\ StoreOperation(c) = Write(Start(c), d)
            /\ \A k \in 1..c.size : d[k] = Value(Start(c) + k - 1, c.id)
            /\ \A w \in Nat : Value(w, c.id) \in Contents
<1> DEFINE d == [k \in 1..c.size |-> Value(c.block + c.offset + k - 1, c.id)]
<1>1. c.size \in Nat /\ Start(c) \in Nat /\ c.id \in Nat /\ c.block \in Nat /\ c.offset \in Nat
  BY CommandFields, Geometry
<1>2. c.id * Swap \in Nat
  <2>1. \A a, b \in Nat : a * b \in Nat
    OBVIOUS
  <2> QED
    BY <1>1, <2>1, Sizes
<1>3. \A w \in Nat : Value(w, c.id) \in Contents
  BY <1>1, <1>2 DEF Value, Contents, Erased
<1>4. d \in [1..c.size -> Contents]
  BY <1>1, <1>3
<1>5. d \in Seq(Contents) /\ Len(d) = c.size
  <2> HIDE DEF d
  <2>1. d \in Seq(Contents)
    BY <1>1, <1>4, SeqDef
  <2> QED
    BY <1>1, <1>4, <2>1, LenProperties
<1>6. StoreOperation(c) = Write(Start(c), d)
  BY DEF StoreOperation, Start
<1>7. \A k \in 1..c.size : d[k] = Value(Start(c) + k - 1, c.id)
  BY DEF Start
<1> QED
  BY <1>3, <1>5, <1>6, <1>7

LEMMA OperationIsOp ==
  ASSUME NEW s \in Machine, NEW f \in [Words -> Contents], Active(s), Control(s)
  PROVE  Operation(s, f) \in FlashOps /\ Operation(s, f).kind \in {"erase", "write"}
<1> DEFINE c == Current(s)
<1>1. c \in Commands /\ s.page \in Nat /\ s.page <= NumPages /\ s.sub \in Subs
  BY MachineFields, Sizes DEF Active, Control
<1>2. CASE s.state = "STORE"
  <2>1. Operation(s, f) = StoreOperation(c)
    BY <1>2 DEF Operation
  <2>2. Start(c) \in Int
    BY <1>1, Geometry
  <2> QED
    BY <1>1, <2>1, <2>2, StoredWords, WriteIsOp
<1>3. CASE s.state = "DATA_ERASE"
  BY <1>1, <1>3, EraseIsOp DEF Operation
<1>4. CASE s.state = "DATA_ERASE_WITH_SWAP"
  <2>1. Operation(s, f) = SwapOperation(s, f)
    BY <1>4 DEF Operation
  <2>2. CASE s.sub = "ERASE_SWAP"
    BY <2>1, <2>2, EraseIsOp, Sizes DEF SwapOperation
  <2>3. CASE s.sub = "ERASE_DATA_PAGE"
    BY <1>1, <2>1, <2>3, EraseIsOp DEF SwapOperation
  <2>4. CASE s.sub = "WRITE_DATA_TO_SWAP"
    <3>1. s.page * PageWords \in Nat /\ s.page * PageWords <= Swap
      <4>1. s.page * PageWords <= NumPages * PageWords /\ s.page * PageWords \in Int
        BY <1>1, Products, Sizes
      <4>2. \A x, y \in Nat : x * y \in Nat
        OBVIOUS
      <4> QED
        BY <1>1, <4>1, <4>2, Sizes DEF Swap
    <3> DEFINE b == s.page * PageWords
    <3> HIDE DEF b
    <3>2. b \in Nat /\ b + PageWords <= Swap + PageWords
      BY <3>1, Sizes DEF b
    <3>3. Read(f, b, PageWords) \in Seq(Contents)
      BY <3>2, ReadWords, Sizes
    <3>4. Operation(s, f) = Write(Swap, Read(f, b, PageWords))
      BY <2>1, <2>4 DEF SwapOperation, b
    <3> QED
      BY <3>3, <3>4, WriteIsOp, Sizes
  <2>5. CASE s.sub = "RESTORE_TAIL"
    <3>1. s.tail = TailOf(c) /\ s.tail # 0
      BY <1>4, <2>5 DEF Control, SwapControl
    <3> DEFINE q == Final(c) * PageWords
               z == CmdEnd(c)
               a == z % PageWords
    <3>2. q \in Nat /\ z \in Nat /\ q < z /\ s.tail \in Nat
      BY <1>1, Geometry, MachineFields
    <3>3. z < q + PageWords /\ a = z - q /\ z + s.tail <= q + PageWords
      BY <1>1, <3>1, TailGeometry
    <3>4. Operation(s, f) = Write(z, Read(f, Swap + a, s.tail))
      BY <2>1, <2>5 DEF SwapOperation
    <3> HIDE DEF q, z, a
    <3>5. Swap + a \in Nat /\ Swap + a + s.tail <= Swap + PageWords
      BY <3>2, <3>3, Sizes
    <3>6. Read(f, Swap + a, s.tail) \in Seq(Contents)
      BY <3>2, <3>5, ReadWords
    <3> QED
      BY <3>2, <3>4, <3>6, WriteIsOp
  <2>6. CASE s.sub = "RESTORE_HEAD"
    <3>1. s.head \in Nat /\ s.head < PageWords
      BY MachineFields DEF Control
    <3>2. Read(f, Swap, s.head) \in Seq(Contents)
      BY <3>1, ReadWords, Sizes
    <3>3. (s.page - 1) * PageWords \in Int
      BY <1>1, Sizes
    <3> QED
      BY <2>1, <2>6, <3>2, <3>3, WriteIsOp DEF SwapOperation
  <2> QED
    BY <1>1, <2>2, <2>3, <2>4, <2>5, <2>6 DEF Subs
<1> QED
  BY <1>2, <1>3, <1>4 DEF Active

LEMMA Entered ==
  ASSUME NEW s \in Machine, NEW f \in [Words -> Contents], NEW e,
         Active(s), Control(s), Holds(s, f, e), s.flashOp \in {NoOp, Foreign}, s.busy = FALSE
  PROVE  /\ Enter(s, f) \in Machine /\ Alike(Enter(s, f), s)
         /\ Control(Enter(s, f)) /\ Holds(Enter(s, f), f, e) /\ Issued(Enter(s, f), f)
<1> DEFINE op == Operation(s, f)
           r == Enter(s, f)
<1>1. op \in FlashOps
  BY OperationIsOp
<1>2. CASE s.flashOp = NoOp
  <2>1. r = [s EXCEPT !.flashOp = op]
    BY <1>2 DEF Enter, Issue
  <2> HIDE DEF op, r
  <2>2. r \in Machine /\ Alike(r, s) /\ r.flashOp = op /\ r.busy = FALSE
    BY <1>1, <2>1 DEF Machine, Alike
  <2>3. Control(r) /\ Holds(r, f, e) /\ Operation(r, f) = op /\ Active(r)
    BY <2>2, AlikeStates DEF op
  <2>4. Issued(r, f)
    BY <2>2, <2>3 DEF Issued
  <2> QED
    BY <2>2, <2>3, <2>4 DEF r
<1>3. CASE s.flashOp = Foreign
  <2>1. r = [s EXCEPT !.busy = TRUE]
    BY <1>3 DEF Enter, Issue, NoOp, Foreign
  <2> HIDE DEF op, r
  <2>2. r \in Machine /\ Alike(r, s) /\ r.flashOp = Foreign /\ r.busy = TRUE
    BY <1>3, <2>1 DEF Machine, Alike
  <2>3. Control(r) /\ Holds(r, f, e) /\ Active(r)
    BY <2>2, AlikeStates
  <2>4. Issued(r, f)
    BY <2>2, <2>3 DEF Issued
  <2> QED
    BY <2>2, <2>3, <2>4 DEF r
<1> QED
  BY <1>2, <1>3

-----------------------------------------------------------------------------
(* The contents of the flash while a command is under way. *)
Typed(f, e) ==
  f \in [Words -> Contents] /\ e \in [Data -> Contents] /\ Beyond(f) /\ Beyond(e)

(* What an operation does to the words: erases a page, or copies n words.   *)
ErasedAt(g, f, b) ==
  \A w \in Words : f[w] = IF b <= w /\ w < b + PageWords THEN Erased ELSE g[w]
CopiedTo(g, f, at, from, n) ==
  \A w \in Words : f[w] = IF at <= w /\ w < at + n THEN g[from + (w - at)] ELSE g[w]

LEMMA WordSets ==
  /\ Data \subseteq Nat /\ Words \subseteq Nat /\ Data \subseteq Words
  /\ \A w \in Data : w < Swap
  /\ \A w \in Nat : w < Swap => w \in Data
  /\ \A w \in Nat : w < Swap + PageWords => w \in Words
BY Sizes DEF Data, Words, Swap

LEMMA CoveredWords ==
  ASSUME NEW c \in Commands
  PROVE  /\ \A w \in Int : w \in Covered(c) <=> Start(c) <= w /\ w < CmdEnd(c)
         /\ Covered(c) \subseteq Data
<1>1. /\ Covered(c) = Start(c)..(CmdEnd(c) - 1) /\ Start(c) \in Nat /\ CmdEnd(c) \in Nat
      /\ CmdEnd(c) <= AreaEnd
  BY Geometry
<1> QED
  BY <1>1, Sizes, WordSets

LEMMA SwapErased ==
  ASSUME NEW g, NEW f, NEW e, NEW c, NEW b, ErasedAt(g, f, Swap)
  PROVE  /\ Beyond(g) => Beyond(f)
         /\ Done(g, e, c, b) => Done(f, e, c, b)
         /\ Intact(g, e, b) => Intact(f, e, b)
         /\ Blank(f, Swap, Swap + PageWords)
<1>1. \A w \in Data : f[w] = g[w]
  BY WordSets, Sizes DEF ErasedAt
<1>2. Blank(f, Swap, Swap + PageWords)
  BY DEF Blank, ErasedAt
<1> QED
  BY <1>1, <1>2 DEF Beyond, Done, Intact

LEMMA SwapWritten ==
  ASSUME NEW g, NEW f, NEW e, NEW c, NEW b \in Nat, b + PageWords <= Swap,
         CopiedTo(g, f, Swap, b, PageWords), Intact(g, e, b)
  PROVE  /\ Beyond(g) => Beyond(f)
         /\ Done(g, e, c, b) => Done(f, e, c, b)
         /\ Intact(f, e, b)
         /\ Saved(f, e, c, b, b)
<1>1. \A w \in Data : f[w] = g[w]
  BY WordSets, Sizes DEF CopiedTo
<1>2. ASSUME NEW w \in Data, b <= w, w < b + PageWords PROVE f[Swap + (w - b)] = e[w]
  <2>1. w \in Nat /\ Swap \in Nat /\ PageWords \in Nat
    BY WordSets, Sizes
  <2> DEFINE v == Swap + (w - b)
  <2>2. v \in Nat /\ v < Swap + PageWords /\ Swap <= v /\ b + (v - Swap) = w
    BY <1>2, <2>1
  <2> HIDE DEF v
  <2>3. v \in Words
    BY <2>2, WordSets
  <2>4. f[v] = g[w]
    BY <2>2, <2>3 DEF CopiedTo
  <2>5. g[w] = e[w]
    BY <1>2 DEF Intact
  <2> QED
    BY <2>4, <2>5 DEF v
<1>3. Saved(f, e, c, b, b)
  BY <1>2 DEF Saved
<1> QED
  BY <1>1, <1>3 DEF Beyond, Done, Intact

LEMMA PageErased ==
  ASSUME NEW g, NEW f, NEW e, NEW c, NEW b \in Nat, b + PageWords <= Swap,
         ErasedAt(g, f, b), Done(g, e, c, b), Intact(g, e, b)
  PROVE  /\ Beyond(g) => Beyond(f)
         /\ Done(f, e, c, b)
         /\ Intact(f, e, b + PageWords)
         /\ Blank(f, b, b + PageWords)
         /\ Saved(g, e, c, b, b) => Saved(f, e, c, b, b)
<1>1. \A w \in Data : w \in Nat /\ w \in Words /\ w < Swap
  BY WordSets
<1>2. \A w \in Data : b <= w /\ w < b + PageWords => f[w] = Erased
  BY <1>1 DEF ErasedAt
<1>3. \A w \in Data : ~(b <= w /\ w < b + PageWords) => f[w] = g[w]
  BY <1>1 DEF ErasedAt
<1>4. Beyond(g) => Beyond(f)
  BY <1>2, <1>3 DEF Beyond
<1>5. Done(f, e, c, b)
  BY <1>1, <1>3 DEF Done
<1>6. Intact(f, e, b + PageWords)
  BY <1>1, <1>3, Sizes DEF Intact
<1>7. Blank(f, b, b + PageWords)
  BY DEF Blank, ErasedAt
<1>8. ASSUME NEW w \in Data, b <= w, w < b + PageWords
      PROVE  f[Swap + (w - b)] = g[Swap + (w - b)]
  <2> DEFINE v == Swap + (w - b)
  <2>1. v \in Nat /\ v < Swap + PageWords /\ Swap <= v
    BY <1>1, <1>8, Sizes
  <2> HIDE DEF v
  <2>2. v \in Words /\ ~(v < b + PageWords)
    BY <2>1, WordSets, Sizes
  <2> QED
    BY <2>2 DEF ErasedAt, v
<1>9. Saved(g, e, c, b, b) => Saved(f, e, c, b, b)
  BY <1>8 DEF Saved
<1> QED
  BY <1>4, <1>5, <1>6, <1>7, <1>9

(* A page of covered words, erased, is as the command leaves it. *)
LEMMA CoveredPage ==
  ASSUME NEW f, NEW e, NEW c \in Commands, NEW b \in Nat, NEW h \in Nat,
         Start(c) <= b, h <= CmdEnd(c), Done(f, e, c, b), Blank(f, b, h)
  PROVE  Done(f, e, c, h)
<1> SUFFICES ASSUME NEW w \in Data, w < h
             PROVE  f[w] = IF w \in Covered(c) THEN Erased ELSE e[w]
  BY DEF Done
<1>1. w \in Nat /\ w \in Words /\ Start(c) \in Nat /\ CmdEnd(c) \in Nat
  BY WordSets, Geometry
<1>2. CASE w < b
  BY <1>2 DEF Done
<1>3. CASE b <= w
  <2>1. w \in Covered(c)
    BY <1>1, <1>3, CoveredWords
  <2> QED
    BY <1>1, <1>3, <2>1 DEF Blank
<1> QED
  BY <1>1, <1>2, <1>3

(* With nothing left to restore, the whole area is. *)
LEMMA AllDone ==
  ASSUME NEW f, NEW e, NEW c \in Commands, NEW h \in Nat,
         Beyond(e), Done(f, e, c, CmdEnd(c)), Blank(f, CmdEnd(c), h), Intact(f, e, h),
         CmdEnd(c) = AreaEnd \/ h <= CmdEnd(c)
  PROVE  Done(f, e, c, Swap)
<1> SUFFICES ASSUME NEW w \in Data
             PROVE  f[w] = IF w \in Covered(c) THEN Erased ELSE e[w]
  BY DEF Done
<1>1. w \in Nat /\ w \in Words /\ Start(c) \in Nat /\ CmdEnd(c) \in Nat
  BY WordSets, Geometry
<1>2. CASE w < CmdEnd(c)
  BY <1>2 DEF Done
<1>3. CASE CmdEnd(c) <= w
  <2>1. w \notin Covered(c)
    BY <1>1, <1>3, CoveredWords
  <2>2. CASE h <= w
    BY <2>1, <2>2 DEF Intact
  <2>3. CASE w < h
    <3>1. f[w] = Erased
      BY <1>1, <1>3, <2>3 DEF Blank
    <3>2. AreaEnd <= w
      BY <1>1, <1>3, <2>3
    <3> QED
      BY <2>1, <3>1, <3>2 DEF Beyond
  <2> QED
    BY <1>1, <2>2, <2>3
<1> QED
  BY <1>1, <1>2, <1>3

LEMMA HeadRestored ==
  ASSUME NEW g, NEW f, NEW e, NEW c \in Commands, NEW b \in Nat, b + PageWords <= Swap,
         b <= Start(c), Start(c) < b + PageWords,
         CopiedTo(g, f, b, Swap, Start(c) - b),
         Done(g, e, c, b), Blank(g, b, b + PageWords), Intact(g, e, b + PageWords), Saved(g, e, c, b, b)
  PROVE  /\ Beyond(g) => Beyond(f)
         /\ Done(f, e, c, Start(c))
         /\ Blank(f, Start(c), b + PageWords)
         /\ Intact(f, e, b + PageWords)
         /\ Saved(f, e, c, b, b)
<1> DEFINE x == Start(c)
<1>1. x \in Nat /\ x < AreaEnd /\ x < CmdEnd(c) /\ CmdEnd(c) \in Nat /\ AreaEnd \in Nat /\ AreaEnd <= Swap
  BY Geometry, Sizes
<1>2. \A w \in Words : w \in Nat
  BY WordSets
<1>3. \A w \in Data : w \in Nat /\ w \in Words /\ w < Swap
  BY WordSets
<1>4. \A w \in Int : w < x => w \notin Covered(c)
  BY <1>1, CoveredWords
<1>5. PageWords \in Nat /\ PageWords > 0 /\ Swap \in Nat
  BY Sizes
<1>6. b <= x /\ x < b + PageWords /\ b + (x - b) = x
  BY <1>1
<1> HIDE DEF x
<1>7. \A w \in Words : ~(b <= w /\ w < x) => f[w] = g[w]
  BY <1>6 DEF CopiedTo, x
<1>8. ASSUME NEW w \in Data, b <= w, w < x PROVE f[w] = e[w]
  <2>1. f[w] = g[Swap + (w - b)]
    BY <1>3, <1>6, <1>8 DEF CopiedTo, x
  <2>2. w < b + PageWords /\ w \notin Covered(c) /\ w < AreaEnd
    BY <1>1, <1>3, <1>4, <1>5, <1>6, <1>8
  <2>3. g[Swap + (w - b)] = e[w]
    BY <1>8, <2>2 DEF Saved
  <2> QED
    BY <2>1, <2>3
<1>9. Beyond(g) => Beyond(f)
  BY <1>1, <1>3, <1>7 DEF Beyond
<1>10. Done(f, e, c, x)
  <2> SUFFICES ASSUME NEW w \in Data, w < x
               PROVE  f[w] = IF w \in Covered(c) THEN Erased ELSE e[w]
    BY DEF Done
  <2>1. w \in Nat /\ w \in Words /\ w \notin Covered(c)
    BY <1>3, <1>4
  <2>2. CASE b <= w
    BY <1>8, <2>1, <2>2
  <2>3. CASE w < b
    <3>1. g[w] = e[w]
      BY <2>1, <2>3 DEF Done
    <3>2. f[w] = g[w]
      BY <1>7, <2>1, <2>3
    <3> QED
      BY <2>1, <3>1, <3>2
  <2> QED
    BY <2>1, <2>2, <2>3
<1>11. Blank(f, x, b + PageWords)
  BY <1>1, <1>2, <1>5, <1>6, <1>7 DEF Blank
<1>12. Intact(f, e, b + PageWords)
  BY <1>1, <1>3, <1>5, <1>6, <1>7 DEF Intact
<1>13. ASSUME NEW w \in Data, b <= w, w < b + PageWords
       PROVE  f[Swap + (w - b)] = g[Swap + (w - b)]
  <2> DEFINE v == Swap + (w - b)
  <2>1. v \in Nat /\ v < Swap + PageWords /\ Swap <= v
    BY <1>3, <1>5, <1>13
  <2> HIDE DEF v
  <2>2. v \in Words /\ ~(v < x)
    BY <1>1, <1>5, <2>1, WordSets
  <2> QED
    BY <1>7, <2>2 DEF v
<1>14. Saved(f, e, c, b, b)
  BY <1>13 DEF Saved
<1> QED
  BY <1>9, <1>10, <1>11, <1>12, <1>14 DEF x

LEMMA TailRestored ==
  ASSUME NEW g, NEW f, NEW e, NEW c \in Commands, NEW b \in Nat, NEW n \in Nat,
         b + PageWords <= Swap, b < CmdEnd(c), CmdEnd(c) + n <= AreaEnd,
         CmdEnd(c) + n <= b + PageWords, CmdEnd(c) + n \in {AreaEnd, b + PageWords},
         CopiedTo(g, f, CmdEnd(c), Swap + (CmdEnd(c) - b), n), Beyond(e),
         Done(g, e, c, CmdEnd(c)), Blank(g, CmdEnd(c), b + PageWords),
         Intact(g, e, b + PageWords), Saved(g, e, c, b, CmdEnd(c))
  PROVE  /\ Beyond(g) => Beyond(f)
         /\ Done(f, e, c, Swap)
<1> DEFINE z == CmdEnd(c)
<1>1. z \in Nat /\ AreaEnd \in Nat /\ AreaEnd <= Swap /\ Swap \in Nat /\ PageWords \in Nat
  BY Geometry, Sizes
<1>2. \A w \in Data : w \in Nat /\ w \in Words /\ w < Swap
  BY WordSets
<1>3. \A w \in Int : z <= w => w \notin Covered(c)
  BY <1>1, CoveredWords, Geometry
<1>4. \A w \in Words : f[w] = IF z <= w /\ w < z + n THEN g[Swap + (z - b) + (w - z)] ELSE g[w]
  BY DEF CopiedTo
<1>5. b < z /\ z + n <= AreaEnd /\ z + n <= b + PageWords /\ z + n \in {AreaEnd, b + PageWords}
  OBVIOUS
<1>6. Done(g, e, c, z) /\ Blank(g, z, b + PageWords) /\ Saved(g, e, c, b, z)
  OBVIOUS
<1> HIDE DEF z
<1>7. ASSUME NEW w \in Data, z <= w, w < z + n PROVE f[w] = e[w]
  <2>1. w \in Nat /\ w \in Words /\ w \notin Covered(c) /\ w < b + PageWords /\ w < AreaEnd
    BY <1>1, <1>2, <1>3, <1>5, <1>7
  <2>2. f[w] = g[Swap + (z - b) + (w - z)]
    BY <1>4, <1>7, <2>1
  <2>3. Swap + (z - b) + (w - z) = Swap + (w - b)
    BY <1>1, <2>1
  <2>4. g[Swap + (w - b)] = e[w]
    BY <1>6, <1>7, <2>1 DEF Saved
  <2> QED
    BY <2>2, <2>3, <2>4
<1>8. Beyond(g) => Beyond(f)
  BY <1>1, <1>2, <1>4, <1>5 DEF Beyond
<1>9. Done(f, e, c, Swap)
  <2> SUFFICES ASSUME NEW w \in Data
               PROVE  f[w] = IF w \in Covered(c) THEN Erased ELSE e[w]
    BY DEF Done
  <2>1. w \in Nat /\ w \in Words
    BY <1>2
  <2>2. CASE w < z
    <3>1. f[w] = g[w]
      BY <1>1, <1>4, <2>1, <2>2
    <3> QED
      BY <1>6, <2>2, <3>1 DEF Done
  <2>3. CASE z <= w /\ w < z + n
    BY <1>3, <1>7, <2>1, <2>3
  <2>4. CASE z + n <= w
    <3>1. f[w] = g[w] /\ w \notin Covered(c) /\ z <= w
      BY <1>1, <1>3, <1>4, <2>1, <2>4
    <3>2. CASE b + PageWords <= w
      BY <3>1, <3>2 DEF Intact
    <3>3. CASE w < b + PageWords
      <4>1. AreaEnd <= w
        BY <1>1, <1>5, <2>1, <2>4, <3>3
      <4>2. g[w] = Erased
        BY <1>6, <2>1, <3>1, <3>3 DEF Blank
      <4> QED
        BY <3>1, <4>1, <4>2 DEF Beyond
    <3> QED
      BY <1>1, <2>1, <3>2, <3>3
  <2> QED
    BY <1>1, <2>1, <2>2, <2>3, <2>4
<1> QED
  BY <1>8, <1>9

-----------------------------------------------------------------------------
(* The contents a command promises, and the two ways of reaching them.     *)
LEMMA Promised ==
  ASSUME NEW e \in [Data -> Contents], NEW c \in Commands
  PROVE  /\ Promise(e, c) \in [Data -> Contents]
         /\ Beyond(e) => Beyond(Promise(e, c))
         /\ \A w \in Data : Promise(e, c)[w] =
              IF w \notin Covered(c) THEN e[w] ELSE IF c.op = "clear" THEN Erased ELSE Value(w, c.id)
<1>1. \A w \in Data : w \in Nat
  BY WordSets
<1>2. \A w \in Data : Value(w, c.id) \in Contents
  BY <1>1, StoredWords
<1>3. Erased \in Contents
  BY DEF Erased, Contents
<1>4. \A w \in Data : Promise(e, c)[w] =
        IF w \notin Covered(c) THEN e[w] ELSE IF c.op = "clear" THEN Erased ELSE Value(w, c.id)
  BY DEF Promise
<1>5. Promise(e, c) = [w \in Data |-> Promise(e, c)[w]]
  BY DEF Promise
<1>6. Promise(e, c) \in [Data -> Contents]
  <2>1. \A w \in Data : Promise(e, c)[w] \in Contents
    BY <1>2, <1>3, <1>4
  <2> QED
    BY <1>5, <2>1
<1>7. \A w \in Data : AreaEnd <= w => w \notin Covered(c)
  <2>1. CmdEnd(c) \in Nat /\ CmdEnd(c) <= AreaEnd /\ AreaEnd \in Nat
    BY Geometry, Sizes
  <2> QED
    BY <1>1, <2>1, CoveredWords
<1> QED
  BY <1>4, <1>6, <1>7 DEF Beyond

LEMMA ClearedContents ==
  ASSUME NEW f, NEW e \in [Data -> Contents], NEW c \in Commands, c.op = "clear", Done(f, e, c, Swap)
  PROVE  Intact(f, Promise(e, c), 0)
<1>1. \A w \in Data : w < Swap
  BY WordSets
<1> QED
  BY <1>1, Promised DEF Done, Intact

LEMMA StoredContents ==
  ASSUME NEW g \in [Words -> Contents], NEW e \in [Data -> Contents], NEW c \in Commands, NEW f,
         f = Performed(g, StoreOperation(c)), c.op # "clear",
         IF c.op = "store" THEN Intact(g, e, 0) /\ \A w \in Covered(c) : e[w] = Erased
                           ELSE Done(g, e, c, Swap)
  PROVE  /\ f \in [Words -> Contents]
         /\ Intact(f, Promise(e, c), 0)
         /\ Beyond(g) => Beyond(f)
<1> DEFINE x == Start(c)
           d == [k \in 1..c.size |-> Value(c.block + c.offset + k - 1, c.id)]
<1>1. /\ d \in Seq(Contents) /\ Len(d) = c.size /\ StoreOperation(c) = Write(x, d)
      /\ \A k \in 1..c.size : d[k] = Value(x + k - 1, c.id)
  BY StoredWords
<1>2. /\ x \in Nat /\ c.size \in Nat /\ x + c.size = CmdEnd(c) /\ CmdEnd(c) \in Nat
      /\ CmdEnd(c) <= AreaEnd /\ AreaEnd \in Nat /\ AreaEnd <= Swap /\ Swap \in Nat
  <2>1. c.block \in Nat /\ c.size \in Nat /\ c.offset \in Nat
    BY CommandFields
  <2>2. x + c.size = CmdEnd(c)
    BY <2>1 DEF Start, CmdEnd
  <2> QED
    BY <2>1, <2>2, Geometry, Sizes
<1> HIDE DEF d
<1>3. \A w \in Data : w \in Nat /\ w \in Words /\ w < Swap
  BY WordSets
<1>4. \A w \in Data : w \in Covered(c) <=> x <= w /\ w < x + c.size
  BY <1>2, <1>3, CoveredWords
<1>5. \A w \in Data : w \in Covered(c) => g[w] = Erased
  <2>1. CASE c.op = "store"
    BY <1>3, <2>1 DEF Intact
  <2>2. CASE c.op # "store"
    BY <1>3, <2>2 DEF Done
  <2> QED
    BY <2>1, <2>2
<1>6. \A w \in Data : w \notin Covered(c) => g[w] = e[w]
  <2>1. CASE c.op = "store"
    BY <1>3, <2>1 DEF Intact
  <2>2. CASE c.op # "store"
    BY <1>3, <2>2 DEF Done
  <2> QED
    BY <2>1, <2>2
<1> HIDE DEF x
<1>7. \A w \in Words : x <= w /\ w < x + Len(d) => g[w] = Erased
  <2> SUFFICES ASSUME NEW w \in Words, x <= w, w < x + Len(d) PROVE g[w] = Erased
    OBVIOUS
  <2>1. w \in Nat
    BY WordSets
  <2>2. w < Swap
    BY <1>1, <1>2, <2>1
  <2>3. w \in Data
    BY <2>1, <2>2, WordSets
  <2> QED
    BY <1>1, <1>4, <1>5, <2>3
<1>8. /\ f \in [Words -> Contents]
      /\ \A w \in Words : f[w] = IF x <= w /\ w < x + Len(d) THEN d[w - x + 1] ELSE g[w]
  <2>1. f = Performed(g, Write(x, d))
    BY <1>1
  <2>2. x \in Nat /\ d \in Seq(Contents)
    BY <1>1, <1>2
  <2> QED
    BY <1>7, <2>1, <2>2, WrittenWords
<1>9. ASSUME NEW w \in Data PROVE f[w] = IF w \in Covered(c) THEN Value(w, c.id) ELSE e[w]
  <2>1. CASE w \in Covered(c)
    <3>1. w - x + 1 \in 1..c.size /\ x + (w - x + 1) - 1 = w
      BY <1>2, <1>3, <1>4, <2>1
    <3>2. d[w - x + 1] = Value(w, c.id)
      BY <1>1, <3>1
    <3> QED
      BY <1>1, <1>3, <1>4, <1>8, <2>1, <3>2
  <2>2. CASE w \notin Covered(c)
    BY <1>1, <1>3, <1>4, <1>6, <1>8, <2>2
  <2> QED
    BY <2>1, <2>2
<1>10. Intact(f, Promise(e, c), 0)
  BY <1>9, Promised DEF Intact
<1>11. Beyond(g) => Beyond(f)
  BY <1>1, <1>2, <1>3, <1>8 DEF Beyond
<1> QED
  BY <1>8, <1>10, <1>11

-----------------------------------------------------------------------------
(* The module between two operations, at work on a command. *)
Clean(s) ==
  /\ s \in Machine /\ s.cmds # <<>> /\ s.flashOp \in {NoOp, Foreign} /\ s.busy = FALSE
  /\ s.page \in 0..NumPages /\ s.head < PageWords /\ s.tail < PageWords

(* It goes on with the same command. *)
Goes(r, s, f, e) ==
  /\ r \in Machine /\ Active(r) /\ Control(r) /\ Holds(r, f, e) /\ Issued(r, f)
  /\ r.cmds = s.cmds /\ r.retries = s.retries

LEMMA EnterGoes ==
  ASSUME NEW s \in Machine, NEW f \in [Words -> Contents], NEW e,
         Active(s), Control(s), Holds(s, f, e), s.flashOp \in {NoOp, Foreign}, s.busy = FALSE
  PROVE  Goes(Enter(s, f), s, f, e)
<1> DEFINE r == Enter(s, f)
<1>1. r \in Machine /\ Alike(r, s) /\ Control(r) /\ Holds(r, f, e) /\ Issued(r, f)
  BY Entered
<1> HIDE DEF r
<1>2. Active(r)
  BY <1>1, AlikeStates
<1>3. r.cmds = s.cmds /\ r.retries = s.retries
  BY <1>1 DEF Alike
<1>4. Goes(r, s, f, e)
  BY <1>1, <1>2, <1>3 DEF Goes
<1> QED
  BY <1>4 DEF r

LEMMA StoreGoes ==
  ASSUME NEW s \in Machine, NEW f \in [Words -> Contents], NEW e, Clean(s),
         Current(s).op # "clear",
         IF Current(s).op = "store" THEN Intact(f, e, 0) ELSE Done(f, e, Current(s), Swap)
  PROVE  Goes(StoreEntry(s, f), s, f, e)
<1> DEFINE t == [s EXCEPT !.state = "STORE"]
<1>1. /\ t \in Machine /\ t.state = "STORE" /\ t.cmds = s.cmds /\ t.retries = s.retries
      /\ t.flashOp = s.flashOp /\ t.busy = s.busy /\ t.page = s.page /\ t.head = s.head /\ t.tail = s.tail
  BY DEF Machine, States
<1>2. StoreEntry(s, f) = Enter(t, f)
  BY DEF StoreEntry
<1> HIDE DEF t
<1>3. Current(t) = Current(s)
  BY <1>1 DEF Current
<1>4. Active(t)
  BY <1>1 DEF Active
<1>5. Control(t)
  BY <1>1, <1>3 DEF Control, Clean
<1>6. Holds(t, f, e)
  BY <1>1, <1>3 DEF Holds
<1>7. t.flashOp \in {NoOp, Foreign} /\ t.busy = FALSE
  BY <1>1 DEF Clean
<1>8. Goes(Enter(t, f), t, f, e)
  BY <1>1, <1>4, <1>5, <1>6, <1>7, EnterGoes
<1> QED
  BY <1>1, <1>2, <1>8 DEF Goes

LEMMA EraseGoes ==
  ASSUME NEW s \in Machine, NEW f \in [Words -> Contents], NEW e, Clean(s),
         NoSwapNeeded(Current(s)), s.tail = 0, Current(s).op # "store",
         First(Current(s)) <= s.page, s.page <= Final(Current(s)),
         Done(f, e, Current(s), Base(s)), Intact(f, e, Base(s))
  PROVE  Goes(EraseEntry(s, f), s, f, e)
<1> DEFINE t == [s EXCEPT !.state = "DATA_ERASE"]
<1>1. /\ t \in Machine /\ t.state = "DATA_ERASE" /\ t.cmds = s.cmds /\ t.retries = s.retries
      /\ t.flashOp = s.flashOp /\ t.busy = s.busy /\ t.page = s.page /\ t.head = s.head /\ t.tail = s.tail
  BY DEF Machine, States
<1>2. EraseEntry(s, f) = Enter(t, f)
  BY DEF EraseEntry
<1> HIDE DEF t
<1>3. Current(t) = Current(s) /\ Base(t) = Base(s)
  BY <1>1 DEF Current, Base
<1>4. Active(t)
  BY <1>1 DEF Active
<1>5. Control(t)
  BY <1>1, <1>3 DEF Control, Clean
<1>6. Holds(t, f, e)
  BY <1>1, <1>3 DEF Holds
<1>7. t.flashOp \in {NoOp, Foreign} /\ t.busy = FALSE
  BY <1>1 DEF Clean
<1>8. Goes(Enter(t, f), t, f, e)
  BY <1>1, <1>4, <1>5, <1>6, <1>7, EnterGoes
<1> QED
  BY <1>1, <1>2, <1>8 DEF Goes

LEMMA SubGoes ==
  ASSUME NEW s \in Machine, NEW f \in [Words -> Contents], NEW e, NEW sub \in Subs, Clean(s),
         s.state = "DATA_ERASE_WITH_SWAP", Current(s).op # "store",
         SwapControl([s EXCEPT !.sub = sub]), SwapFlash([s EXCEPT !.sub = sub], f, e)
  PROVE  Goes(ToSub(s, f, sub), s, f, e)
<1> DEFINE t == [s EXCEPT !.sub = sub]
<1>1. /\ t \in Machine /\ t.state = "DATA_ERASE_WITH_SWAP" /\ t.cmds = s.cmds /\ t.retries = s.retries
      /\ t.flashOp = s.flashOp /\ t.busy = s.busy /\ t.page = s.page /\ t.head = s.head /\ t.tail = s.tail
  BY DEF Machine
<1>2. ToSub(s, f, sub) = Enter(t, f)
  BY DEF ToSub
<1>3. SwapControl(t) /\ SwapFlash(t, f, e)
  OBVIOUS
<1> HIDE DEF t
<1>4. Current(t) = Current(s)
  BY <1>1 DEF Current
<1>5. Active(t)
  BY <1>1 DEF Active
<1>6. Control(t)
  BY <1>1, <1>3, <1>4 DEF Control, Clean
<1>7. Holds(t, f, e)
  BY <1>1, <1>3 DEF Holds
<1>8. t.flashOp \in {NoOp, Foreign} /\ t.busy = FALSE
  BY <1>1 DEF Clean
<1>9. Goes(Enter(t, f), t, f, e)
  BY <1>1, <1>5, <1>6, <1>7, <1>8, EnterGoes
<1> QED
  BY <1>1, <1>2, <1>9 DEF Goes

(* A page that the command covers to its end, or to the end of the area,   *)
(* has nothing to save.                                                    *)
LEMMA NothingToSave ==
  ASSUME NEW f, NEW e, NEW c \in Commands, NEW b \in Nat, Start(c) <= b,
         b + PageWords <= CmdEnd(c) \/ CmdEnd(c) = AreaEnd
  PROVE  Saved(f, e, c, b, b)
<1>1. \A w \in Data : w \in Nat
  BY WordSets
<1>2. Start(c) \in Nat /\ CmdEnd(c) \in Nat
  BY Geometry
<1> QED
  BY <1>1, <1>2, CoveredWords, Sizes DEF Saved

LEMMA NothingDone ==
  ASSUME NEW f, NEW e, NEW c \in Commands, NEW b \in Nat, b <= Start(c), Intact(f, e, 0)
  PROVE  Done(f, e, c, b) /\ Intact(f, e, b)
<1>1. \A w \in Data : w \in Nat
  BY WordSets
<1>2. Start(c) \in Nat /\ CmdEnd(c) \in Nat
  BY Geometry
<1> QED
  BY <1>1, <1>2, CoveredWords DEF Done, Intact

(* state_data_erase_swap_entry_run() *)
LEMMA SwapGoes ==
  ASSUME NEW s \in Machine, NEW f \in [Words -> Contents], NEW e, Clean(s),
         s.head = HeadOf(Current(s)), s.tail = TailOf(Current(s)), Current(s).op # "store",
         Intact(f, e, 0)
  PROVE  Goes(SwapEntry(s, f), s, f, e)
<1> DEFINE c == Current(s)
           page == c.block \div PageWords
           single == page = (c.block + c.size - 1) \div PageWords
           sub == IF s.head = 0 /\ ~single THEN "ERASE_DATA_PAGE" ELSE "ERASE_SWAP"
           u == [s EXCEPT !.state = "DATA_ERASE_WITH_SWAP", !.tailDone = FALSE,
                          !.page = page, !.single = single]
           t == [u EXCEPT !.sub = sub]
<1>1. SwapEntry(s, f) = ToSub(u, f, sub)
  BY DEF SwapEntry
<1>2. /\ page = First(c) /\ First(c) \in Nat /\ Final(c) \in Nat
      /\ First(c) <= Final(c) /\ Final(c) < NumPages
      /\ single = (First(c) = Final(c)) /\ single \in BOOLEAN
      /\ single <=> First(c) = Final(c)
  <2>1. c \in Commands
    BY MachineFields DEF Clean
  <2>2. page = First(c)
    BY DEF First
  <2> QED
    BY <2>1, <2>2, Geometry
<1>3. sub \in Subs
  BY DEF Subs
<1> HIDE DEF page, single
<1>4. /\ u \in Machine /\ u.state = "DATA_ERASE_WITH_SWAP" /\ u.cmds = s.cmds /\ u.retries = s.retries
      /\ u.flashOp = s.flashOp /\ u.busy = s.busy /\ u.page = page /\ u.head = s.head /\ u.tail = s.tail
      /\ u.tailDone = FALSE /\ u.single = single
  <2>1. page \in Int
    BY <1>2
  <2>2. u \in Machine
    BY <1>2, <2>1 DEF Machine, States
  <2> QED
    BY <2>2 DEF Machine
<1>5. /\ t.sub = sub /\ t.cmds = s.cmds /\ t.page = page /\ t.head = s.head /\ t.tail = s.tail
      /\ t.tailDone = FALSE /\ t.single = single
  BY DEF Machine
<1>6. Current(u) = c /\ Current(t) = c /\ Base(t) = First(c) * PageWords
  BY <1>2, <1>4, <1>5 DEF Current, Base
<1>7. Clean(u)
  BY <1>2, <1>4, Sizes DEF Clean
<1>8. SwapControl(t)
  <2> HIDE DEF t, u, c
  <2>1. First(c) = Final(c) => ~(First(c) < Final(c))
    BY <1>2
  <2> QED
    BY <1>2, <1>5, <1>6 DEF SwapControl, c
<1>9. SwapFlash(t, f, e)
  <2>1. c \in Commands
    BY MachineFields DEF Clean
  <2> DEFINE b == First(c) * PageWords
  <2>2. b \in Nat /\ b <= Start(c)
    BY <2>1, Geometry
  <2>3. Done(f, e, c, b) /\ Intact(f, e, b)
    <3> HIDE DEF b, c
    <3> QED BY <2>1, <2>2, NothingDone
  <2>4. s.head = 0 /\ ~single => Saved(f, e, c, b, b)
    <3> SUFFICES ASSUME s.head = 0, ~single PROVE Saved(f, e, c, b, b)
      OBVIOUS
    <3>1. Start(c) = b
      <4>1. HeadOf(c) = Start(c) - b /\ HeadOf(c) = 0 /\ Start(c) \in Nat
        BY <2>1, HeadGeometry, Geometry
      <4> HIDE DEF b, c
      <4> QED BY <2>2, <4>1
    <3>2. b + PageWords <= CmdEnd(c)
      <4>1. First(c) < Final(c)
        BY <1>2
      <4>2. b + PageWords <= Final(c) * PageWords /\ Final(c) * PageWords < CmdEnd(c)
            /\ Final(c) * PageWords \in Nat /\ CmdEnd(c) \in Nat
        BY <1>2, <2>1, <4>1, Pages, Geometry
      <4> HIDE DEF b, c
      <4> QED BY <2>2, <4>2, Sizes
    <3> HIDE DEF b, c
    <3> QED BY <2>1, <2>2, <3>1, <3>2, NothingToSave
  <2> HIDE DEF t, u, b
  <2>5. Base(t) = b
    BY <1>6 DEF b
  <2> QED
    BY <1>5, <1>6, <2>3, <2>4, <2>5 DEF SwapFlash
<1>10. Goes(ToSub(u, f, sub), u, f, e)
  <2>1. Current(u).op # "store"
    BY <1>6
  <2> HIDE DEF u, sub
  <2> QED
    BY <1>3, <1>4, <1>7, <1>8, <1>9, <2>1, SubGoes
<1> QED
  BY <1>1, <1>4, <1>10 DEF Goes

(* cmd_process() *)
LEMMA ProcessGoes ==
  ASSUME NEW s \in Machine, NEW f \in [Words -> Contents], NEW e, Clean(s), Intact(f, e, 0)
  PROVE  Goes(Process(s, f), s, f, e)
<1> DEFINE c == Current(s)
<1>1. c \in Commands
  BY MachineFields DEF Clean
<1>2. CASE c.op = "store"
  <2>1. Process(s, f) = StoreEntry(s, f)
    BY <1>2 DEF Process
  <2> QED
    BY <1>2, <2>1, StoreGoes
<1>3. CASE c.op # "store" /\ NoSwapNeeded(c)
  <2> DEFINE u == [s EXCEPT !.tail = 0, !.page = c.block \div PageWords]
             b == First(c) * PageWords
  <2>1. Process(s, f) = EraseEntry(u, f)
    BY <1>3 DEF Process, ClearOperation
  <2>2. /\ c.block \div PageWords = First(c) /\ First(c) \in Nat /\ First(c) < NumPages
        /\ First(c) <= Final(c) /\ Final(c) \in Nat /\ b \in Nat /\ b <= Start(c)
    <3>1. c.block \div PageWords = First(c)
      BY DEF First
    <3>2. /\ First(c) \in Nat /\ Final(c) \in Nat /\ First(c) <= Final(c) /\ Final(c) < NumPages
          /\ b \in Nat /\ b <= Start(c)
      BY <1>1, Geometry
    <3>3. First(c) < NumPages
      <4> HIDE DEF b, c
      <4> QED BY <3>2, Sizes
    <3> QED
      BY <3>1, <3>2, <3>3
  <2>3. u \in Machine
    <3>1. c.block \div PageWords \in Int
      BY <2>2
    <3> QED
      BY <3>1 DEF Machine
  <2>4. /\ u.cmds = s.cmds /\ u.retries = s.retries /\ u.flashOp = s.flashOp /\ u.busy = s.busy
        /\ u.page = First(c) /\ u.head = s.head /\ u.tail = 0
    BY <2>2 DEF Machine
  <2> HIDE DEF u
  <2>5. Current(u) = c /\ Base(u) = b
    BY <2>4 DEF Current, Base
  <2>6. Clean(u)
    BY <2>2, <2>3, <2>4, Sizes DEF Clean
  <2>7. Done(f, e, c, b) /\ Intact(f, e, b)
    <3> HIDE DEF b, c
    <3> QED BY <1>1, <2>2, NothingDone
  <2>8. First(c) <= u.page /\ u.page <= Final(c)
    BY <2>2, <2>4
  <2>9. Goes(EraseEntry(u, f), u, f, e)
    <3> HIDE DEF b
    <3> QED BY <1>3, <2>3, <2>4, <2>5, <2>6, <2>7, <2>8, EraseGoes
  <2> QED
    BY <2>1, <2>4, <2>9 DEF Goes
<1>4. CASE c.op # "store" /\ ~NoSwapNeeded(c)
  <2> DEFINE h == (c.block + c.offset) % PageWords
             n == IF HasTail(c) THEN TailWords(c) ELSE 0
             u == [s EXCEPT !.head = h, !.tail = n]
  <2>1. Process(s, f) = SwapEntry(u, f)
    BY <1>4 DEF Process, ClearOperation
  <2>2. h = HeadOf(c) /\ n = TailOf(c)
    BY DEF HeadOf, TailOf, Start
  <2>3. h \in Nat /\ h < PageWords /\ n \in Nat /\ n < PageWords
    BY <1>1, <2>2, HeadGeometry, TailGeometry
  <2> HIDE DEF h, n
  <2>4. u \in Machine
    BY <2>3 DEF Machine
  <2>5. /\ u.cmds = s.cmds /\ u.retries = s.retries /\ u.flashOp = s.flashOp /\ u.busy = s.busy
        /\ u.page = s.page /\ u.head = h /\ u.tail = n
    BY DEF Machine
  <2> HIDE DEF u
  <2>6. Current(u) = c
    BY <2>5 DEF Current
  <2>7. Clean(u)
    BY <2>3, <2>4, <2>5 DEF Clean
  <2>8. Goes(SwapEntry(u, f), u, f, e)
    BY <1>4, <2>2, <2>4, <2>5, <2>6, <2>7, SwapGoes
  <2> QED
    BY <2>1, <2>5, <2>8 DEF Goes
<1> QED
  BY <1>2, <1>3, <1>4

(* The command is over, and the flash holds what it promised. *)
Ended(r, s, f, e, more) ==
  /\ Intact(f, Promise(e, Current(s)), 0)
  /\ r \in Machine /\ Control(r) /\ Holds(r, f, Promise(e, Current(s))) /\ Issued(r, f)
  /\ r.cmds = Tail(s.cmds \o more) /\ r.retries = 0 /\ r.state # "ERROR"

(* command_end_procedure_run() *)
LEMMA CommandEnds ==
  ASSUME NEW s \in Machine, NEW f \in [Words -> Contents], NEW e, NEW more \in Seq(Commands),
         Clean(s), Intact(f, Promise(e, Current(s)), 0)
  PROVE  Ended(CommandEnd(s, f, more), s, f, e, more)
<1> DEFINE q == Tail(s.cmds \o more)
           u == [s EXCEPT !.cmds = q]
           v == [u EXCEPT !.state = "IDLE", !.retries = 0]
           d == Promise(e, Current(s))
<1>1. q \in Seq(Commands)
  <2>1. s.cmds \in Seq(Commands) /\ s.cmds # <<>>
    BY MachineFields DEF Clean
  <2>2. s.cmds \o more \in Seq(Commands) /\ Len(s.cmds \o more) = Len(s.cmds) + Len(more)
    BY <2>1, ConcatProperties
  <2>3. s.cmds \o more # <<>>
    <3>1. Len(s.cmds) \in Nat /\ Len(s.cmds) # 0 /\ Len(more) \in Nat
      BY <2>1, LenProperties, EmptySeq
    <3>2. Len(s.cmds \o more) # 0
      BY <2>2, <3>1
    <3> QED
      BY <2>2, <3>2, EmptySeq
  <2> QED
    BY <2>2, <2>3, HeadTailProperties
<1>2. CommandEnd(s, f, more) = IF v.cmds = <<>> THEN v ELSE Process(v, f)
  BY DEF CommandEnd, Idle
<1> HIDE DEF q
<1>3. u \in Machine
  BY <1>1 DEF Machine
<1>4. v \in Machine
  BY <1>3 DEF Machine, States
<1>5. /\ v.state = "IDLE" /\ v.cmds = q /\ v.retries = 0 /\ v.flashOp = s.flashOp /\ v.busy = s.busy
      /\ v.page = s.page /\ v.head = s.head /\ v.tail = s.tail
  BY <1>3 DEF Machine
<1> HIDE DEF u, v
<1>6. CASE q = <<>>
  <2>1. CommandEnd(s, f, more) = v
    BY <1>2, <1>5, <1>6
  <2>2. Control(v)
    BY <1>5, <1>6 DEF Control, Clean
  <2>3. Holds(v, f, d)
    BY <1>5 DEF Holds
  <2>4. Issued(v, f)
    BY <1>5 DEF Issued, Active, Clean
  <2> QED
    BY <1>4, <1>5, <2>1, <2>2, <2>3, <2>4 DEF Ended, q
<1>7. CASE q # <<>>
  <2> DEFINE r == Process(v, f)
  <2>1. CommandEnd(s, f, more) = r
    BY <1>2, <1>5, <1>7
  <2>2. Clean(v)
    BY <1>4, <1>5, <1>7 DEF Clean
  <2>3. Goes(r, v, f, d)
    <3> HIDE DEF d
    <3>1. Intact(f, d, 0)
      BY DEF d
    <3> QED
      BY <1>4, <2>2, <3>1, ProcessGoes
  <2> HIDE DEF r
  <2>4. r \in Machine /\ Control(r) /\ Holds(r, f, d) /\ Issued(r, f) /\ r.cmds = q /\ r.retries = 0
    BY <1>5, <2>3 DEF Goes
  <2>5. r.state # "ERROR"
    BY <2>3 DEF Goes, Active
  <2> QED
    BY <2>1, <2>4, <2>5 DEF Ended, q
<1> QED
  BY <1>6, <1>7

(* Either way; and whether the command is over does not depend on what the *)
(* application asks for when it is told.                                   *)
Outcome(r, r0, s, f, e, more) ==
  \/ Goes(r, s, f, e) /\ r0 = r
  \/ Ended(r, s, f, e, more) /\ Ended(r0, s, f, e, <<>>)

(* clear_post_processing_run() *)
LEMMA ClearedGoes ==
  ASSUME NEW s \in Machine, NEW f \in [Words -> Contents], NEW e \in [Data -> Contents],
         NEW more \in Seq(Commands), Clean(s), Current(s).op # "store", Done(f, e, Current(s), Swap)
  PROVE  Outcome(Cleared(s, f, more), Cleared(s, f, <<>>), s, f, e, more)
<1> DEFINE c == Current(s)
<1>1. c \in Commands /\ c.op \in {"store", "update", "clear"}
  BY MachineFields, CommandFields DEF Clean
<1>2. CASE c.op = "update"
  <2>1. Goes(StoreEntry(s, f), s, f, e)
    BY <1>2, StoreGoes
  <2>2. Cleared(s, f, more) = StoreEntry(s, f) /\ Cleared(s, f, <<>>) = StoreEntry(s, f)
    BY <1>2 DEF Cleared
  <2> QED
    BY <2>1, <2>2 DEF Outcome
<1>3. CASE c.op = "clear"
  <2>1. Intact(f, Promise(e, c), 0)
    BY <1>1, <1>3, ClearedContents
  <2>2. <<>> \in Seq(Commands)
    BY EmptySeq
  <2>3. Ended(CommandEnd(s, f, more), s, f, e, more) /\ Ended(CommandEnd(s, f, <<>>), s, f, e, <<>>)
    BY <2>1, <2>2, CommandEnds
  <2>4. Cleared(s, f, more) = CommandEnd(s, f, more) /\ Cleared(s, f, <<>>) = CommandEnd(s, f, <<>>)
    BY <1>3 DEF Cleared
  <2> QED
    BY <2>3, <2>4 DEF Outcome
<1> QED
  BY <1>1, <1>2, <1>3

LEMMA SameOutcome ==
  ASSUME NEW r, NEW r0, NEW s, NEW t, NEW f, NEW e, NEW more,
         t.cmds = s.cmds, t.retries = s.retries, Outcome(r, r0, t, f, e, more)
  PROVE  Outcome(r, r0, s, f, e, more)
BY DEF Outcome, Goes, Ended, Current

-----------------------------------------------------------------------------
(* An erase with swap on its way from one operation to the next. *)
Swapping(s) ==
  /\ Clean(s) /\ s.state = "DATA_ERASE_WITH_SWAP" /\ Current(s).op # "store"
  /\ s.tail = TailOf(Current(s)) /\ s.single = (First(Current(s)) = Final(Current(s)))

(* The machine moved on to a page. *)
Moved(t, s, page, head, tailDone) ==
  /\ t \in Machine
  /\ t.state = s.state /\ t.cmds = s.cmds /\ t.retries = s.retries /\ t.flashOp = s.flashOp
  /\ t.busy = s.busy /\ t.tail = s.tail /\ t.single = s.single
  /\ t.page = page /\ t.head = head /\ t.tailDone = tailDone

LEMMA MovedGoes ==
  ASSUME NEW s \in Machine, NEW t, NEW f \in [Words -> Contents], NEW e,
         NEW page \in 0..NumPages, NEW head \in Nat, head < PageWords, NEW tailDone \in BOOLEAN,
         NEW sub \in Subs, Swapping(s), Moved(t, s, page, head, tailDone),
         SwapControl([t EXCEPT !.sub = sub]), SwapFlash([t EXCEPT !.sub = sub], f, e)
  PROVE  Goes(ToSub(t, f, sub), s, f, e)
<1>1. Current(t) = Current(s)
  BY DEF Moved, Current
<1>2. t \in Machine /\ Clean(t)
  BY DEF Moved, Clean, Swapping
<1>3. t.state = "DATA_ERASE_WITH_SWAP" /\ Current(t).op # "store"
  BY <1>1 DEF Moved, Swapping
<1>4. Goes(ToSub(t, f, sub), t, f, e)
  BY <1>2, <1>3, SubGoes
<1> QED
  BY <1>4 DEF Moved, Goes

LEMMA SwappingCommand ==
  ASSUME NEW s \in Machine, Swapping(s)
  PROVE  /\ Current(s) \in Commands
         /\ First(Current(s)) \in Nat /\ Final(Current(s)) \in Nat
         /\ First(Current(s)) <= Final(Current(s)) /\ Final(Current(s)) < NumPages
BY MachineFields, Geometry DEF Swapping, Clean

(* To each of the operations, with what the flash then holds. *)
LEMMA ToEraseSwap ==
  ASSUME NEW s \in Machine, NEW t, NEW f \in [Words -> Contents], NEW e, NEW c, c = Current(s),
         Swapping(s), Moved(t, s, Final(c), 0, TRUE), First(c) # Final(c), s.tail # 0,
         Done(f, e, c, Final(c) * PageWords), Intact(f, e, Final(c) * PageWords)
  PROVE  Goes(ToSub(t, f, "ERASE_SWAP"), s, f, e)
<1> DEFINE v == [t EXCEPT !.sub = "ERASE_SWAP"]
           h == 0
           d == TRUE
<1>0. v = [t EXCEPT !.sub = "ERASE_SWAP"]
  OBVIOUS
<1> HIDE DEF v
<1>1. "ERASE_SWAP" \in Subs /\ TRUE \in BOOLEAN
  BY DEF Subs
<1>2. /\ v.sub = "ERASE_SWAP" /\ Current(v) = c /\ v.page = Final(c) /\ v.head = 0
      /\ v.tailDone = TRUE /\ v.tail = s.tail
      /\ v.tail = TailOf(c) /\ v.single = (First(c) = Final(c))
      /\ Base(v) = Final(c) * PageWords
  <2>1. /\ v.sub = "ERASE_SWAP" /\ v.cmds = s.cmds /\ v.page = Final(c) /\ v.head = 0
        /\ v.tail = s.tail /\ v.single = s.single /\ v.tailDone = TRUE
    BY <1>0 DEF Moved, Machine
  <2>2. Current(v) = c
    BY <2>1 DEF Current
  <2> QED
    BY <2>1, <2>2 DEF Swapping, Base
<1>3. Final(c) \in 0..NumPages /\ h \in Nat /\ h < PageWords /\ d \in BOOLEAN
  BY SwappingCommand, Sizes
<1>4. SwapControl(v)
  BY <1>2 DEF SwapControl
<1>5. SwapFlash(v, f, e)
  BY <1>2 DEF SwapFlash
<1> QED
  <2>1. Moved(t, s, Final(c), h, d)
    OBVIOUS
  <2> HIDE DEF h, d
  <2> QED
    BY <1>0, <1>1, <1>3, <1>4, <1>5, <2>1, MovedGoes

LEMMA ToErasePage ==
  ASSUME NEW s \in Machine, NEW t, NEW f \in [Words -> Contents], NEW e, NEW c, c = Current(s),
         NEW page \in Nat, NEW head \in Nat, NEW tailDone \in BOOLEAN,
         Swapping(s), Moved(t, s, page, head, tailDone),
         \/ page = First(c) /\ head = HeadOf(c) /\ tailDone = (First(c) = Final(c))
         \/ First(c) < page /\ page <= Final(c) /\ head = 0
              /\ tailDone = (page = Final(c) /\ s.tail # 0),
         Done(f, e, c, page * PageWords), Intact(f, e, page * PageWords),
         Saved(f, e, c, page * PageWords, page * PageWords)
  PROVE  Goes(ToSub(t, f, "ERASE_DATA_PAGE"), s, f, e)
<1> DEFINE v == [t EXCEPT !.sub = "ERASE_DATA_PAGE"]
<1>0. v = [t EXCEPT !.sub = "ERASE_DATA_PAGE"]
  OBVIOUS
<1> HIDE DEF v
<1>1. "ERASE_DATA_PAGE" \in Subs
  BY DEF Subs
<1>2. /\ v.sub = "ERASE_DATA_PAGE" /\ Current(v) = c /\ v.page = page /\ v.head = head
      /\ v.tailDone = tailDone /\ v.tail = s.tail
      /\ v.tail = TailOf(c) /\ v.single = (First(c) = Final(c))
      /\ Base(v) = page * PageWords
  <2>1. /\ v.sub = "ERASE_DATA_PAGE" /\ v.cmds = s.cmds /\ v.page = page /\ v.head = head
        /\ v.tail = s.tail /\ v.single = s.single /\ v.tailDone = tailDone
    BY <1>0 DEF Moved, Machine
  <2>2. Current(v) = c
    BY <2>1 DEF Current
  <2> QED
    BY <2>1, <2>2 DEF Swapping, Base
<1>3. page \in 0..NumPages /\ head < PageWords
  <2>1. c \in Commands /\ First(c) \in Nat /\ Final(c) \in Nat /\ First(c) <= Final(c)
        /\ Final(c) < NumPages /\ HeadOf(c) < PageWords
    BY SwappingCommand, HeadGeometry
  <2> QED
    BY <2>1, Sizes
<1>4. SwapControl(v)
  BY <1>2 DEF SwapControl
<1>5. SwapFlash(v, f, e)
  BY <1>2 DEF SwapFlash
<1> QED
  BY <1>0, <1>1, <1>3, <1>4, <1>5, MovedGoes

LEMMA ToRestoreHead ==
  ASSUME NEW s \in Machine, NEW t, NEW f \in [Words -> Contents], NEW e, NEW c, c = Current(s),
         NEW tailDone \in BOOLEAN, tailDone = (First(c) = Final(c)),
         Swapping(s), Moved(t, s, First(c) + 1, HeadOf(c), tailDone), HeadOf(c) # 0,
         NEW b, b = First(c) * PageWords,
         Done(f, e, c, b), Intact(f, e, b + PageWords), Blank(f, b, b + PageWords),
         Saved(f, e, c, b, b)
  PROVE  Goes(ToSub(t, f, "RESTORE_HEAD"), s, f, e)
<1> DEFINE v == [t EXCEPT !.sub = "RESTORE_HEAD"]
<1>0. v = [t EXCEPT !.sub = "RESTORE_HEAD"]
  OBVIOUS
<1> HIDE DEF v
<1>1. "RESTORE_HEAD" \in Subs
  BY DEF Subs
<1>2. /\ v.sub = "RESTORE_HEAD" /\ Current(v) = c /\ v.page = First(c) + 1 /\ v.head = HeadOf(c)
      /\ v.tailDone = tailDone /\ v.tail = s.tail
      /\ v.tail = TailOf(c) /\ v.single = (First(c) = Final(c))
      /\ Base(v) = (First(c) + 1) * PageWords
  <2>1. /\ v.sub = "RESTORE_HEAD" /\ v.cmds = s.cmds /\ v.page = First(c) + 1 /\ v.head = HeadOf(c)
        /\ v.tail = s.tail /\ v.single = s.single /\ v.tailDone = tailDone
    BY <1>0 DEF Moved, Machine
  <2>2. Current(v) = c
    BY <2>1 DEF Current
  <2> QED
    BY <2>1, <2>2 DEF Swapping, Base
<1>3. /\ c \in Commands /\ First(c) + 1 \in 0..NumPages /\ HeadOf(c) \in Nat /\ HeadOf(c) < PageWords
  BY SwappingCommand, HeadGeometry, Sizes
<1>4. Base(v) = b + PageWords /\ Base(v) - PageWords = b
  <2>1. (First(c) + 1) * PageWords = b + PageWords /\ b \in Nat
    BY SwappingCommand, Pages
  <2> QED BY <1>2, <2>1, Sizes
<1>5. SwapControl(v)
  BY <1>2 DEF SwapControl
<1>6. SwapFlash(v, f, e)
  BY <1>2, <1>4 DEF SwapFlash
<1> QED
  BY <1>0, <1>1, <1>3, <1>5, <1>6, MovedGoes

LEMMA ToRestoreTail ==
  ASSUME NEW s \in Machine, NEW t, NEW f \in [Words -> Contents], NEW e, NEW c, c = Current(s),
         NEW head \in Nat, head < PageWords, NEW tailDone \in BOOLEAN,
         Swapping(s), Moved(t, s, Final(c) + 1, head, tailDone), s.tail # 0,
         NEW b, b = Final(c) * PageWords,
         Done(f, e, c, CmdEnd(c)), Intact(f, e, b + PageWords), Blank(f, CmdEnd(c), b + PageWords),
         Saved(f, e, c, b, CmdEnd(c))
  PROVE  Goes(ToSub(t, f, "RESTORE_TAIL"), s, f, e)
<1> DEFINE v == [t EXCEPT !.sub = "RESTORE_TAIL"]
<1>0. v = [t EXCEPT !.sub = "RESTORE_TAIL"]
  OBVIOUS
<1> HIDE DEF v
<1>1. "RESTORE_TAIL" \in Subs
  BY DEF Subs
<1>2. /\ v.sub = "RESTORE_TAIL" /\ Current(v) = c /\ v.page = Final(c) + 1
      /\ v.tail = s.tail
      /\ v.tail = TailOf(c) /\ v.single = (First(c) = Final(c))
      /\ Base(v) = (Final(c) + 1) * PageWords
  <2>1. /\ v.sub = "RESTORE_TAIL" /\ v.cmds = s.cmds /\ v.page = Final(c) + 1
        /\ v.tail = s.tail /\ v.single = s.single
    BY <1>0 DEF Moved, Machine
  <2>2. Current(v) = c
    BY <2>1 DEF Current
  <2> QED
    BY <2>1, <2>2 DEF Swapping, Base
<1>3. /\ c \in Commands /\ Final(c) + 1 \in 0..NumPages
  BY SwappingCommand, Sizes
<1>4. Base(v) = b + PageWords /\ Base(v) - PageWords = b
  <2>1. (Final(c) + 1) * PageWords = b + PageWords /\ b \in Nat
    BY SwappingCommand, Pages
  <2> QED BY <1>2, <2>1, Sizes
<1>5. SwapControl(v)
  BY <1>2 DEF SwapControl
<1>6. SwapFlash(v, f, e)
  BY <1>2, <1>4 DEF SwapFlash
<1> QED
  BY <1>0, <1>1, <1>3, <1>5, <1>6, MovedGoes

-----------------------------------------------------------------------------
(* The operations of an erase with swap, and what follows each.            *)
InSwap(s, g, e) ==
  /\ Swapping(s) /\ SwapControl(s) /\ SwapFlash(s, g, e) /\ Beyond(g) /\ Beyond(e)

LEMMA AfterEraseSwap ==
  ASSUME NEW s \in Machine, NEW g \in [Words -> Contents], NEW e \in [Data -> Contents], NEW f,
         NEW more, InSwap(s, g, e), s.sub = "ERASE_SWAP", f = Performed(g, SwapOperation(s, g))
  PROVE  /\ f \in [Words -> Contents] /\ Beyond(f)
         /\ Outcome(AfterSwapOperation(s, f, more), AfterSwapOperation(s, f, <<>>), s, f, e, more)
<1> DEFINE c == Current(s)
           v == [s EXCEPT !.sub = "WRITE_DATA_TO_SWAP"]
           b == Base(s)
<1>1. f = Performed(g, Erase(NumPages))
  BY DEF SwapOperation
<1>2. f \in [Words -> Contents] /\ ErasedAt(g, f, Swap)
  <2>1. NumPages * PageWords = Swap
    BY Sizes DEF Swap
  <2>2. ErasedAt(g, Performed(g, Erase(NumPages)), NumPages * PageWords)
    BY ErasedPage, Sizes DEF ErasedAt
  <2>3. Performed(g, Erase(NumPages)) \in [Words -> Contents]
    BY ErasedPage, Sizes
  <2> QED
    BY <1>1, <2>1, <2>2, <2>3
<1>3. Done(g, e, c, b) /\ Intact(g, e, b) /\ Beyond(g)
  BY DEF InSwap, SwapFlash
<1>4. Done(f, e, c, b) /\ Intact(f, e, b) /\ Beyond(f) /\ Blank(f, Swap, Swap + PageWords)
  <2> HIDE DEF b, c
  <2> QED BY <1>2, <1>3, SwapErased
<1>5. /\ v.sub = "WRITE_DATA_TO_SWAP" /\ v.cmds = s.cmds /\ v.page = s.page /\ v.head = s.head
      /\ v.tail = s.tail /\ v.single = s.single /\ v.tailDone = s.tailDone
  BY DEF Machine
<1>6. SwapControl(s)
  BY DEF InSwap
<1> HIDE DEF v
<1>7. Current(v) = c /\ Base(v) = b
  BY <1>5 DEF Current, Base
<1>8. SwapControl(v)
  BY <1>5, <1>6, <1>7 DEF SwapControl
<1>9. SwapFlash(v, f, e)
  BY <1>4, <1>5, <1>7 DEF SwapFlash
<1>10. "WRITE_DATA_TO_SWAP" \in Subs
  BY DEF Subs
<1>11. Goes(ToSub(s, f, "WRITE_DATA_TO_SWAP"), s, f, e)
  <2>1. Clean(s) /\ s.state = "DATA_ERASE_WITH_SWAP" /\ Current(s).op # "store"
    BY DEF InSwap, Swapping
  <2> QED
    BY <1>2, <1>8, <1>9, <1>10, <2>1, SubGoes DEF v
<1>12. \A x : AfterSwapOperation(s, f, x) = ToSub(s, f, "WRITE_DATA_TO_SWAP")
  BY DEF AfterSwapOperation
<1> QED
  BY <1>2, <1>4, <1>11, <1>12 DEF Outcome

LEMMA AfterWriteToSwap ==
  ASSUME NEW s \in Machine, NEW g \in [Words -> Contents], NEW e \in [Data -> Contents], NEW f,
         NEW more, InSwap(s, g, e), s.sub = "WRITE_DATA_TO_SWAP", f = Performed(g, SwapOperation(s, g))
  PROVE  /\ f \in [Words -> Contents] /\ Beyond(f)
         /\ Outcome(AfterSwapOperation(s, f, more), AfterSwapOperation(s, f, <<>>), s, f, e, more)
<1> DEFINE c == Current(s)
           b == Base(s)
           d == (s.tailDone \/ s.single)
           t == [s EXCEPT !.tailDone = @ \/ s.single]
<1>1. c \in Commands /\ First(c) \in Nat /\ Final(c) \in Nat /\ First(c) <= Final(c) /\ Final(c) < NumPages
  BY SwappingCommand DEF InSwap
<1>2. SwapControl(s) /\ Swapping(s)
  BY DEF InSwap
<1>3. \/ s.page = First(c) /\ s.head = HeadOf(c) /\ s.tailDone = FALSE
      \/ s.page = Final(c) /\ First(c) # Final(c) /\ s.head = 0 /\ s.tail # 0 /\ s.tailDone = TRUE
  BY <1>2 DEF SwapControl
<1>4. s.page \in Nat /\ s.page < NumPages
  BY <1>1, <1>3, Sizes
<1>5. b \in Nat /\ b + PageWords <= Swap /\ b = s.page * PageWords
  BY <1>1, <1>4, Pages DEF Base
<1>6. f = Performed(g, Write(Swap, Read(g, b, PageWords)))
  BY DEF SwapOperation, Base
<1>7. /\ Done(g, e, c, b) /\ Intact(g, e, b) /\ Blank(g, Swap, Swap + PageWords) /\ Beyond(g)
  BY DEF InSwap, SwapFlash
<1> HIDE DEF b
<1>8. f \in [Words -> Contents] /\ CopiedTo(g, f, Swap, b, PageWords)
  <2>1. b + PageWords <= Swap + PageWords
    BY <1>5, Sizes
  <2> QED
    BY <1>5, <1>6, <1>7, <2>1, CopiedWords, Sizes DEF CopiedTo
<1>9. Done(f, e, c, b) /\ Intact(f, e, b) /\ Saved(f, e, c, b, b) /\ Beyond(f)
  <2> HIDE DEF c
  <2> QED BY <1>5, <1>7, <1>8, SwapWritten
<1>10. Moved(t, s, s.page, s.head, d) /\ d \in BOOLEAN
  <2>1. s.tailDone \in BOOLEAN /\ s.single \in BOOLEAN
    BY MachineFields
  <2>2. d \in BOOLEAN
    BY <2>1
  <2>3. t = [s EXCEPT !.tailDone = d]
    OBVIOUS
  <2> HIDE DEF d, t
  <2>4. t \in Machine
    BY <2>2, <2>3 DEF Machine
  <2> QED
    BY <2>2, <2>3, <2>4 DEF Moved, Machine
<1>11. \/ s.page = First(c) /\ s.head = HeadOf(c) /\ d = (First(c) = Final(c))
       \/ First(c) < s.page /\ s.page <= Final(c) /\ s.head = 0
            /\ d = (s.page = Final(c) /\ s.tail # 0)
  <2>1. s.single = (First(c) = Final(c))
    BY <1>2 DEF Swapping
  <2>2. CASE s.page = First(c) /\ s.head = HeadOf(c) /\ s.tailDone = FALSE
    <3>1. d = (First(c) = Final(c))
      BY <2>1, <2>2
    <3> QED
      BY <2>2, <3>1
  <2>3. CASE s.page = Final(c) /\ First(c) # Final(c) /\ s.head = 0 /\ s.tail # 0 /\ s.tailDone = TRUE
    <3>1. d = TRUE
      BY <2>3
    <3>2. First(c) < s.page /\ s.page <= Final(c)
      BY <1>1, <2>3
    <3> QED
      BY <2>3, <3>1, <3>2
  <2> QED
    BY <1>3, <2>2, <2>3
<1>12. Goes(ToSub(t, f, "ERASE_DATA_PAGE"), s, f, e)
  <2>1. s.head \in Nat
    BY MachineFields
  <2> HIDE DEF t, d
  <2> QED
    BY <1>2, <1>4, <1>5, <1>8, <1>9, <1>10, <1>11, <2>1, ToErasePage
<1>13. \A x : AfterSwapOperation(s, f, x) = ToSub(t, f, "ERASE_DATA_PAGE")
  BY DEF AfterSwapOperation
<1> HIDE DEF t
<1> QED
  BY <1>8, <1>9, <1>12, <1>13 DEF Outcome

(* The words of the command's last page. *)
LEMMA RestOfLastPage ==
  ASSUME NEW f, NEW e, NEW c \in Commands, NEW b, b = Final(c) * PageWords, Beyond(e),
         Done(f, e, c, CmdEnd(c)), Blank(f, CmdEnd(c), b + PageWords), Intact(f, e, b + PageWords),
         TailOf(c) = 0
  PROVE  Done(f, e, c, Swap)
<1>1. CmdEnd(c) = AreaEnd \/ CmdEnd(c) = b + PageWords
  BY TailGeometry
<1>2. b \in Nat /\ b + PageWords \in Nat /\ CmdEnd(c) \in Nat
  BY Geometry, Sizes
<1>3. CmdEnd(c) = AreaEnd \/ b + PageWords <= CmdEnd(c)
  BY <1>1, <1>2
<1> DEFINE h == b + PageWords
<1>4. h \in Nat
  BY <1>2
<1> HIDE DEF h
<1> QED
  BY <1>3, <1>4, AllDone DEF h

LEMMA UpperBlank ==
  ASSUME NEW f, NEW lo \in Nat, NEW mid \in Nat, NEW hi, lo <= mid, Blank(f, lo, hi)
  PROVE  Blank(f, mid, hi)
BY WordSets DEF Blank

LEMMA UpperSaved ==
  ASSUME NEW f, NEW e, NEW c, NEW b, NEW lo \in Nat, NEW mid \in Nat, lo <= mid, Saved(f, e, c, b, lo)
  PROVE  Saved(f, e, c, b, mid)
BY WordSets DEF Saved

LEMMA LowerBlank ==
  ASSUME NEW f, NEW lo \in Nat, NEW mid \in Nat, NEW hi \in Nat, mid <= hi, Blank(f, lo, hi)
  PROVE  Blank(f, lo, mid)
BY WordSets DEF Blank

(* On to a page that the command covers from its beginning. *)
LEMMA NextPage ==
  ASSUME NEW s \in Machine, NEW t, NEW f \in [Words -> Contents], NEW e, NEW c, c = Current(s),
         Swapping(s), NEW q \in Nat, First(c) < q, q <= Final(c),
         Done(f, e, c, q * PageWords), Intact(f, e, q * PageWords)
  PROVE  /\ (q < Final(c) \/ s.tail = 0) /\ Moved(t, s, q, 0, FALSE)
              => Goes(ToSub(t, f, "ERASE_DATA_PAGE"), s, f, e)
         /\ q = Final(c) /\ s.tail # 0 /\ Moved(t, s, q, 0, TRUE)
              => Goes(ToSub(t, f, "ERASE_SWAP"), s, f, e)
<1>1. /\ c \in Commands /\ First(c) \in Nat /\ Final(c) \in Nat /\ s.tail = TailOf(c)
  BY SwappingCommand DEF Swapping
<1>2. ASSUME q < Final(c) \/ s.tail = 0, Moved(t, s, q, 0, FALSE)
      PROVE  Goes(ToSub(t, f, "ERASE_DATA_PAGE"), s, f, e)
  <2> DEFINE b == q * PageWords
             z == CmdEnd(c)
             l == Final(c) * PageWords
             a == First(c) * PageWords
             d == FALSE
             h == 0
  <2>1. /\ b \in Nat /\ l \in Nat /\ a \in Nat /\ a + PageWords <= b
        /\ q < Final(c) => b + PageWords <= l
        /\ q = Final(c) => b = l
    BY <1>1, Pages, Geometry
  <2>2. /\ z \in Nat /\ Start(c) \in Nat /\ Start(c) < a + PageWords /\ l < z
        /\ s.tail = 0 => z = AreaEnd \/ z = l + PageWords
    BY <1>1, Geometry, TailGeometry
  <2> HIDE DEF a, b, z, l
  <2>3. Start(c) <= b /\ (b + PageWords <= z \/ z = AreaEnd)
    BY <1>1, <1>2, <2>1, <2>2, Sizes
  <2>4. Saved(f, e, c, b, b)
    BY <1>1, <2>1, <2>3, NothingToSave DEF z
  <2>5. d = (q = Final(c) /\ s.tail # 0)
    BY <1>1, <1>2
  <2>6. d \in BOOLEAN /\ h \in Nat /\ h = 0 /\ Moved(t, s, q, h, d)
    BY <1>2
  <2> HIDE DEF d, h
  <2> QED
    BY <2>4, <2>5, <2>6, ToErasePage DEF b
<1>3. ASSUME q = Final(c), s.tail # 0, Moved(t, s, q, 0, TRUE)
      PROVE  Goes(ToSub(t, f, "ERASE_SWAP"), s, f, e)
  <2>1. Moved(t, s, Final(c), 0, TRUE) /\ First(c) # Final(c)
    BY <1>1, <1>3 DEF Moved
  <2>2. Done(f, e, c, Final(c) * PageWords) /\ Intact(f, e, Final(c) * PageWords)
    BY <1>3
  <2> QED
    BY <1>3, <2>1, <2>2, ToEraseSwap
<1> QED
  BY <1>2, <1>3

(* Past the last page, whose words up to the command's end are done. *)
LEMMA PastLastPage ==
  ASSUME NEW s \in Machine, NEW t, NEW f \in [Words -> Contents], NEW e \in [Data -> Contents],
         NEW c, c = Current(s), NEW more \in Seq(Commands), NEW b, b = Final(c) * PageWords,
         NEW head \in Nat, head < PageWords, NEW tailDone \in BOOLEAN,
         Swapping(s), Moved(t, s, Final(c) + 1, head, tailDone), Beyond(e),
         Done(f, e, c, CmdEnd(c)), Blank(f, CmdEnd(c), b + PageWords), Intact(f, e, b + PageWords),
         Saved(f, e, c, b, b)
  PROVE  /\ s.tail = 0 => Outcome(Cleared(t, f, more), Cleared(t, f, <<>>), s, f, e, more)
         /\ s.tail # 0 => Goes(ToSub(t, f, "RESTORE_TAIL"), s, f, e)
<1>1. /\ c \in Commands /\ Final(c) \in Nat /\ Final(c) < NumPages /\ s.tail = TailOf(c)
  BY SwappingCommand DEF Swapping
<1>2. ASSUME s.tail = 0
      PROVE  Outcome(Cleared(t, f, more), Cleared(t, f, <<>>), s, f, e, more)
  <2>1. Done(f, e, c, Swap)
    BY <1>1, <1>2, RestOfLastPage
  <2>2. t \in Machine /\ Current(t) = c /\ t.cmds = s.cmds /\ t.retries = s.retries
    BY DEF Moved, Current
  <2>3. Clean(t)
    BY <1>1, <2>2, Sizes DEF Moved, Clean, Swapping
  <2>4. Current(t).op # "store"
    BY <2>2 DEF Swapping
  <2>5. Outcome(Cleared(t, f, more), Cleared(t, f, <<>>), t, f, e, more)
    BY <2>1, <2>2, <2>3, <2>4, ClearedGoes
  <2> QED
    BY <2>2, <2>5, SameOutcome
<1>3. ASSUME s.tail # 0
      PROVE  Goes(ToSub(t, f, "RESTORE_TAIL"), s, f, e)
  <2>1. b \in Nat /\ CmdEnd(c) \in Nat /\ b <= CmdEnd(c)
    BY <1>1, Geometry
  <2>2. Saved(f, e, c, b, CmdEnd(c))
    BY <2>1, UpperSaved
  <2> QED
    BY <1>3, <2>2, ToRestoreTail
<1> QED
  BY <1>2, <1>3

LEMMA AfterErasePage ==
  ASSUME NEW s \in Machine, NEW g \in [Words -> Contents], NEW e \in [Data -> Contents], NEW f,
         NEW more \in Seq(Commands), InSwap(s, g, e), s.sub = "ERASE_DATA_PAGE",
         f = Performed(g, SwapOperation(s, g))
  PROVE  /\ f \in [Words -> Contents] /\ Beyond(f)
         /\ Outcome(AfterSwapOperation(s, f, more), AfterSwapOperation(s, f, <<>>), s, f, e, more)
<1> DEFINE c == Current(s)
           p == s.page
           b == p * PageWords
           t == [s EXCEPT !.page = @ + 1]
<1>1. /\ c \in Commands /\ First(c) \in Nat /\ Final(c) \in Nat /\ First(c) <= Final(c)
      /\ Final(c) < NumPages /\ s.tail = TailOf(c) /\ Swapping(s)
  BY SwappingCommand DEF InSwap, Swapping
<1>2. \/ p = First(c) /\ s.head = HeadOf(c) /\ s.tailDone = (First(c) = Final(c))
      \/ First(c) < p /\ p <= Final(c) /\ s.head = 0 /\ s.tailDone = (p = Final(c) /\ s.tail # 0)
  BY DEF InSwap, SwapControl
<1>3. p \in Nat /\ First(c) <= p /\ p <= Final(c) /\ p < NumPages
  <2>1. p \in Int
    BY MachineFields
  <2>2. First(c) <= p /\ p <= Final(c)
    BY <1>1, <1>2, <2>1
  <2> HIDE DEF c, p
  <2> QED BY <1>1, <2>1, <2>2, Sizes
<1>4. /\ b \in Nat /\ b + PageWords <= Swap /\ (p + 1) * PageWords = b + PageWords
      /\ First(c) < p => First(c) * PageWords + PageWords <= b
      /\ p < Final(c) => b + PageWords <= Final(c) * PageWords
  BY <1>1, <1>3, Pages
<1>5. Done(g, e, c, b) /\ Intact(g, e, b) /\ Saved(g, e, c, b, b) /\ Beyond(g) /\ Beyond(e)
  BY DEF InSwap, SwapFlash, Base
<1>6. f \in [Words -> Contents] /\ ErasedAt(g, f, b)
  <2>1. f = Performed(g, Erase(p))
    BY DEF SwapOperation
  <2>2. ErasedAt(g, Performed(g, Erase(p)), b) /\ Performed(g, Erase(p)) \in [Words -> Contents]
    BY <1>3, ErasedPage DEF ErasedAt
  <2> QED
    BY <2>1, <2>2
<1> HIDE DEF b
<1>7. /\ Beyond(f) /\ Done(f, e, c, b) /\ Intact(f, e, b + PageWords) /\ Blank(f, b, b + PageWords)
      /\ Saved(f, e, c, b, b)
  <2> HIDE DEF c
  <2> QED BY <1>4, <1>5, <1>6, PageErased
<1>8. /\ Moved(t, s, p + 1, s.head, s.tailDone) /\ s.head \in Nat /\ s.head < PageWords
      /\ s.tailDone \in BOOLEAN
  <2>1. t \in Machine
    BY <1>3 DEF Machine
  <2>2. s.head \in Nat /\ s.tailDone \in BOOLEAN
    BY MachineFields
  <2>3. s.head < PageWords
    BY <1>1 DEF Swapping, Clean
  <2>4. Moved(t, s, p + 1, s.head, s.tailDone)
    BY <2>1 DEF Moved, Machine
  <2> QED
    BY <2>2, <2>3, <2>4
<1>9. \A x : AfterSwapOperation(s, f, x) = AfterDataPageErase(s, f, x)
  BY DEF AfterSwapOperation
<1>10. PageEraseRequired(t) <=> p + 1 < Final(c) \/ (p + 1 = Final(c) /\ s.tail = 0)
  <2>1. t.page = p + 1 /\ t.tail = s.tail /\ t.cmds = s.cmds
    BY <1>8 DEF Moved
  <2>2. LastPage(t) = Final(c)
    BY <2>1 DEF LastPage, Final, Current
  <2> QED
    BY <2>1, <2>2 DEF PageEraseRequired
<1>11. t.head = s.head /\ t.tail = s.tail /\ t.tailDone = s.tailDone
  BY <1>8 DEF Moved
<1>12. CASE s.head # 0
  <2>1. p = First(c) /\ s.head = HeadOf(c) /\ s.tailDone = (First(c) = Final(c))
    BY <1>2, <1>12
  <2>2. \A x : AfterDataPageErase(s, f, x) = ToSub(t, f, "RESTORE_HEAD")
    BY <1>11, <1>12 DEF AfterDataPageErase
  <2> DEFINE h == s.head
             d == s.tailDone
  <2>3. Moved(t, s, First(c) + 1, HeadOf(c), d) /\ d \in BOOLEAN /\ HeadOf(c) # 0
    BY <1>8, <1>12, <2>1
  <2>4. b = First(c) * PageWords
    BY <2>1 DEF b
  <2>5. d = (First(c) = Final(c))
    BY <2>1
  <2> HIDE DEF t, d
  <2>6. Goes(ToSub(t, f, "RESTORE_HEAD"), s, f, e)
    BY <1>1, <1>6, <1>7, <2>3, <2>4, <2>5, ToRestoreHead
  <2> QED
    BY <1>6, <1>7, <1>9, <2>2, <2>6 DEF Outcome
<1>13. ASSUME s.head = 0 PROVE Start(c) <= b
  <2>1. /\ Start(c) \in Nat /\ Start(c) < First(c) * PageWords + PageWords
        /\ HeadOf(c) = Start(c) - First(c) * PageWords /\ First(c) * PageWords \in Nat
    BY <1>1, Geometry, HeadGeometry
  <2>2. CASE p = First(c) /\ s.head = HeadOf(c)
    <3>1. Start(c) - First(c) * PageWords = 0 /\ b = First(c) * PageWords
      BY <1>13, <2>1, <2>2 DEF b
    <3> DEFINE a == First(c) * PageWords
               x == Start(c)
    <3> HIDE DEF a, x
    <3>2. x \in Nat /\ a \in Nat /\ x - a = 0 /\ b = a
      BY <2>1, <3>1 DEF a, x
    <3>3. x <= b
      BY <3>2
    <3> QED
      BY <3>3 DEF x
  <2>3. CASE First(c) < p
    <3> DEFINE a == First(c) * PageWords
               x == Start(c)
    <3> HIDE DEF a, x
    <3>1. x \in Nat /\ a \in Nat /\ x < a + PageWords /\ a + PageWords <= b
      BY <1>4, <2>1, <2>3 DEF a, x
    <3>2. x <= b
      BY <1>4, <3>1, Sizes
    <3> QED
      BY <3>2 DEF x
  <2> QED
    BY <1>2, <2>2, <2>3
<1>14. CASE s.head = 0 /\ p < Final(c)
  <2>1. s.tailDone = FALSE
    <3>1. First(c) # Final(c) /\ p # Final(c)
      BY <1>1, <1>3, <1>14
    <3>2. CASE s.tailDone = (First(c) = Final(c))
      BY <3>1, <3>2
    <3>3. CASE s.tailDone = (p = Final(c) /\ s.tail # 0)
      BY <3>1, <3>3
    <3> QED
      BY <1>2, <3>2, <3>3
  <2> DEFINE h == b + PageWords
             q == p + 1
  <2>2. h \in Nat /\ h <= CmdEnd(c) /\ h = q * PageWords
    <3>1. Final(c) * PageWords \in Nat /\ Final(c) * PageWords < CmdEnd(c) /\ CmdEnd(c) \in Nat
      BY <1>1, Geometry
    <3> QED
      BY <1>4, <1>14, <3>1, Sizes
  <2>3. Done(f, e, c, h)
    <3> HIDE DEF h, c
    <3>1. Start(c) <= b /\ Blank(f, b, h)
      BY <1>7, <1>13, <1>14 DEF h
    <3> QED
      BY <1>1, <1>4, <1>7, <2>2, <3>1, CoveredPage
  <2>4. Done(f, e, c, q * PageWords) /\ Intact(f, e, q * PageWords)
    BY <1>7, <2>2, <2>3
  <2>5. q \in Nat /\ First(c) < q /\ q <= Final(c) /\ Moved(t, s, q, 0, FALSE)
    <3>1. Moved(t, s, q, 0, FALSE)
      <4> HIDE DEF t
      <4> QED BY <1>8, <1>14, <2>1 DEF Moved
    <3>2. q \in Nat /\ First(c) < q /\ q <= Final(c)
      BY <1>1, <1>3, <1>14
    <3> HIDE DEF q, t
    <3> QED
      BY <3>1, <3>2
  <2>6. CASE PageEraseRequired(t)
    <3>1. \A x : AfterDataPageErase(s, f, x) = ToSub(t, f, "ERASE_DATA_PAGE")
      BY <1>11, <1>14, <2>6 DEF AfterDataPageErase
    <3>2. q < Final(c) \/ s.tail = 0
      BY <1>10, <2>6
    <3> HIDE DEF t, q
    <3>3. Goes(ToSub(t, f, "ERASE_DATA_PAGE"), s, f, e)
      BY <1>1, <1>6, <2>4, <2>5, <3>2, NextPage
    <3> QED
      BY <1>6, <1>7, <1>9, <3>1, <3>3 DEF Outcome
  <2>7. CASE ~PageEraseRequired(t)
    <3>1. q = Final(c) /\ s.tail # 0
      <4> HIDE DEF t, c
      <4> QED BY <1>1, <1>3, <1>10, <1>14, <2>7
    <3> DEFINE u == [t EXCEPT !.tailDone = TRUE]
    <3>2. \A x : AfterDataPageErase(s, f, x) = ToSub(u, f, "ERASE_SWAP")
      BY <1>11, <1>14, <2>1, <2>7, <3>1 DEF AfterDataPageErase
    <3>3. Moved(u, s, q, 0, TRUE)
      <4>1. t \in Machine
        BY <1>8 DEF Moved
      <4> HIDE DEF t
      <4>2. u \in Machine
        BY <4>1 DEF Machine
      <4> QED
        BY <2>5, <4>1, <4>2 DEF Moved, Machine
    <3> HIDE DEF u, q
    <3>4. Goes(ToSub(u, f, "ERASE_SWAP"), s, f, e)
      BY <1>1, <1>6, <2>4, <2>5, <3>1, <3>3, NextPage
    <3> QED
      BY <1>6, <1>7, <1>9, <3>2, <3>4 DEF Outcome
  <2> QED
    BY <2>6, <2>7
<1>15. CASE s.head = 0 /\ p = Final(c)
  <2> DEFINE z == CmdEnd(c)
  <2>1. z \in Nat /\ z <= b + PageWords /\ b = Final(c) * PageWords /\ b <= z
    <3>1. b = Final(c) * PageWords
      BY <1>15 DEF b
    <3> QED
      BY <1>1, <3>1, Geometry
  <2>2. Done(f, e, c, z) /\ Blank(f, z, b + PageWords)
    <3> HIDE DEF c
    <3>1. b + PageWords \in Nat
      BY <1>4, Sizes
    <3>2. Blank(f, b, z)
      BY <1>4, <1>7, <2>1, <3>1, LowerBlank
    <3>3. Blank(f, z, b + PageWords)
      BY <1>4, <1>7, <2>1, UpperBlank
    <3>4. z <= CmdEnd(c)
      BY <2>1
    <3> QED
      BY <1>1, <1>4, <1>7, <1>13, <1>15, <2>1, <3>2, <3>3, <3>4, CoveredPage
  <2>3. ~PageEraseRequired(t)
    BY <1>1, <1>10, <1>15
  <2>4. Moved(t, s, Final(c) + 1, s.head, s.tailDone)
    BY <1>8, <1>15
  <2>5. /\ s.tail = 0 => Outcome(Cleared(t, f, more), Cleared(t, f, <<>>), s, f, e, more)
        /\ s.tail # 0 => Goes(ToSub(t, f, "RESTORE_TAIL"), s, f, e)
    <3> HIDE DEF t
    <3> QED
      BY <1>1, <1>5, <1>6, <1>7, <1>8, <2>1, <2>2, <2>4, PastLastPage
  <2>6. CASE s.tail = 0
    <3>1. \A x : AfterDataPageErase(s, f, x) = Cleared(t, f, x)
      BY <1>11, <1>15, <2>3, <2>6 DEF AfterDataPageErase
    <3> HIDE DEF t
    <3> QED
      BY <1>6, <1>7, <1>9, <2>5, <2>6, <3>1
  <2>7. CASE s.tail # 0
    <3>1. s.tailDone = TRUE
      BY <1>1, <1>2, <1>15, <2>7
    <3>2. \A x : AfterDataPageErase(s, f, x) = ToSub(t, f, "RESTORE_TAIL")
      BY <1>11, <1>15, <2>3, <2>7, <3>1 DEF AfterDataPageErase
    <3> HIDE DEF t
    <3> QED
      BY <1>6, <1>7, <1>9, <2>5, <2>7, <3>2 DEF Outcome
  <2> QED
    BY <2>6, <2>7
<1>16. p < Final(c) \/ p = Final(c)
  BY <1>1, <1>3
<1> QED
  BY <1>12, <1>14, <1>15, <1>16

LEMMA AfterRestoreHead ==
  ASSUME NEW s \in Machine, NEW g \in [Words -> Contents], NEW e \in [Data -> Contents], NEW f,
         NEW more \in Seq(Commands), InSwap(s, g, e), s.sub = "RESTORE_HEAD",
         f = Performed(g, SwapOperation(s, g))
  PROVE  /\ f \in [Words -> Contents] /\ Beyond(f)
         /\ Outcome(AfterSwapOperation(s, f, more), AfterSwapOperation(s, f, <<>>), s, f, e, more)
<1> DEFINE c == Current(s)
           p == First(c)
           b == p * PageWords
           x == Start(c)
           z == CmdEnd(c)
<1>1. /\ c \in Commands /\ p \in Nat /\ Final(c) \in Nat /\ p <= Final(c)
      /\ Final(c) < NumPages /\ s.tail = TailOf(c) /\ Swapping(s)
  BY SwappingCommand DEF InSwap, Swapping
<1>2. /\ s.page = p + 1 /\ s.head = HeadOf(c) /\ s.head # 0 /\ s.tailDone = (p = Final(c))
  BY DEF InSwap, SwapControl
<1>3. /\ b \in Nat /\ b + PageWords <= Swap /\ (p + 1) * PageWords = b + PageWords
      /\ p < Final(c) => b + PageWords <= Final(c) * PageWords
  <2>1. p < NumPages
    <3> HIDE DEF c, p
    <3> QED BY <1>1, Sizes
  <2> QED
    BY <1>1, <2>1, Pages
<1>4. /\ x \in Nat /\ z \in Nat /\ b <= x /\ x < b + PageWords /\ x < z
      /\ s.head = x - b /\ x - b \in Nat /\ x - b <= PageWords /\ Final(c) * PageWords < z
      /\ z <= Final(c) * PageWords + PageWords
  <2>1. /\ x \in Nat /\ z \in Nat /\ b <= x /\ x < b + PageWords /\ x < z /\ Final(c) * PageWords < z
        /\ z <= Final(c) * PageWords + PageWords
    BY <1>1, Geometry
  <2>2. s.head = x - b
    BY <1>1, <1>2, HeadGeometry
  <2> HIDE DEF b, x, z
  <2>3. x - b \in Nat /\ x - b <= PageWords
    BY <1>3, <2>1, Sizes
  <2> QED
    BY <2>1, <2>2, <2>3
<1>5. Base(s) = b + PageWords /\ Base(s) - PageWords = b
  <2>1. Base(s) = b + PageWords
    BY <1>2, <1>3 DEF Base
  <2> HIDE DEF b
  <2> QED BY <1>3, <2>1, Sizes
<1>6. /\ Done(g, e, c, b) /\ Intact(g, e, b + PageWords) /\ Blank(g, b, b + PageWords)
      /\ Saved(g, e, c, b, b) /\ Beyond(g) /\ Beyond(e)
  BY <1>5 DEF InSwap, SwapFlash
<1>7. f = Performed(g, Write(b, Read(g, Swap, x - b)))
  <2>1. (s.page - 1) * PageWords = b
    <3>1. s.page - 1 = p
      BY <1>1, <1>2
    <3> QED
      BY <3>1
  <2> QED
    BY <1>4, <2>1 DEF SwapOperation
<1> HIDE DEF b, x, z
<1>8. f \in [Words -> Contents] /\ CopiedTo(g, f, b, Swap, x - b)
  <2> DEFINE n == x - b
  <2>1. n \in Nat /\ Swap + n <= Swap + PageWords /\ b + n <= b + PageWords /\ b + n \in Nat
        /\ b + PageWords \in Nat
    BY <1>3, <1>4, Sizes
  <2> HIDE DEF n
  <2>2. Blank(g, b, b + n)
    BY <1>3, <1>6, <2>1, LowerBlank
  <2>3. /\ Performed(g, Write(b, Read(g, Swap, n))) \in [Words -> Contents]
        /\ CopiedTo(g, Performed(g, Write(b, Read(g, Swap, n))), b, Swap, n)
    BY <1>3, <2>1, <2>2, CopiedWords, Sizes DEF CopiedTo
  <2> QED
    BY <1>7, <2>3 DEF n
<1>9. /\ Beyond(f) /\ Done(f, e, c, x) /\ Blank(f, x, b + PageWords) /\ Intact(f, e, b + PageWords)
      /\ Saved(f, e, c, b, b)
  <2> HIDE DEF c
  <2> QED BY <1>1, <1>3, <1>4, <1>6, <1>8, HeadRestored DEF x
<1>10. \A y : AfterSwapOperation(s, f, y) = AfterHeadRestore(s, f, y)
  BY DEF AfterSwapOperation
<1>11. LastPage(s) = Final(c)
  BY DEF LastPage, Final
<1>12. CASE p < Final(c)
  <2> DEFINE h == b + PageWords
             q == p + 1
  <2>1. h \in Nat /\ h <= z /\ h = q * PageWords
    <3>1. Final(c) * PageWords \in Nat
      BY <1>1, Geometry
    <3> QED
      BY <1>3, <1>4, <1>12, <3>1, Sizes
  <2>2. Done(f, e, c, h)
    <3> HIDE DEF h, c
    <3>1. x <= x /\ Blank(f, x, h)
      BY <1>4, <1>9 DEF h
    <3> QED
      BY <1>1, <1>4, <1>9, <2>1, <3>1, CoveredPage DEF x, z
  <2>3. Done(f, e, c, q * PageWords) /\ Intact(f, e, q * PageWords)
    BY <1>9, <2>1, <2>2
  <2>4. q \in Nat /\ p < q /\ q <= Final(c) /\ s.page = q
    BY <1>1, <1>2, <1>12
  <2>5. s.tailDone = FALSE
    <3>1. p # Final(c)
      BY <1>1, <1>12
    <3> QED
      BY <1>2, <3>1
  <2>6. CASE q = Final(c) /\ s.tail # 0
    <3> DEFINE u == [s EXCEPT !.head = 0, !.tailDone = TRUE]
    <3>1. \A y : AfterHeadRestore(s, f, y) = ToSub(u, f, "ERASE_SWAP")
      BY <1>11, <2>4, <2>6 DEF AfterHeadRestore, TailSwapRequired
    <3>2. u \in Machine
      BY DEF Machine
    <3>3. Moved(u, s, q, 0, TRUE)
      BY <2>4, <3>2 DEF Moved, Machine
    <3> HIDE DEF u, q
    <3>4. Goes(ToSub(u, f, "ERASE_SWAP"), s, f, e)
      BY <1>1, <1>8, <2>3, <2>4, <2>6, <3>3, NextPage
    <3> QED
      BY <1>8, <1>9, <1>10, <3>1, <3>4 DEF Outcome
  <2>7. CASE ~(q = Final(c) /\ s.tail # 0)
    <3> DEFINE u == [s EXCEPT !.head = 0]
    <3>1. q < Final(c) \/ s.tail = 0
      <4> HIDE DEF c, q
      <4> QED BY <1>1, <2>4, <2>7
    <3>2. PageEraseRequired(s) /\ ~TailSwapRequired(s)
      <4> HIDE DEF c, q
      <4> QED BY <1>1, <1>11, <2>4, <2>7, <3>1 DEF PageEraseRequired, TailSwapRequired
    <3>3. \A y : AfterHeadRestore(s, f, y) = ToSub(u, f, "ERASE_DATA_PAGE")
      BY <3>2 DEF AfterHeadRestore
    <3>4. u \in Machine
      BY DEF Machine
    <3>5. Moved(u, s, q, 0, FALSE)
      BY <2>4, <2>5, <3>4 DEF Moved, Machine
    <3> HIDE DEF u, q
    <3>6. Goes(ToSub(u, f, "ERASE_DATA_PAGE"), s, f, e)
      BY <1>1, <1>8, <2>3, <2>4, <3>1, <3>5, NextPage
    <3> QED
      BY <1>8, <1>9, <1>10, <3>3, <3>6 DEF Outcome
  <2> QED
    BY <2>6, <2>7
<1>13. CASE p = Final(c)
  <2>1. b = Final(c) * PageWords
    BY <1>13 DEF b
  <2>2. Done(f, e, c, z) /\ Blank(f, z, b + PageWords)
    <3> HIDE DEF c
    <3>1. b + PageWords \in Nat /\ z <= b + PageWords /\ x <= z /\ x <= x /\ z <= z
      BY <1>3, <1>4, <2>1, Sizes
    <3>2. Blank(f, x, z)
      BY <1>4, <1>9, <3>1, LowerBlank
    <3>3. Blank(f, z, b + PageWords)
      BY <1>4, <1>9, <3>1, UpperBlank
    <3> QED
      BY <1>1, <1>4, <1>9, <3>1, <3>2, <3>3, CoveredPage DEF x, z
  <2>3. ~PageEraseRequired(s) /\ ~TailSwapRequired(s)
    BY <1>1, <1>2, <1>11, <1>13 DEF PageEraseRequired, TailSwapRequired
  <2>4. s.head \in Nat /\ s.head < PageWords /\ s.tailDone \in BOOLEAN
    BY <1>1, MachineFields DEF Swapping, Clean
  <2>5. Moved(s, s, Final(c) + 1, s.head, s.tailDone)
    BY <1>2, <1>13 DEF Moved
  <2>6. /\ s.tail = 0 => Outcome(Cleared(s, f, more), Cleared(s, f, <<>>), s, f, e, more)
        /\ s.tail # 0 => Goes(ToSub(s, f, "RESTORE_TAIL"), s, f, e)
    BY <1>1, <1>6, <1>8, <1>9, <2>1, <2>2, <2>4, <2>5, PastLastPage DEF z
  <2>7. CASE s.tail = 0
    <3>1. \A y : AfterHeadRestore(s, f, y) = Cleared(s, f, y)
      BY <2>3, <2>7 DEF AfterHeadRestore
    <3> QED
      BY <1>8, <1>9, <1>10, <2>6, <2>7, <3>1
  <2>8. CASE s.tail # 0
    <3>1. \A y : AfterHeadRestore(s, f, y) = ToSub(s, f, "RESTORE_TAIL")
      BY <2>3, <2>8 DEF AfterHeadRestore
    <3> QED
      BY <1>8, <1>9, <1>10, <2>6, <2>8, <3>1 DEF Outcome
  <2> QED
    BY <2>7, <2>8
<1>14. p < Final(c) \/ p = Final(c)
  BY <1>1
<1> QED
  BY <1>12, <1>13, <1>14

LEMMA AfterRestoreTail ==
  ASSUME NEW s \in Machine, NEW g \in [Words -> Contents], NEW e \in [Data -> Contents], NEW f,
         NEW more \in Seq(Commands), InSwap(s, g, e), s.sub = "RESTORE_TAIL",
         f = Performed(g, SwapOperation(s, g))
  PROVE  /\ f \in [Words -> Contents] /\ Beyond(f)
         /\ Outcome(AfterSwapOperation(s, f, more), AfterSwapOperation(s, f, <<>>), s, f, e, more)
<1> DEFINE c == Current(s)
           p == Final(c)
           b == p * PageWords
           z == CmdEnd(c)
           n == s.tail
<1>1. /\ c \in Commands /\ p \in Nat /\ p < NumPages /\ n = TailOf(c) /\ Swapping(s)
  BY SwappingCommand DEF InSwap, Swapping
<1>2. s.page = p + 1 /\ n # 0
  BY DEF InSwap, SwapControl
<1>3. b \in Nat /\ b + PageWords <= Swap /\ (p + 1) * PageWords = b + PageWords
  BY <1>1, Pages
<1>4. /\ z \in Nat /\ b < z /\ n \in Nat /\ z % PageWords = z - b
      /\ z + n <= AreaEnd /\ z + n <= b + PageWords /\ z + n \in {AreaEnd, b + PageWords}
  BY <1>1, <1>2, Geometry, TailGeometry
<1>5. Base(s) = b + PageWords /\ Base(s) - PageWords = b
  <2>1. Base(s) = b + PageWords
    BY <1>2, <1>3 DEF Base
  <2> HIDE DEF b
  <2> QED BY <1>3, <2>1, Sizes
<1>6. /\ Done(g, e, c, z) /\ Intact(g, e, b + PageWords) /\ Blank(g, z, b + PageWords)
      /\ Saved(g, e, c, b, z) /\ Beyond(g) /\ Beyond(e)
  BY <1>5 DEF InSwap, SwapFlash
<1>7. f = Performed(g, Write(z, Read(g, Swap + (z - b), n)))
  BY <1>4 DEF SwapOperation
<1> HIDE DEF b, z, n
<1>8. f \in [Words -> Contents] /\ CopiedTo(g, f, z, Swap + (z - b), n)
  <2> DEFINE from == Swap + (z - b)
  <2>1. from \in Nat /\ from + n <= Swap + PageWords /\ z + n \in Nat /\ b + PageWords \in Nat
    BY <1>3, <1>4, Sizes
  <2> HIDE DEF from
  <2>2. Blank(g, z, z + n)
    BY <1>4, <1>6, <2>1, LowerBlank
  <2> DEFINE h == Performed(g, Write(z, Read(g, from, n)))
  <2>3. /\ h \in [Words -> Contents]
        /\ \A w \in Words : h[w] = IF z <= w /\ w < z + n THEN g[from + (w - z)] ELSE g[w]
    BY <1>4, <2>1, <2>2, CopiedWords
  <2>4. h = f
    BY <1>7 DEF from
  <2> HIDE DEF h
  <2>5. CopiedTo(g, f, z, from, n)
    BY <2>3, <2>4 DEF CopiedTo
  <2> QED
    BY <2>3, <2>4, <2>5 DEF from
<1>9. Beyond(f) /\ Done(f, e, c, Swap)
  <2> HIDE DEF c
  <2> QED BY <1>1, <1>3, <1>4, <1>6, <1>8, TailRestored DEF z
<1>10. Outcome(Cleared(s, f, more), Cleared(s, f, <<>>), s, f, e, more)
  <2>1. Clean(s) /\ c.op # "store"
    BY <1>1 DEF Swapping
  <2> QED
    BY <1>8, <1>9, <2>1, ClearedGoes
<1>11. \A y : AfterSwapOperation(s, f, y) = Cleared(s, f, y)
  BY DEF AfterSwapOperation
<1> QED
  BY <1>8, <1>9, <1>10, <1>11

LEMMA AfterDataErase ==
  ASSUME NEW s \in Machine, NEW g \in [Words -> Contents], NEW e \in [Data -> Contents], NEW f,
         NEW more \in Seq(Commands), Clean(s), s.state = "DATA_ERASE", Control(s), Holds(s, g, e),
         Beyond(g), Beyond(e), f = Performed(g, Operation(s, g))
  PROVE  /\ f \in [Words -> Contents] /\ Beyond(f)
         /\ Outcome(AfterErase(s, f, more), AfterErase(s, f, <<>>), s, f, e, more)
<1> DEFINE c == Current(s)
           p == s.page
           b == p * PageWords
           z == CmdEnd(c)
           t == [s EXCEPT !.page = @ + 1]
<1>1. /\ c \in Commands /\ First(c) \in Nat /\ Final(c) \in Nat /\ First(c) <= Final(c) /\ Final(c) < NumPages
  <2>1. c \in Commands
    BY MachineFields DEF Clean
  <2> QED
    BY <2>1, Geometry
<1>2. /\ NoSwapNeeded(c) /\ s.tail = 0 /\ First(c) <= p /\ p <= Final(c) /\ c.op # "store"
  BY DEF Control
<1>3. p \in Nat /\ p < NumPages /\ p + 1 \in 0..NumPages
  <2>1. p \in Int
    BY MachineFields
  <2> HIDE DEF c, p
  <2> QED BY <1>1, <1>2, <2>1, Sizes
<1>4. /\ b \in Nat /\ b + PageWords <= Swap /\ (p + 1) * PageWords = b + PageWords
      /\ First(c) * PageWords <= b
      /\ p < Final(c) => b + PageWords <= Final(c) * PageWords
      /\ p = Final(c) => b = Final(c) * PageWords
  BY <1>1, <1>2, <1>3, Pages
<1>5. Done(g, e, c, b) /\ Intact(g, e, b)
  BY DEF Holds, Base
<1>6. f \in [Words -> Contents] /\ ErasedAt(g, f, b)
  <2>1. f = Performed(g, Erase(p))
    BY DEF Operation
  <2>2. ErasedAt(g, Performed(g, Erase(p)), b) /\ Performed(g, Erase(p)) \in [Words -> Contents]
    BY <1>3, ErasedPage DEF ErasedAt
  <2> QED
    BY <2>1, <2>2
<1>7. /\ Start(c) <= b /\ z \in Nat /\ Final(c) * PageWords < z /\ Final(c) * PageWords \in Nat
      /\ z <= Final(c) * PageWords + PageWords
      /\ z = AreaEnd \/ z = Final(c) * PageWords + PageWords
  BY <1>1, <1>2, <1>4, Geometry, NoSwapGeometry
<1> HIDE DEF b, z
<1>8. /\ Beyond(f) /\ Done(f, e, c, b) /\ Intact(f, e, b + PageWords) /\ Blank(f, b, b + PageWords)
  <2> HIDE DEF c
  <2> QED BY <1>4, <1>5, <1>6, PageErased
<1>9. /\ t \in Machine /\ t.cmds = s.cmds /\ t.retries = s.retries /\ t.page = p + 1 /\ t.tail = 0
      /\ t.head = s.head /\ t.busy = s.busy /\ t.flashOp = s.flashOp
  <2>1. t \in Machine
    <3> DEFINE n == s.page + 1
    <3>1. n \in Int /\ t = [s EXCEPT !.page = n]
      BY <1>3
    <3> HIDE DEF n, t
    <3> QED
      BY <3>1 DEF Machine
  <2> QED
    BY <1>2, <2>1 DEF Machine
<1>10. \A x : AfterErase(s, f, x) = IF PageEraseRequired(t) THEN EraseEntry(t, f) ELSE Cleared(t, f, x)
  BY DEF AfterErase
<1> HIDE DEF t
<1>11. Current(t) = c /\ Base(t) = b + PageWords /\ LastPage(t) = Final(c)
  BY <1>4, <1>9 DEF Current, Base, LastPage, Final
<1>12. Clean(t)
  <2>1. t.page \in 0..NumPages
    <3> HIDE DEF p
    <3> QED BY <1>3, <1>9
  <2> QED
    BY <1>9, <2>1, Sizes DEF Clean
<1>13. CASE p < Final(c)
  <2>1. PageEraseRequired(t)
    <3> HIDE DEF c, p
    <3> QED BY <1>1, <1>3, <1>9, <1>11, <1>13 DEF PageEraseRequired
  <2>2. Done(f, e, c, b + PageWords)
    <3> DEFINE h == b + PageWords
    <3>1. h \in Nat /\ h <= z
      BY <1>4, <1>7, <1>13, Sizes
    <3>2. Blank(f, b, h)
      BY <1>8
    <3> HIDE DEF h, c
    <3>3. Done(f, e, c, h)
      BY <1>1, <1>4, <1>7, <1>8, <3>1, <3>2, CoveredPage DEF z
    <3> QED
      BY <3>3 DEF h
  <2>3. First(c) <= t.page /\ t.page <= Final(c)
    BY <1>1, <1>2, <1>3, <1>9, <1>13
  <2>4. Goes(EraseEntry(t, f), t, f, e)
    BY <1>2, <1>6, <1>8, <1>9, <1>11, <1>12, <2>2, <2>3, EraseGoes
  <2>5. Goes(EraseEntry(t, f), s, f, e)
    BY <1>9, <2>4 DEF Goes
  <2> QED
    BY <1>6, <1>8, <1>10, <2>1, <2>5 DEF Outcome
<1>14. CASE p = Final(c)
  <2>1. ~PageEraseRequired(t)
    <3> HIDE DEF c, p
    <3> QED BY <1>1, <1>3, <1>9, <1>11, <1>14 DEF PageEraseRequired
  <2>2. Done(f, e, c, Swap)
    <3> DEFINE h == b + PageWords
    <3>1. h \in Nat /\ z <= h /\ b <= z /\ (z = AreaEnd \/ h <= z)
      BY <1>4, <1>7, <1>14, Sizes
    <3>2. Blank(f, b, h) /\ Intact(f, e, h)
      BY <1>8
    <3> HIDE DEF h, c
    <3>3. Blank(f, b, z) /\ Blank(f, z, h)
      BY <1>4, <1>7, <3>1, <3>2, LowerBlank, UpperBlank
    <3>4. Done(f, e, c, z)
      <4>1. z <= CmdEnd(c)
        BY <1>7 DEF z
      <4> QED
        BY <1>1, <1>4, <1>7, <1>8, <3>3, <4>1, CoveredPage
    <3> QED
      BY <1>1, <3>1, <3>2, <3>3, <3>4, AllDone DEF z
  <2>3. Outcome(Cleared(t, f, more), Cleared(t, f, <<>>), t, f, e, more)
    BY <1>2, <1>6, <1>9, <1>11, <1>12, <2>2, ClearedGoes
  <2>4. Outcome(Cleared(t, f, more), Cleared(t, f, <<>>), s, f, e, more)
    BY <1>9, <2>3, SameOutcome
  <2> QED
    BY <1>6, <1>8, <1>10, <2>1, <2>4
<1>15. p < Final(c) \/ p = Final(c)
  BY <1>1, <1>2, <1>3
<1> QED
  BY <1>13, <1>14, <1>15

(* A store finds its words erased. *)
StoreReady(s, e) ==
  Current(s).op = "store" => \A w \in Covered(Current(s)) : e[w] = Erased

LEMMA AfterStore ==
  ASSUME NEW s \in Machine, NEW g \in [Words -> Contents], NEW e \in [Data -> Contents], NEW f,
         NEW more \in Seq(Commands), Clean(s), s.state = "STORE", Control(s), Holds(s, g, e),
         Beyond(g), StoreReady(s, e), f = Performed(g, Operation(s, g))
  PROVE  /\ f \in [Words -> Contents] /\ Beyond(f)
         /\ Outcome(CommandEnd(s, f, more), CommandEnd(s, f, <<>>), s, f, e, more)
<1> DEFINE c == Current(s)
<1>1. c \in Commands
  BY MachineFields DEF Clean
<1>2. f = Performed(g, StoreOperation(c))
  BY DEF Operation
<1>3. c.op # "clear"
  BY DEF Control
<1>4. IF c.op = "store" THEN Intact(g, e, 0) /\ \A w \in Covered(c) : e[w] = Erased
                        ELSE Done(g, e, c, Swap)
  BY DEF Holds, StoreReady
<1>5. /\ f \in [Words -> Contents] /\ Intact(f, Promise(e, c), 0) /\ Beyond(f)
  <2> HIDE DEF c
  <2> QED BY <1>1, <1>2, <1>3, <1>4, StoredContents
<1>6. <<>> \in Seq(Commands)
  BY EmptySeq
<1>7. Ended(CommandEnd(s, f, more), s, f, e, more) /\ Ended(CommandEnd(s, f, <<>>), s, f, e, <<>>)
  BY <1>5, <1>6, CommandEnds
<1> QED
  BY <1>5, <1>7 DEF Outcome

(* flash_operation_success_run() *)
LEMMA AfterEach ==
  ASSUME NEW s \in Machine, NEW g \in [Words -> Contents], NEW e \in [Data -> Contents], NEW f,
         NEW more \in Seq(Commands), Clean(s), Active(s), Control(s), Holds(s, g, e),
         Beyond(g), Beyond(e), StoreReady(s, e), f = Performed(g, Operation(s, g))
  PROVE  /\ f \in [Words -> Contents] /\ Beyond(f)
         /\ Outcome(AfterOperation(s, f, more), AfterOperation(s, f, <<>>), s, f, e, more)
<1>1. CASE s.state = "STORE"
  <2>1. \A x : AfterOperation(s, f, x) = CommandEnd(s, f, x)
    BY <1>1 DEF AfterOperation
  <2>2. /\ f \in [Words -> Contents] /\ Beyond(f)
        /\ Outcome(CommandEnd(s, f, more), CommandEnd(s, f, <<>>), s, f, e, more)
    BY <1>1, AfterStore
  <2> QED
    BY <2>1, <2>2
<1>2. CASE s.state = "DATA_ERASE"
  <2>1. \A x : AfterOperation(s, f, x) = AfterErase(s, f, x)
    BY <1>2 DEF AfterOperation
  <2>2. /\ f \in [Words -> Contents] /\ Beyond(f)
        /\ Outcome(AfterErase(s, f, more), AfterErase(s, f, <<>>), s, f, e, more)
    BY <1>2, AfterDataErase
  <2> QED
    BY <2>1, <2>2
<1>3. CASE s.state = "DATA_ERASE_WITH_SWAP"
  <2>1. \A x : AfterOperation(s, f, x) = AfterSwapOperation(s, f, x)
    BY <1>3 DEF AfterOperation
  <2>2. f = Performed(g, SwapOperation(s, g))
    BY <1>3 DEF Operation
  <2>3. InSwap(s, g, e)
    BY <1>3 DEF InSwap, Swapping, Control, SwapControl, Holds
  <2>4. s.sub \in Subs
    BY MachineFields
  <2>5. /\ f \in [Words -> Contents] /\ Beyond(f)
        /\ Outcome(AfterSwapOperation(s, f, more), AfterSwapOperation(s, f, <<>>), s, f, e, more)
    <3>1. CASE s.sub = "ERASE_SWAP"
      BY <2>2, <2>3, <3>1, AfterEraseSwap
    <3>2. CASE s.sub = "WRITE_DATA_TO_SWAP"
      BY <2>2, <2>3, <3>2, AfterWriteToSwap
    <3>3. CASE s.sub = "ERASE_DATA_PAGE"
      BY <2>2, <2>3, <3>3, AfterErasePage
    <3>4. CASE s.sub = "RESTORE_HEAD"
      BY <2>2, <2>3, <3>4, AfterRestoreHead
    <3>5. CASE s.sub = "RESTORE_TAIL"
      BY <2>2, <2>3, <3>5, AfterRestoreTail
    <3> QED
      BY <2>4, <3>1, <3>2, <3>3, <3>4, <3>5 DEF Subs
  <2> QED
    BY <2>1, <2>5
<1> QED
  BY <1>1, <1>2, <1>3 DEF Active

-----------------------------------------------------------------------------
(* At every step of a command, what it does not cover is in flash.         *)
LEMMA SavedIsKept ==
  ASSUME NEW f, NEW e, NEW c, NEW q \in Int, NEW w \in Data, Beyond(e), w \notin Covered(c),
         q * PageWords <= w, w < q * PageWords + PageWords,
         w < AreaEnd => f[Swap + (w - q * PageWords)] = e[w], AreaEnd <= w => f[w] = Erased
  PROVE  f[w] = e[w] \/ f[Swap + (w % PageWords)] = e[w]
<1>1. w \in Nat
  BY WordSets
<1>2. w % PageWords = w - q * PageWords
  BY <1>1, Paging
<1>3. w < AreaEnd \/ AreaEnd <= w
  BY <1>1, Sizes
<1> QED
  BY <1>2, <1>3 DEF Beyond

LEMMA AtWorkKept ==
  ASSUME NEW s \in Machine, NEW f, NEW e, s.state # "ERROR", Control(s), Holds(s, f, e), Beyond(e)
  PROVE  Kept(s, f, e)
<1> DEFINE c == Current(s)
<1>1. SUFFICES ASSUME NEW w \in Data
      PROVE  f[w] = e[w] \/ (s.cmds # <<>> /\ (w \in Covered(c) \/ f[Swap + (w % PageWords)] = e[w]))
  BY DEF Kept
<1>2. w \in Nat /\ w \in Words /\ w < Swap
  BY WordSets
<1>3. CASE s.state = "IDLE"
  BY <1>2, <1>3 DEF Holds, Intact
<1>4. CASE s.state = "STORE"
  <2>1. s.cmds # <<>>
    BY <1>4 DEF Control
  <2> QED
    BY <1>2, <1>4, <2>1 DEF Holds, Intact, Done
<1>5. CASE s.state \in {"DATA_ERASE", "DATA_ERASE_WITH_SWAP"}
  <2>1. s.cmds # <<>> /\ c \in Commands
    BY <1>5, MachineFields DEF Control
  <2> DEFINE b == Base(s)
             a == b - PageWords
             z == CmdEnd(c)
  <2>2. s.page \in Int /\ b = s.page * PageWords /\ b \in Int /\ (s.page - 1) * PageWords = a
        /\ a \in Int /\ a + PageWords = b /\ s.page - 1 \in Int /\ z \in Nat
    <3>1. s.page \in Int /\ b = s.page * PageWords
      BY MachineFields DEF Base
    <3>2. b \in Int /\ (s.page - 1) * PageWords = b - PageWords
      BY <3>1, Products, Sizes
    <3>3. z \in Nat
      BY <2>1, Geometry
    <3> HIDE DEF b
    <3>4. a \in Int /\ a + PageWords = b
      BY <3>2, Sizes
    <3> QED
      BY <3>1, <3>2, <3>3, <3>4
  <2> HIDE DEF a, b, z
  <2>3. ASSUME Done(f, e, c, b), Intact(f, e, b) PROVE f[w] = e[w] \/ w \in Covered(c)
    BY <1>2, <2>2, <2>3 DEF Done, Intact
  <2>4. CASE s.state = "DATA_ERASE"
    BY <2>1, <2>3, <2>4 DEF Holds, b
  <2>5. CASE s.state = "DATA_ERASE_WITH_SWAP" /\ s.sub \in {"ERASE_SWAP", "WRITE_DATA_TO_SWAP", "ERASE_DATA_PAGE"}
    BY <2>1, <2>3, <2>5 DEF Holds, SwapFlash, b
  <2>6. ASSUME NEW lo \in Int, a <= lo, Done(f, e, c, lo), Intact(f, e, b), Blank(f, lo, b),
               Saved(f, e, c, a, lo)
        PROVE  f[w] = e[w] \/ w \in Covered(c) \/ f[Swap + (w % PageWords)] = e[w]
    <3>1. CASE w < lo
      BY <2>6, <3>1 DEF Done
    <3>2. CASE b <= w
      BY <2>6, <3>2 DEF Intact
    <3>3. CASE lo <= w /\ w < b /\ w \notin Covered(c)
      <4>1. (s.page - 1) * PageWords <= w /\ w < (s.page - 1) * PageWords + PageWords
        BY <1>2, <2>2, <2>6, <3>3
      <4>2. AreaEnd <= w => f[w] = Erased
        BY <1>2, <2>6, <3>3 DEF Blank
      <4>3. w < AreaEnd => f[Swap + (w - a)] = e[w]
        BY <1>2, <2>2, <2>6, <3>3 DEF Saved
      <4>4. w < AreaEnd => f[Swap + (w - (s.page - 1) * PageWords)] = e[w]
        BY <2>2, <4>3
      <4> QED
        BY <2>2, <3>3, <4>1, <4>2, <4>4, SavedIsKept
    <3> QED
      BY <1>2, <2>2, <2>6, <3>1, <3>2, <3>3
  <2>7. CASE s.state = "DATA_ERASE_WITH_SWAP" /\ s.sub = "RESTORE_HEAD"
    <3>1. Done(f, e, c, a) /\ Intact(f, e, b) /\ Blank(f, a, b) /\ Saved(f, e, c, a, a)
      BY <2>7 DEF Holds, SwapFlash, a, b
    <3> QED
      BY <2>1, <2>2, <2>6, <3>1
  <2>8. CASE s.state = "DATA_ERASE_WITH_SWAP" /\ s.sub = "RESTORE_TAIL"
    <3>1. Done(f, e, c, z) /\ Intact(f, e, b) /\ Blank(f, z, b) /\ Saved(f, e, c, a, z)
      BY <2>8 DEF Holds, SwapFlash, a, b, z
    <3>2. a <= z
      <4>1. s.page = Final(c) + 1
        BY <2>8 DEF Control, SwapControl
      <4>2. Final(c) \in Nat /\ Final(c) * PageWords < z /\ Final(c) * PageWords \in Nat
        BY <2>1, Geometry DEF z
      <4>3. s.page - 1 = Final(c)
        BY <4>1, <4>2
      <4>4. Final(c) * PageWords = a
        BY <2>2, <4>3
      <4> QED
        BY <2>2, <4>2, <4>4
    <3> QED
      BY <2>1, <2>2, <2>6, <3>1, <3>2
  <2>9. s.sub \in Subs
    BY MachineFields
  <2> QED
    BY <1>5, <2>4, <2>5, <2>7, <2>8, <2>9 DEF Subs
<1> QED
  BY <1>3, <1>4, <1>5, MachineFields DEF States

-----------------------------------------------------------------------------
(* The queue: a store accepted finds its words erased when its turn comes. *)
LEMMA SameQueue ==
  ASSUME NEW q, NEW r, NEW e, NEW w, NEW k \in Nat,
         \A n \in 1..(k - 1) : r[n] = q[n], ErasedBefore(q, e, w, k)
  PROVE  ErasedBefore(r, e, w, k)
<1>1. \A n \in 1..(k - 1) : Covered(r[n]) = Covered(q[n]) /\ r[n].op = q[n].op
  OBVIOUS
<1>2. \A j \in 1..(k - 1) : \A n \in (j + 1)..(k - 1) : n \in 1..(k - 1)
  OBVIOUS
<1> QED
  BY <1>1, <1>2 DEF ErasedBefore

LEMMA ReadyAppend ==
  ASSUME NEW q \in Seq(Commands), NEW e, NEW c \in Commands, Ready(q, e),
         c.op = "store" => \A w \in Covered(c) : ErasedBefore(q, e, w, Len(q) + 1)
  PROVE  Ready(Append(q, c), e)
<1> DEFINE r == Append(q, c)
<1>1. /\ Len(r) = Len(q) + 1 /\ Len(q) \in Nat /\ r[Len(q) + 1] = c
      /\ \A n \in 1..Len(q) : r[n] = q[n]
  BY AppendProperties, LenProperties
<1> HIDE DEF r
<1>2. SUFFICES ASSUME NEW k \in 1..Len(r), r[k].op = "store", NEW w \in Covered(r[k])
      PROVE  ErasedBefore(r, e, w, k)
  BY DEF Ready, r
<1>3. \A n \in 1..(k - 1) : r[n] = q[n]
  BY <1>1
<1>4. CASE k <= Len(q)
  <2>1. k \in 1..Len(q) /\ r[k] = q[k]
    BY <1>1, <1>4
  <2>2. ErasedBefore(q, e, w, k)
    BY <1>2, <2>1 DEF Ready
  <2> QED
    BY <1>3, <2>2, SameQueue
<1>5. CASE k = Len(q) + 1
  <2>1. ErasedBefore(q, e, w, k)
    BY <1>1, <1>2, <1>5
  <2> QED
    BY <1>1, <1>3, <1>5, <2>1, SameQueue
<1> QED
  BY <1>1, <1>4, <1>5

LEMMA ReadyTail ==
  ASSUME NEW q \in Seq(Commands), NEW e \in [Data -> Contents], q # <<>>, Ready(q, e)
  PROVE  Ready(Tail(q), Promise(e, Head(q)))
<1> DEFINE r == Tail(q)
           d == Promise(e, Head(q))
           c == q[1]
<1>1. /\ r \in Seq(Commands) /\ Len(r) = Len(q) - 1 /\ Len(q) \in Nat /\ Len(q) > 0
      /\ \A i \in 1..Len(r) : r[i] = q[i + 1]
  BY HeadTailProperties, LenProperties, EmptySeq
<1>2. Head(q) = c /\ c \in Commands
  BY <1>1, HeadTailProperties, ElementOfSeq
<1>3. \A w \in Data : d[w] = IF w \notin Covered(c) THEN e[w]
                             ELSE IF c.op = "clear" THEN Erased ELSE Value(w, c.id)
  BY <1>2, Promised
<1> HIDE DEF r, d
<1>4. SUFFICES ASSUME NEW k \in 1..Len(r), r[k].op = "store", NEW w \in Covered(r[k])
      PROVE  ErasedBefore(r, d, w, k)
  BY DEF Ready, r, d
<1>5. w \in Data
  BY <1>1, CoveredWords, ElementOfSeq
<1>6. k + 1 \in 1..Len(q) /\ q[k + 1] = r[k] /\ k \in Nat /\ k > 0
  BY <1>1
<1>7. ErasedBefore(q, e, w, k + 1)
  BY <1>4, <1>6 DEF Ready
<1>8. \A n \in 1..(k - 1) : r[n] = q[n + 1] /\ n + 1 \in 1..k
  BY <1>1, <1>6
<1>9. CASE e[w] = Erased /\ \A n \in 1..k : w \notin Covered(q[n])
  <2>1. w \notin Covered(c)
    BY <1>6, <1>9
  <2>2. d[w] = Erased
    BY <1>3, <1>5, <1>9, <2>1
  <2>3. \A n \in 1..(k - 1) : w \notin Covered(r[n])
    BY <1>8, <1>9
  <2> QED
    BY <2>2, <2>3 DEF ErasedBefore
<1>10. ASSUME NEW j \in 1..k, q[j].op = "clear", w \in Covered(q[j]),
              \A n \in (j + 1)..k : w \notin Covered(q[n])
       PROVE  ErasedBefore(r, d, w, k)
  <2>1. CASE j = 1
    <3>1. d[w] = Erased
      BY <1>3, <1>5, <1>10, <2>1
    <3>2. \A n \in 1..(k - 1) : w \notin Covered(r[n])
      <4>1. \A n \in 1..(k - 1) : n + 1 \in (j + 1)..k
        BY <1>6, <2>1
      <4> QED
        BY <1>8, <1>10, <4>1
    <3> QED
      BY <3>1, <3>2 DEF ErasedBefore
  <2>2. CASE j # 1
    <3> DEFINE i == j - 1
    <3>1. i \in 1..(k - 1) /\ r[i] = q[j]
      BY <1>6, <1>8, <2>2
    <3>2. \A n \in (i + 1)..(k - 1) : w \notin Covered(r[n])
      <4>1. \A n \in (i + 1)..(k - 1) : n + 1 \in (j + 1)..k /\ n \in 1..(k - 1)
        BY <1>6, <3>1
      <4> QED
        BY <1>8, <1>10, <4>1
    <3>3. r[i].op = "clear" /\ w \in Covered(r[i])
      BY <1>10, <3>1
    <3> HIDE DEF i
    <3> QED
      BY <3>1, <3>2, <3>3 DEF ErasedBefore
  <2> QED
    BY <2>1, <2>2
<1>11. k + 1 - 1 = k
  BY <1>6
<1> QED
  BY <1>7, <1>9, <1>10, <1>11 DEF ErasedBefore

LEMMA ReadyHead ==
  ASSUME NEW q \in Seq(Commands), NEW e, q # <<>>, Ready(q, e), Head(q).op = "store"
  PROVE  \A w \in Covered(Head(q)) : e[w] = Erased
<1>1. Len(q) \in Nat /\ Len(q) > 0 /\ Head(q) = q[1]
  BY HeadTailProperties, LenProperties, EmptySeq
<1>2. \A w \in Covered(q[1]) : ErasedBefore(q, e, w, 1)
  BY <1>1 DEF Ready
<1> QED
  BY <1>1, <1>2 DEF ErasedBefore

-----------------------------------------------------------------------------
(* Twins: two machines alike go on alike, whatever the flash holds and     *)
(* whichever operations are under way.                                     *)
Twins(s, t) == Shaped(s) /\ Shaped(t) /\ Alike(s, t)

(* r was s before: what was under way still is, and at work it waits for    *)
(* some operation.                                                         *)
Awaits(r, s) ==
  /\ s.flashOp # NoOp => r.flashOp = s.flashOp
  /\ Active(r) => r.flashOp # NoOp

LEMMA ShapedFields ==
  ASSUME NEW s, Shaped(s)
  PROVE  /\ s.state \in States /\ s.sub \in Subs /\ s.cmds \in Seq(Commands)
         /\ s.head \in Nat /\ s.tail \in Nat /\ s.page \in Int /\ s.retries \in Nat
         /\ s.busy \in BOOLEAN /\ s.tailDone \in BOOLEAN /\ s.single \in BOOLEAN
         /\ s.cmds # <<>> => Current(s) \in Commands
BY HeadTailProperties DEF Shaped, Current

LEMMA MachineShaped ==
  ASSUME NEW s \in Machine
  PROVE  Shaped(s)
BY DEF Machine, Shaped

(* The fields are set alike. *)
LEMMA StateTwins ==
  ASSUME NEW s, NEW t, Twins(s, t), NEW x \in States
  PROVE  LET u == [s EXCEPT !.state = x]
             v == [t EXCEPT !.state = x]
         IN Twins(u, v) /\ u.flashOp = s.flashOp /\ u.state = x
BY DEF Twins, Shaped, Alike

LEMMA SubTwins ==
  ASSUME NEW s, NEW t, Twins(s, t), NEW x \in Subs
  PROVE  LET u == [s EXCEPT !.sub = x]
             v == [t EXCEPT !.sub = x]
         IN Twins(u, v) /\ u.flashOp = s.flashOp /\ u.state = s.state
BY DEF Twins, Shaped, Alike

LEMMA QueueTwins ==
  ASSUME NEW s, NEW t, Twins(s, t), NEW x \in Seq(Commands)
  PROVE  LET u == [s EXCEPT !.cmds = x]
             v == [t EXCEPT !.cmds = x]
         IN Twins(u, v) /\ u.flashOp = s.flashOp /\ u.state = s.state /\ u.cmds = x
BY DEF Twins, Shaped, Alike

LEMMA HeadTwins ==
  ASSUME NEW s, NEW t, Twins(s, t), NEW x \in Nat
  PROVE  LET u == [s EXCEPT !.head = x]
             v == [t EXCEPT !.head = x]
         IN Twins(u, v) /\ u.flashOp = s.flashOp /\ u.state = s.state /\ u.cmds = s.cmds
BY DEF Twins, Shaped, Alike

LEMMA TailTwins ==
  ASSUME NEW s, NEW t, Twins(s, t), NEW x \in Nat
  PROVE  LET u == [s EXCEPT !.tail = x]
             v == [t EXCEPT !.tail = x]
         IN Twins(u, v) /\ u.flashOp = s.flashOp /\ u.state = s.state /\ u.cmds = s.cmds
BY DEF Twins, Shaped, Alike

LEMMA PageTwins ==
  ASSUME NEW s, NEW t, Twins(s, t), NEW x \in Int
  PROVE  LET u == [s EXCEPT !.page = x]
             v == [t EXCEPT !.page = x]
         IN Twins(u, v) /\ u.flashOp = s.flashOp /\ u.state = s.state /\ u.cmds = s.cmds
BY DEF Twins, Shaped, Alike

LEMMA RetryTwins ==
  ASSUME NEW s, NEW t, Twins(s, t), NEW x \in Nat
  PROVE  LET u == [s EXCEPT !.retries = x]
             v == [t EXCEPT !.retries = x]
         IN Twins(u, v) /\ u.flashOp = s.flashOp /\ u.state = s.state /\ u.cmds = s.cmds
BY DEF Twins, Shaped, Alike

LEMMA TailDoneTwins ==
  ASSUME NEW s, NEW t, Twins(s, t), NEW x \in BOOLEAN
  PROVE  LET u == [s EXCEPT !.tailDone = x]
             v == [t EXCEPT !.tailDone = x]
         IN Twins(u, v) /\ u.flashOp = s.flashOp /\ u.state = s.state /\ u.cmds = s.cmds
BY DEF Twins, Shaped, Alike

LEMMA SingleTwins ==
  ASSUME NEW s, NEW t, Twins(s, t), NEW x \in BOOLEAN
  PROVE  LET u == [s EXCEPT !.single = x]
             v == [t EXCEPT !.single = x]
         IN Twins(u, v) /\ u.flashOp = s.flashOp /\ u.state = s.state /\ u.cmds = s.cmds
BY DEF Twins, Shaped, Alike

LEMMA SomeOperation ==
  ASSUME NEW s, NEW f, Active(s), s.sub \in Subs
  PROVE  Operation(s, f) # NoOp
<1>1. \A p : Erase(p) # NoOp
  BY DEF Erase, NoOp
<1>2. \A at, data : Write(at, data) # NoOp
  BY DEF Write, NoOp
<1>3. SwapOperation(s, f) # NoOp
  BY <1>1, <1>2 DEF SwapOperation, Subs
<1>4. StoreOperation(Current(s)) # NoOp
  BY <1>2 DEF StoreOperation
<1> QED
  BY <1>1, <1>3, <1>4 DEF Operation, Active

LEMMA EnterAlike ==
  ASSUME NEW s, NEW f, Shaped(s)
  PROVE  Shaped(Enter(s, f)) /\ Alike(Enter(s, f), s)
<1> DEFINE op == Operation(s, f)
           r == Enter(s, f)
<1>1. r = IF s.flashOp = NoOp THEN [s EXCEPT !.flashOp = op] ELSE [s EXCEPT !.busy = TRUE]
  BY DEF Enter, Issue
<1> HIDE DEF op, r
<1>2. ASSUME s.flashOp = NoOp PROVE Shaped(r) /\ Alike(r, s)
  BY <1>1, <1>2 DEF Shaped, Alike
<1>3. ASSUME s.flashOp # NoOp PROVE Shaped(r) /\ Alike(r, s)
  BY <1>1, <1>3 DEF Shaped, Alike
<1> QED
  BY <1>2, <1>3 DEF r

LEMMA EnterTwins ==
  ASSUME NEW s, NEW t, NEW f, NEW g, Twins(s, t), Active(s)
  PROVE  Twins(Enter(s, f), Enter(t, g)) /\ Awaits(Enter(s, f), s)
<1> DEFINE op == Operation(s, f)
           r == Enter(s, f)
<1>2. op # NoOp
  BY SomeOperation, ShapedFields DEF Twins
<1>3. r = IF s.flashOp = NoOp THEN [s EXCEPT !.flashOp = op] ELSE [s EXCEPT !.busy = TRUE]
  BY DEF Enter, Issue
<1> HIDE DEF op, r
<1>4. Awaits(r, s)
  <2>1. Shaped(s)
    BY DEF Twins
  <2>2. CASE s.flashOp = NoOp
    <3>1. r.flashOp = op
      BY <1>3, <2>1, <2>2 DEF Shaped
    <3> QED
      BY <1>2, <2>2, <3>1 DEF Awaits
  <2>3. CASE s.flashOp # NoOp
    <3>1. r.flashOp = s.flashOp
      BY <1>3, <2>1, <2>3 DEF Shaped
    <3> QED
      BY <2>3, <3>1 DEF Awaits
  <2> QED
    BY <2>2, <2>3
<1>5. Twins(r, Enter(t, g))
  <2>1. Shaped(r) /\ Alike(r, s) /\ Alike(s, t)
    BY EnterAlike DEF r, Twins
  <2>2. Shaped(Enter(t, g)) /\ Alike(Enter(t, g), t)
    BY EnterAlike DEF Twins
  <2> QED
    BY <2>1, <2>2 DEF Twins, Alike
<1> QED
  BY <1>4, <1>5 DEF r

LEMMA StoreTwins ==
  ASSUME NEW s, NEW t, NEW f, NEW g, Twins(s, t)
  PROVE  Twins(StoreEntry(s, f), StoreEntry(t, g)) /\ Awaits(StoreEntry(s, f), s)
<1> DEFINE u == [s EXCEPT !.state = "STORE"]
           v == [t EXCEPT !.state = "STORE"]
<1>1. Twins(u, v) /\ u.flashOp = s.flashOp /\ u.state = "STORE"
  BY StateTwins DEF States
<1>2. StoreEntry(s, f) = Enter(u, f) /\ StoreEntry(t, g) = Enter(v, g)
  BY DEF StoreEntry
<1> HIDE DEF u, v
<1> QED
  BY <1>1, <1>2, EnterTwins DEF Active, Awaits

LEMMA EraseTwins ==
  ASSUME NEW s, NEW t, NEW f, NEW g, Twins(s, t)
  PROVE  Twins(EraseEntry(s, f), EraseEntry(t, g)) /\ Awaits(EraseEntry(s, f), s)
<1> DEFINE u == [s EXCEPT !.state = "DATA_ERASE"]
           v == [t EXCEPT !.state = "DATA_ERASE"]
<1>1. Twins(u, v) /\ u.flashOp = s.flashOp /\ u.state = "DATA_ERASE"
  BY StateTwins DEF States
<1>2. EraseEntry(s, f) = Enter(u, f) /\ EraseEntry(t, g) = Enter(v, g)
  BY DEF EraseEntry
<1> HIDE DEF u, v
<1> QED
  BY <1>1, <1>2, EnterTwins DEF Active, Awaits

LEMMA ToSubTwins ==
  ASSUME NEW s, NEW t, NEW f, NEW g, NEW x \in Subs, Twins(s, t), s.state = "DATA_ERASE_WITH_SWAP"
  PROVE  Twins(ToSub(s, f, x), ToSub(t, g, x)) /\ Awaits(ToSub(s, f, x), s)
<1> DEFINE u == [s EXCEPT !.sub = x]
           v == [t EXCEPT !.sub = x]
<1>1. Twins(u, v) /\ u.flashOp = s.flashOp /\ u.state = "DATA_ERASE_WITH_SWAP"
  BY SubTwins
<1>2. ToSub(s, f, x) = Enter(u, f) /\ ToSub(t, g, x) = Enter(v, g)
  BY DEF ToSub
<1> HIDE DEF u, v
<1> QED
  BY <1>1, <1>2, EnterTwins DEF Active, Awaits

LEMMA SwapEntryTwins ==
  ASSUME NEW s, NEW t, NEW f, NEW g, Twins(s, t), s.cmds # <<>>
  PROVE  Twins(SwapEntry(s, f), SwapEntry(t, g)) /\ Awaits(SwapEntry(s, f), s)
<1> DEFINE c == Current(s)
           p == c.block \div PageWords
           b == p = (c.block + c.size - 1) \div PageWords
           x == IF s.head = 0 /\ ~b THEN "ERASE_DATA_PAGE" ELSE "ERASE_SWAP"
           s1 == [s EXCEPT !.state = "DATA_ERASE_WITH_SWAP"]
           t1 == [t EXCEPT !.state = "DATA_ERASE_WITH_SWAP"]
           s2 == [s1 EXCEPT !.tailDone = FALSE]
           t2 == [t1 EXCEPT !.tailDone = FALSE]
           s3 == [s2 EXCEPT !.page = p]
           t3 == [t2 EXCEPT !.page = p]
           s4 == [s3 EXCEPT !.single = b]
           t4 == [t3 EXCEPT !.single = b]
<1>1. Current(t) = c /\ t.head = s.head
  BY DEF Twins, Alike, Current
<1>2. SwapEntry(s, f) = ToSub(s4, f, x) /\ SwapEntry(t, g) = ToSub(t4, g, x)
  BY <1>1 DEF SwapEntry
<1>3. p \in Int /\ b \in BOOLEAN /\ x \in Subs
  <2>1. p = First(c) /\ c \in Commands
    BY ShapedFields DEF Twins, First
  <2> QED
    BY <2>1, Geometry DEF Subs
<1>4. Twins(s1, t1) /\ s1.flashOp = s.flashOp /\ s1.state = "DATA_ERASE_WITH_SWAP"
  BY StateTwins DEF States
<1> HIDE DEF c, p, b, x, s1, t1
<1>5. Twins(s2, t2) /\ s2.flashOp = s.flashOp /\ s2.state = "DATA_ERASE_WITH_SWAP"
  BY <1>4, TailDoneTwins
<1> HIDE DEF s2, t2
<1>6. Twins(s3, t3) /\ s3.flashOp = s.flashOp /\ s3.state = "DATA_ERASE_WITH_SWAP"
  BY <1>3, <1>5, PageTwins
<1> HIDE DEF s3, t3
<1>7. Twins(s4, t4) /\ s4.flashOp = s.flashOp /\ s4.state = "DATA_ERASE_WITH_SWAP"
  BY <1>3, <1>6, SingleTwins
<1> HIDE DEF s4, t4
<1> QED
  BY <1>2, <1>3, <1>7, ToSubTwins DEF Awaits

LEMMA ProcessTwins ==
  ASSUME NEW s, NEW t, NEW f, NEW g, Twins(s, t), s.cmds # <<>>
  PROVE  Twins(Process(s, f), Process(t, g)) /\ Awaits(Process(s, f), s)
<1> DEFINE c == Current(s)
<1>1. Current(t) = c /\ c \in Commands
  BY ShapedFields DEF Twins, Alike, Current
<1>2. CASE c.op = "store"
  <2>1. Process(s, f) = StoreEntry(s, f) /\ Process(t, g) = StoreEntry(t, g)
    BY <1>1, <1>2 DEF Process
  <2> QED
    BY <2>1, StoreTwins
<1>3. CASE c.op # "store" /\ NoSwapNeeded(c)
  <2> DEFINE zero == 0
             p == First(c)
             s1 == [s EXCEPT !.tail = zero]
             t1 == [t EXCEPT !.tail = zero]
             s2 == [s1 EXCEPT !.page = p]
             t2 == [t1 EXCEPT !.page = p]
  <2>1. Process(s, f) = EraseEntry(s2, f) /\ Process(t, g) = EraseEntry(t2, g)
    BY <1>1, <1>3 DEF Process, ClearOperation, First
  <2>2. zero \in Nat /\ p \in Int
    BY <1>1, Geometry
  <2> HIDE DEF zero, p
  <2>3. Twins(s1, t1) /\ s1.flashOp = s.flashOp
    BY <2>2, TailTwins
  <2> HIDE DEF s1, t1
  <2>4. Twins(s2, t2) /\ s2.flashOp = s.flashOp
    BY <2>2, <2>3, PageTwins
  <2> HIDE DEF s2, t2
  <2> QED
    BY <2>1, <2>4, EraseTwins DEF Awaits
<1>4. CASE c.op # "store" /\ ~NoSwapNeeded(c)
  <2> DEFINE h == HeadOf(c)
             n == TailOf(c)
             s1 == [s EXCEPT !.head = h]
             t1 == [t EXCEPT !.head = h]
             s2 == [s1 EXCEPT !.tail = n]
             t2 == [t1 EXCEPT !.tail = n]
  <2>1. Process(s, f) = SwapEntry(s2, f) /\ Process(t, g) = SwapEntry(t2, g)
    BY <1>1, <1>4 DEF Process, ClearOperation, HeadOf, TailOf, Start
  <2>2. h \in Nat /\ n \in Nat
    BY <1>1, HeadGeometry, TailGeometry
  <2> HIDE DEF h, n
  <2>3. Twins(s1, t1) /\ s1.flashOp = s.flashOp /\ s1.cmds = s.cmds
    BY <2>2, HeadTwins
  <2> HIDE DEF s1, t1
  <2>4. Twins(s2, t2) /\ s2.flashOp = s.flashOp /\ s2.cmds = s.cmds
    BY <2>2, <2>3, TailTwins
  <2> HIDE DEF s2, t2
  <2> QED
    BY <2>1, <2>4, SwapEntryTwins DEF Awaits
<1> QED
  BY <1>2, <1>3, <1>4

LEMMA CommandEndTwins ==
  ASSUME NEW s, NEW t, NEW f, NEW g, NEW more \in Seq(Commands), Twins(s, t), s.cmds # <<>>
  PROVE  /\ Twins(CommandEnd(s, f, more), CommandEnd(t, g, more))
         /\ Awaits(CommandEnd(s, f, more), s)
<1> DEFINE q == Tail(s.cmds \o more)
           zero == 0
           s1 == [s EXCEPT !.cmds = q]
           t1 == [t EXCEPT !.cmds = q]
           s2 == [s1 EXCEPT !.state = "IDLE"]
           t2 == [t1 EXCEPT !.state = "IDLE"]
           s3 == [s2 EXCEPT !.retries = zero]
           t3 == [t2 EXCEPT !.retries = zero]
<1>1. q \in Seq(Commands) /\ zero \in Nat
  <2>1. s.cmds \in Seq(Commands)
    BY ShapedFields DEF Twins
  <2>2. s.cmds \o more \in Seq(Commands) /\ s.cmds \o more # <<>>
    BY <2>1, ConcatProperties, ConcatEqualIffEmpty
  <2> QED
    BY <2>2, HeadTailProperties
<1>2. /\ CommandEnd(s, f, more) = IF s3.cmds = <<>> THEN s3 ELSE Process(s3, f)
      /\ CommandEnd(t, g, more) = IF t3.cmds = <<>> THEN t3 ELSE Process(t3, g)
  <2>1. t.cmds = s.cmds
    BY DEF Twins, Alike
  <2> QED
    BY <2>1 DEF CommandEnd, Idle
<1> HIDE DEF q, zero
<1>3. Twins(s1, t1) /\ s1.flashOp = s.flashOp
  BY <1>1, QueueTwins
<1> HIDE DEF s1, t1
<1>4. Twins(s2, t2) /\ s2.flashOp = s.flashOp /\ s2.state = "IDLE"
  BY <1>3, StateTwins DEF States
<1> HIDE DEF s2, t2
<1>5. Twins(s3, t3) /\ s3.flashOp = s.flashOp /\ s3.state = "IDLE"
  BY <1>1, <1>4, RetryTwins
<1> HIDE DEF s3, t3
<1>6. t3.cmds = s3.cmds
  BY <1>5 DEF Twins, Alike
<1>7. CASE s3.cmds = <<>>
  BY <1>2, <1>5, <1>6, <1>7 DEF Awaits, Active
<1>8. CASE s3.cmds # <<>>
  <2>1. Twins(Process(s3, f), Process(t3, g)) /\ Awaits(Process(s3, f), s3)
    BY <1>5, <1>8, ProcessTwins
  <2> QED
    BY <1>2, <1>5, <1>6, <1>8, <2>1 DEF Awaits
<1> QED
  BY <1>7, <1>8

LEMMA ClearedTwins ==
  ASSUME NEW s, NEW t, NEW f, NEW g, NEW more \in Seq(Commands), Twins(s, t), s.cmds # <<>>
  PROVE  Twins(Cleared(s, f, more), Cleared(t, g, more)) /\ Awaits(Cleared(s, f, more), s)
<1>1. Current(t) = Current(s)
  BY DEF Twins, Alike, Current
<1>2. CASE Current(s).op = "update"
  <2>1. Cleared(s, f, more) = StoreEntry(s, f) /\ Cleared(t, g, more) = StoreEntry(t, g)
    BY <1>1, <1>2 DEF Cleared
  <2> QED
    BY <2>1, StoreTwins
<1>3. CASE Current(s).op # "update"
  <2>1. Cleared(s, f, more) = CommandEnd(s, f, more) /\ Cleared(t, g, more) = CommandEnd(t, g, more)
    BY <1>1, <1>3 DEF Cleared
  <2> QED
    BY <2>1, CommandEndTwins
<1> QED
  BY <1>2, <1>3

LEMMA SameTests ==
  ASSUME NEW s, NEW t, Twins(s, t)
  PROVE  /\ TailSwapRequired(t) <=> TailSwapRequired(s)
         /\ PageEraseRequired(t) <=> PageEraseRequired(s)
         /\ t.head = s.head /\ t.tail = s.tail /\ t.page = s.page /\ t.tailDone = s.tailDone
         /\ t.single = s.single /\ t.sub = s.sub /\ t.state = s.state /\ t.retries = s.retries
         /\ t.cmds = s.cmds /\ (Active(t) <=> Active(s))
BY DEF Twins, Alike, TailSwapRequired, PageEraseRequired, LastPage, Current, Active

(* What follows the restore of a head, and the erase of a data page.        *)
LEMMA AfterHeadTwins ==
  ASSUME NEW s, NEW t, NEW f, NEW g, NEW more \in Seq(Commands), Twins(s, t), s.cmds # <<>>,
         s.state = "DATA_ERASE_WITH_SWAP"
  PROVE  /\ Twins(AfterHeadRestore(s, f, more), AfterHeadRestore(t, g, more))
         /\ Awaits(AfterHeadRestore(s, f, more), s)
<1> DEFINE zero == 0
           s1 == [s EXCEPT !.head = zero]
           t1 == [t EXCEPT !.head = zero]
           s2 == [s1 EXCEPT !.tailDone = TRUE]
           t2 == [t1 EXCEPT !.tailDone = TRUE]
<1>1. \A x, h : AfterHeadRestore(x, h, more) =
        LET y == [x EXCEPT !.head = zero]
            z == [y EXCEPT !.tailDone = TRUE]
        IN IF TailSwapRequired(x) THEN ToSub(z, h, "ERASE_SWAP")
           ELSE IF PageEraseRequired(x) THEN ToSub(y, h, "ERASE_DATA_PAGE")
           ELSE IF x.tail # 0 THEN ToSub(x, h, "RESTORE_TAIL") ELSE Cleared(x, h, more)
  BY DEF AfterHeadRestore
<1>2. zero \in Nat /\ {"ERASE_SWAP", "ERASE_DATA_PAGE", "RESTORE_TAIL"} \subseteq Subs
  BY DEF Subs
<1>3. /\ AfterHeadRestore(s, f, more) =
           IF TailSwapRequired(s) THEN ToSub(s2, f, "ERASE_SWAP")
           ELSE IF PageEraseRequired(s) THEN ToSub(s1, f, "ERASE_DATA_PAGE")
           ELSE IF s.tail # 0 THEN ToSub(s, f, "RESTORE_TAIL") ELSE Cleared(s, f, more)
      /\ AfterHeadRestore(t, g, more) =
           IF TailSwapRequired(s) THEN ToSub(t2, g, "ERASE_SWAP")
           ELSE IF PageEraseRequired(s) THEN ToSub(t1, g, "ERASE_DATA_PAGE")
           ELSE IF s.tail # 0 THEN ToSub(t, g, "RESTORE_TAIL") ELSE Cleared(t, g, more)
  <2>1. t.tail = s.tail /\ (TailSwapRequired(t) <=> TailSwapRequired(s))
        /\ (PageEraseRequired(t) <=> PageEraseRequired(s))
    BY SameTests
  <2> QED
    BY <1>1, <2>1
<1> HIDE DEF zero
<1>4. Twins(s1, t1) /\ s1.flashOp = s.flashOp /\ s1.state = s.state
  BY <1>2, HeadTwins
<1> HIDE DEF s1, t1
<1>5. Twins(s2, t2) /\ s2.flashOp = s.flashOp /\ s2.state = s.state
  BY <1>4, TailDoneTwins
<1> HIDE DEF s2, t2
<1>6. CASE TailSwapRequired(s)
  BY <1>2, <1>3, <1>5, <1>6, ToSubTwins DEF Awaits
<1>7. CASE ~TailSwapRequired(s) /\ PageEraseRequired(s)
  BY <1>2, <1>3, <1>4, <1>7, ToSubTwins DEF Awaits
<1>8. CASE ~TailSwapRequired(s) /\ ~PageEraseRequired(s) /\ s.tail # 0
  BY <1>2, <1>3, <1>8, ToSubTwins
<1>9. CASE ~TailSwapRequired(s) /\ ~PageEraseRequired(s) /\ s.tail = 0
  BY <1>3, <1>9, ClearedTwins
<1> QED
  BY <1>6, <1>7, <1>8, <1>9

LEMMA AfterPageTwins ==
  ASSUME NEW s, NEW t, NEW f, NEW g, NEW more \in Seq(Commands), Twins(s, t), s.cmds # <<>>,
         s.state = "DATA_ERASE_WITH_SWAP"
  PROVE  /\ Twins(AfterDataPageErase(s, f, more), AfterDataPageErase(t, g, more))
         /\ Awaits(AfterDataPageErase(s, f, more), s)
<1> DEFINE k == s.page + 1
           s1 == [s EXCEPT !.page = k]
           t1 == [t EXCEPT !.page = k]
           s2 == [s1 EXCEPT !.tailDone = TRUE]
           t2 == [t1 EXCEPT !.tailDone = TRUE]
<1>1. k \in Int
  BY ShapedFields DEF Twins
<1>2. /\ AfterDataPageErase(s, f, more) =
           IF s1.head # 0 THEN ToSub(s1, f, "RESTORE_HEAD")
           ELSE IF PageEraseRequired(s1) THEN ToSub(s1, f, "ERASE_DATA_PAGE")
           ELSE IF s1.tail = 0 THEN Cleared(s1, f, more)
           ELSE IF s1.tailDone THEN ToSub(s1, f, "RESTORE_TAIL") ELSE ToSub(s2, f, "ERASE_SWAP")
      /\ AfterDataPageErase(t, g, more) =
           IF t1.head # 0 THEN ToSub(t1, g, "RESTORE_HEAD")
           ELSE IF PageEraseRequired(t1) THEN ToSub(t1, g, "ERASE_DATA_PAGE")
           ELSE IF t1.tail = 0 THEN Cleared(t1, g, more)
           ELSE IF t1.tailDone THEN ToSub(t1, g, "RESTORE_TAIL") ELSE ToSub(t2, g, "ERASE_SWAP")
  <2>1. t.page = s.page
    BY SameTests
  <2> QED
    BY <2>1 DEF AfterDataPageErase
<1> HIDE DEF k
<1>3. Twins(s1, t1) /\ s1.flashOp = s.flashOp /\ s1.state = s.state /\ s1.cmds = s.cmds
  BY <1>1, PageTwins
<1> HIDE DEF s1, t1
<1>4. Twins(s2, t2) /\ s2.flashOp = s.flashOp /\ s2.state = s.state
  BY <1>3, TailDoneTwins
<1> HIDE DEF s2, t2
<1>5. /\ t1.head = s1.head /\ t1.tail = s1.tail /\ t1.tailDone = s1.tailDone
      /\ PageEraseRequired(t1) <=> PageEraseRequired(s1)
  BY <1>3, SameTests
<1>6. {"RESTORE_HEAD", "ERASE_SWAP", "ERASE_DATA_PAGE", "RESTORE_TAIL"} \subseteq Subs
  BY DEF Subs
<1>7. CASE s1.head # 0
  BY <1>2, <1>3, <1>5, <1>6, <1>7, ToSubTwins DEF Awaits
<1>8. CASE s1.head = 0 /\ PageEraseRequired(s1)
  BY <1>2, <1>3, <1>5, <1>6, <1>8, ToSubTwins DEF Awaits
<1>9. CASE s1.head = 0 /\ ~PageEraseRequired(s1) /\ s1.tail = 0
  BY <1>2, <1>3, <1>5, <1>9, ClearedTwins DEF Awaits
<1>10. CASE s1.head = 0 /\ ~PageEraseRequired(s1) /\ s1.tail # 0 /\ s1.tailDone
  BY <1>2, <1>3, <1>5, <1>6, <1>10, ToSubTwins DEF Awaits
<1>11. CASE s1.head = 0 /\ ~PageEraseRequired(s1) /\ s1.tail # 0 /\ ~s1.tailDone
  BY <1>2, <1>3, <1>4, <1>5, <1>6, <1>11, ToSubTwins DEF Awaits
<1> QED
  BY <1>7, <1>8, <1>9, <1>10, <1>11

(* flash_operation_success_run() *)
LEMMA AfterTwins ==
  ASSUME NEW s, NEW t, NEW f, NEW g, NEW more \in Seq(Commands), Twins(s, t), s.cmds # <<>>, Active(s)
  PROVE  /\ Twins(AfterOperation(s, f, more), AfterOperation(t, g, more))
         /\ Awaits(AfterOperation(s, f, more), s)
<1>1. t.state = s.state /\ t.sub = s.sub /\ s.sub \in Subs
  BY SameTests, ShapedFields DEF Twins
<1>2. CASE s.state = "STORE"
  <2>1. /\ AfterOperation(s, f, more) = CommandEnd(s, f, more)
        /\ AfterOperation(t, g, more) = CommandEnd(t, g, more)
    BY <1>1, <1>2 DEF AfterOperation
  <2> QED
    BY <2>1, CommandEndTwins
<1>3. CASE s.state = "DATA_ERASE"
  <2> DEFINE k == s.page + 1
             s1 == [s EXCEPT !.page = k]
             t1 == [t EXCEPT !.page = k]
  <2>1. k \in Int /\ t.page = s.page
    BY ShapedFields, SameTests DEF Twins
  <2>2. /\ AfterOperation(s, f, more) =
             IF PageEraseRequired(s1) THEN EraseEntry(s1, f) ELSE Cleared(s1, f, more)
        /\ AfterOperation(t, g, more) =
             IF PageEraseRequired(t1) THEN EraseEntry(t1, g) ELSE Cleared(t1, g, more)
    BY <1>1, <1>3, <2>1 DEF AfterOperation, AfterErase
  <2> HIDE DEF k
  <2>3. Twins(s1, t1) /\ s1.flashOp = s.flashOp /\ s1.cmds = s.cmds
    BY <2>1, PageTwins
  <2> HIDE DEF s1, t1
  <2>4. PageEraseRequired(t1) <=> PageEraseRequired(s1)
    BY <2>3, SameTests
  <2>5. CASE PageEraseRequired(s1)
    BY <2>2, <2>3, <2>4, <2>5, EraseTwins DEF Awaits
  <2>6. CASE ~PageEraseRequired(s1)
    BY <2>2, <2>3, <2>4, <2>6, ClearedTwins DEF Awaits
  <2> QED
    BY <2>5, <2>6
<1>4. CASE s.state = "DATA_ERASE_WITH_SWAP"
  <2>1. /\ AfterOperation(s, f, more) = AfterSwapOperation(s, f, more)
        /\ AfterOperation(t, g, more) = AfterSwapOperation(t, g, more)
    BY <1>1, <1>4 DEF AfterOperation
  <2>2. CASE s.sub = "ERASE_SWAP"
    <3>1. /\ AfterSwapOperation(s, f, more) = ToSub(s, f, "WRITE_DATA_TO_SWAP")
          /\ AfterSwapOperation(t, g, more) = ToSub(t, g, "WRITE_DATA_TO_SWAP")
      BY <1>1, <2>2 DEF AfterSwapOperation
    <3> QED
      BY <1>4, <2>1, <3>1, ToSubTwins DEF Subs
  <2>3. CASE s.sub = "WRITE_DATA_TO_SWAP"
    <3> DEFINE b == s.tailDone \/ s.single
               s1 == [s EXCEPT !.tailDone = b]
               t1 == [t EXCEPT !.tailDone = b]
    <3>1. b \in BOOLEAN /\ t.tailDone = s.tailDone /\ t.single = s.single
      BY SameTests
    <3>2. /\ AfterSwapOperation(s, f, more) = ToSub(s1, f, "ERASE_DATA_PAGE")
          /\ AfterSwapOperation(t, g, more) = ToSub(t1, g, "ERASE_DATA_PAGE")
      BY <1>1, <2>3, <3>1 DEF AfterSwapOperation
    <3> HIDE DEF b
    <3>3. Twins(s1, t1) /\ s1.flashOp = s.flashOp /\ s1.state = s.state
      BY <3>1, TailDoneTwins
    <3> HIDE DEF s1, t1
    <3> QED
      BY <1>4, <2>1, <3>2, <3>3, ToSubTwins DEF Subs, Awaits
  <2>4. CASE s.sub = "ERASE_DATA_PAGE"
    <3>1. /\ AfterSwapOperation(s, f, more) = AfterDataPageErase(s, f, more)
          /\ AfterSwapOperation(t, g, more) = AfterDataPageErase(t, g, more)
      BY <1>1, <2>4 DEF AfterSwapOperation
    <3> QED
      BY <1>4, <2>1, <3>1, AfterPageTwins
  <2>5. CASE s.sub = "RESTORE_TAIL"
    <3>1. /\ AfterSwapOperation(s, f, more) = Cleared(s, f, more)
          /\ AfterSwapOperation(t, g, more) = Cleared(t, g, more)
      BY <1>1, <2>5 DEF AfterSwapOperation
    <3> QED
      BY <2>1, <3>1, ClearedTwins
  <2>6. CASE s.sub = "RESTORE_HEAD"
    <3>1. /\ AfterSwapOperation(s, f, more) = AfterHeadRestore(s, f, more)
          /\ AfterSwapOperation(t, g, more) = AfterHeadRestore(t, g, more)
      BY <1>1, <2>6 DEF AfterSwapOperation
    <3> QED
      BY <1>4, <2>1, <3>1, AfterHeadTwins
  <2> QED
    BY <1>1, <2>2, <2>3, <2>4, <2>5, <2>6 DEF Subs
<1> QED
  BY <1>2, <1>3, <1>4 DEF Active

-----------------------------------------------------------------------------
(* The twin on a blank flash: nothing is under way, and nothing is held     *)
(* that could be lost.                                                     *)
Bare(s) == [s EXCEPT !.flashOp = NoOp, !.busy = FALSE]
BlankFlash == [w \in Words |-> Erased]
BlankData == [w \in Data |-> Erased]

LEMMA BareTwin ==
  ASSUME NEW s, Shaped(s)
  PROVE  /\ Bare(s) \in Machine /\ Twins(s, Bare(s))
         /\ Bare(s).flashOp = NoOp /\ Bare(s).busy = FALSE
<1> DEFINE op == NoOp
           t == [s EXCEPT !.flashOp = op]
           u == [t EXCEPT !.busy = FALSE]
<1>1. Bare(s) = u /\ op \in FlashOps
  BY IdleOps DEF Bare
<1>2. op = NoOp
  OBVIOUS
<1> HIDE DEF op
<1>3. t \in Machine /\ Alike(t, s) /\ t.flashOp = op
  BY <1>1 DEF Shaped, Machine, Alike
<1> HIDE DEF t
<1>4. u \in Machine /\ Alike(u, t) /\ u.flashOp = op /\ u.busy = FALSE
  BY <1>3 DEF Machine, Alike
<1> HIDE DEF u
<1>5. Twins(s, u)
  <2>1. Shaped(u)
    BY <1>4, MachineShaped
  <2> QED
    BY <1>3, <1>4, <2>1 DEF Twins, Alike
<1> QED
  BY <1>1, <1>2, <1>4, <1>5

LEMMA ControlTwins ==
  ASSUME NEW s, NEW t, Twins(s, t), Control(t)
  PROVE  Control(s)
BY DEF Twins, Alike, Control, SwapControl, Current

LEMMA TwinsSwap ==
  ASSUME NEW s, NEW t, Twins(s, t)
  PROVE  Twins(t, s)
BY DEF Twins, Alike

LEMMA BlankHolds ==
  ASSUME NEW s \in Machine, Control(s)
  PROVE  /\ BlankFlash \in [Words -> Contents] /\ BlankData \in [Data -> Contents]
         /\ Beyond(BlankFlash) /\ Beyond(BlankData)
         /\ s.cmds # <<>> => StoreReady(s, BlankData)
         /\ Intact(BlankFlash, BlankData, 0)
         /\ Active(s) => Holds(s, BlankFlash, BlankData)
<1> DEFINE f == BlankFlash
           e == BlankData
           c == Current(s)
<1>1. /\ f \in [Words -> Contents] /\ e \in [Data -> Contents]
      /\ \A w \in Words : f[w] = Erased
      /\ \A w \in Data : e[w] = Erased
  BY DEF BlankFlash, BlankData, Contents, Erased
<1>2. \A w \in Data : w \in Words /\ w \in Nat
  BY WordSets
<1> HIDE DEF f, e
<1>3. Beyond(f) /\ Beyond(e)
  BY <1>1, <1>2 DEF Beyond
<1>4. \A lo : Intact(f, e, lo)
  BY <1>1, <1>2 DEF Intact
<1>5. \A x, hi : Done(f, e, x, hi)
  BY <1>1, <1>2 DEF Done
<1>6. \A lo, hi : Blank(f, lo, hi)
  BY <1>1 DEF Blank
<1>7. ASSUME NEW x, NEW base \in Int, NEW lo \in Int, base <= lo
      PROVE  Saved(f, e, x, base, lo)
  <2> SUFFICES ASSUME NEW w \in Data, lo <= w, w < base + PageWords
               PROVE  f[Swap + (w - base)] = e[w]
    BY DEF Saved
  <2>1. w \in Nat /\ 0 <= w - base /\ w - base < PageWords
    BY <1>2, <1>7, Sizes
  <2>2. Swap + (w - base) \in Words
    BY <1>7, <2>1, Sizes DEF Words
  <2> QED
    BY <1>1, <2>2
<1>8. ASSUME s.cmds # <<>> PROVE StoreReady(s, e)
  <2> SUFFICES ASSUME c.op = "store", NEW w \in Covered(c)
               PROVE  e[w] = Erased
    BY DEF StoreReady
  <2>1. c \in Commands
    BY <1>8, MachineFields
  <2>2. w \in Data
    BY <2>1, CoveredWords
  <2> QED
    BY <1>1, <2>2
<1>9. ASSUME Active(s) PROVE Holds(s, f, e)
  <2>1. s.page \in Int /\ Base(s) \in Int /\ Base(s) - PageWords \in Int
    BY MachineFields, Sizes DEF Base
  <2>2. s.state = "DATA_ERASE_WITH_SWAP" => SwapFlash(s, f, e)
    <3> SUFFICES ASSUME s.state = "DATA_ERASE_WITH_SWAP" PROVE SwapFlash(s, f, e)
      OBVIOUS
    <3>1. s.sub = "RESTORE_TAIL" => Saved(f, e, c, Base(s) - PageWords, CmdEnd(c))
      <4> SUFFICES ASSUME s.sub = "RESTORE_TAIL"
                   PROVE  Saved(f, e, c, Base(s) - PageWords, CmdEnd(c))
        OBVIOUS
      <4>1. s.page = Final(c) + 1 /\ c \in Commands
        BY <1>9, MachineFields DEF Control, SwapControl
      <4> DEFINE q == Final(c) * PageWords
                 z == CmdEnd(c)
                 b == Base(s)
      <4>2. Final(c) \in Nat /\ q < z /\ q \in Nat /\ z \in Nat
        BY <4>1, Geometry
      <4>3. b - PageWords = q
        <5>1. (s.page - 1) * PageWords = s.page * PageWords - PageWords
          BY <2>1, Products, Sizes
        <5>2. s.page - 1 = Final(c)
          BY <4>1, <4>2
        <5> QED
          BY <5>1, <5>2 DEF Base
      <4> HIDE DEF q, z, b
      <4>4. b - PageWords <= z
        BY <4>2, <4>3
      <4> QED
        BY <1>7, <2>1, <4>2, <4>4 DEF z, b
    <3>2. Saved(f, e, c, Base(s), Base(s)) /\ Saved(f, e, c, Base(s) - PageWords, Base(s) - PageWords)
      <4> DEFINE b == Base(s)
                 a == Base(s) - PageWords
      <4>1. b \in Int /\ a \in Int
        BY <2>1
      <4> HIDE DEF a, b
      <4>2. Saved(f, e, c, b, b) /\ Saved(f, e, c, a, a)
        BY <1>7, <4>1
      <4> QED
        BY <4>2 DEF a, b
    <3> QED
      BY <1>4, <1>5, <1>6, <3>1, <3>2 DEF SwapFlash
  <2> QED
    BY <1>4, <1>5, <1>9, <2>2 DEF Holds, Active
<1> QED
  BY <1>1, <1>3, <1>4, <1>8, <1>9 DEF f, e

(* What holds of the machine whatever events it is given.                  *)
LEMMA SuccessCoherent ==
  ASSUME NEW s, NEW f, NEW more \in Seq(Commands), Coherent(s), Active(s),
         Len(s.cmds \o more) <= PSTORAGE_CMD_QUEUE_SIZE
  PROVE  Coherent(AfterOperation(s, f, more)) /\ Awaits(AfterOperation(s, f, more), s)
<1> DEFINE t == Bare(s)
           op == Operation(t, BlankFlash)
           g == Performed(BlankFlash, op)
           r == AfterOperation(s, f, more)
           w == AfterOperation(t, g, more)
<1>1. /\ Shaped(s) /\ Control(s) /\ Len(s.cmds) <= PSTORAGE_CMD_QUEUE_SIZE
      /\ s.state # "ERROR" /\ s.retries < SD_CMD_MAX_TRIES /\ s.cmds # <<>> /\ s.cmds \in Seq(Commands)
  BY ShapedFields DEF Coherent, Active, Control
<1>2. t \in Machine /\ Twins(s, t) /\ t.flashOp = NoOp /\ t.busy = FALSE
  BY <1>1, BareTwin
<1>3. Twins(t, s)
  BY <1>2, TwinsSwap
<1> HIDE DEF t
<1>4. Control(t) /\ t.cmds = s.cmds /\ t.retries = s.retries /\ Active(t)
  BY <1>1, <1>2, <1>3, ControlTwins, SameTests
<1>5. Clean(t)
  BY <1>1, <1>2, <1>4 DEF Clean, Control
<1>6. Outcome(w, AfterOperation(t, g, <<>>), t, g, BlankData, more)
  BY <1>1, <1>2, <1>4, <1>5, BlankHolds, AfterEach
<1>7. Twins(r, w) /\ Awaits(r, s)
  BY <1>1, <1>2, AfterTwins
<1> HIDE DEF g, r, w
<1>8. r.state = w.state /\ r.cmds = w.cmds /\ r.retries = w.retries
  BY <1>7 DEF Twins, Alike
<1>9. CASE Goes(w, t, g, BlankData)
  <2>1. Control(w) /\ w.cmds = s.cmds /\ w.retries = s.retries /\ w.state # "ERROR"
    BY <1>4, <1>9 DEF Goes, Active
  <2>2. Control(r) /\ Shaped(r)
    BY <1>7, <2>1, ControlTwins DEF Twins
  <2>3. Coherent(r)
    BY <1>1, <1>8, <2>1, <2>2 DEF Coherent
  <2> QED
    BY <1>7, <2>3 DEF r
<1>10. CASE Ended(w, t, g, BlankData, more)
  <2> DEFINE q == s.cmds \o more
  <2>1. Control(w) /\ w.cmds = Tail(q) /\ w.retries = 0 /\ w.state # "ERROR"
    BY <1>4, <1>10 DEF Ended
  <2>2. Control(r) /\ Shaped(r)
    BY <1>7, <2>1, ControlTwins DEF Twins
  <2>3. q \in Seq(Commands) /\ q # <<>> /\ Len(q) <= PSTORAGE_CMD_QUEUE_SIZE
    BY <1>1, ConcatProperties, ConcatEqualIffEmpty
  <2> HIDE DEF q
  <2>4. Len(Tail(q)) = Len(q) - 1 /\ Len(q) \in Nat
    BY <2>3, HeadTailProperties, LenProperties
  <2>5. Len(r.cmds) <= PSTORAGE_CMD_QUEUE_SIZE
    BY <1>8, <2>1, <2>3, <2>4, Sizes
  <2>6. Coherent(r)
    BY <1>8, <2>1, <2>2, <2>5, Sizes DEF Coherent
  <2> QED
    BY <1>7, <2>6 DEF r
<1> QED
  BY <1>6, <1>9, <1>10 DEF Outcome

(* flash_operation_failure_run() *)
LEMMA FailureTwins ==
  ASSUME NEW s, NEW t, NEW f, NEW g, Twins(s, t), Active(s)
  PROVE  Twins(AfterFailure(s, f), AfterFailure(t, g)) /\ Awaits(AfterFailure(s, f), s)
<1> DEFINE k == s.retries + 1
           s1 == [s EXCEPT !.retries = k]
           t1 == [t EXCEPT !.retries = k]
           s2 == [s1 EXCEPT !.state = "ERROR"]
           t2 == [t1 EXCEPT !.state = "ERROR"]
<1>1. k \in Nat /\ t.retries = s.retries
  BY ShapedFields, SameTests DEF Twins
<1>2. /\ AfterFailure(s, f) = IF s1.retries # SD_CMD_MAX_TRIES THEN Enter(s1, f) ELSE s2
      /\ AfterFailure(t, g) = IF t1.retries # SD_CMD_MAX_TRIES THEN Enter(t1, g) ELSE t2
  BY <1>1 DEF AfterFailure
<1> HIDE DEF k
<1>3. Twins(s1, t1) /\ s1.flashOp = s.flashOp /\ s1.state = s.state
  BY <1>1, RetryTwins
<1> HIDE DEF s1, t1
<1>4. Twins(s2, t2) /\ s2.flashOp = s.flashOp /\ s2.state = "ERROR"
  BY <1>3, StateTwins DEF States
<1> HIDE DEF s2, t2
<1>5. t1.retries = s1.retries /\ Active(s1)
  BY <1>3, SameTests DEF Active
<1>6. CASE s1.retries # SD_CMD_MAX_TRIES
  BY <1>2, <1>3, <1>5, <1>6, EnterTwins DEF Awaits
<1>7. CASE s1.retries = SD_CMD_MAX_TRIES
  BY <1>2, <1>4, <1>5, <1>7 DEF Awaits, Active
<1> QED
  BY <1>6, <1>7

LEMMA Retried ==
  ASSUME NEW s \in Machine, NEW f \in [Words -> Contents], NEW e, Active(s), Control(s), Holds(s, f, e),
         s.flashOp \in {NoOp, Foreign}, s.busy = FALSE, Beyond(e), s.retries < SD_CMD_MAX_TRIES
  PROVE  LET r == AfterFailure(s, f)
         IN /\ r \in Machine /\ Control(r) /\ Holds(r, f, e) /\ Issued(r, f)
            /\ r.state = "ERROR" => Kept(r, f, e)
            /\ r.cmds = s.cmds /\ r.retries = s.retries + 1
            /\ r.state = "ERROR" <=> r.retries = SD_CMD_MAX_TRIES
<1> DEFINE k == s.retries + 1
           u == [s EXCEPT !.retries = k]
           v == [u EXCEPT !.state = "ERROR"]
           r == AfterFailure(s, f)
<1>1. k \in Nat /\ s.state # "ERROR" /\ s.cmds # <<>>
  BY MachineFields DEF Active, Control
<1>2. r = IF u.retries # SD_CMD_MAX_TRIES THEN Enter(u, f) ELSE v
  BY DEF AfterFailure
<1>3. k = s.retries + 1
  OBVIOUS
<1> HIDE DEF k, r
<1>4. u \in Machine /\ u.retries = k /\ u.flashOp = s.flashOp /\ u.busy = FALSE
      /\ u.state = s.state /\ u.sub = s.sub /\ u.cmds = s.cmds /\ u.head = s.head /\ u.tail = s.tail
      /\ u.page = s.page /\ u.tailDone = s.tailDone /\ u.single = s.single
  BY <1>1 DEF Machine
<1> HIDE DEF u
<1>5. v \in Machine /\ v.state = "ERROR" /\ v.retries = k /\ v.flashOp = s.flashOp /\ v.busy = FALSE
      /\ v.cmds = s.cmds /\ v.page = s.page /\ v.head = s.head /\ v.tail = s.tail
  <2>1. v \in Machine
    BY <1>4 DEF Machine, States
  <2> QED
    BY <1>4, <2>1 DEF Machine
<1> HIDE DEF v
<1>6. CASE k # SD_CMD_MAX_TRIES
  <2>1. Current(u) = Current(s) /\ Base(u) = Base(s)
    BY <1>4 DEF Current, Base
  <2>2. Control(u)
    BY <1>4, <2>1 DEF Control, SwapControl
  <2>3. Holds(u, f, e)
    BY <1>4, <2>1 DEF Holds, SwapFlash
  <2>4. Active(u)
    BY <1>4 DEF Active
  <2>5. r = Enter(u, f)
    BY <1>2, <1>4, <1>6
  <2>6. Goes(r, u, f, e)
    BY <1>4, <2>2, <2>3, <2>4, <2>5, EnterGoes
  <2>7. /\ r \in Machine /\ Control(r) /\ Holds(r, f, e) /\ Issued(r, f) /\ r.state # "ERROR"
        /\ r.cmds = s.cmds /\ r.retries = k
    BY <1>4, <2>6 DEF Goes, Active
  <2> QED
    BY <1>3, <1>6, <2>7 DEF r
<1>7. CASE k = SD_CMD_MAX_TRIES
  <2>1. r = v
    BY <1>2, <1>4, <1>7
  <2>2. Kept(s, f, e)
    BY <1>1, AtWorkKept
  <2>3. Current(v) = Current(s)
    BY <1>5 DEF Current
  <2>4. Kept(v, f, e)
    BY <1>5, <2>2, <2>3 DEF Kept
  <2>5. Control(v)
    BY <1>1, <1>5 DEF Control
  <2>6. Holds(v, f, e)
    BY <1>5 DEF Holds
  <2>7. Issued(v, f)
    BY <1>5 DEF Issued, Active
  <2> QED
    BY <1>3, <1>5, <1>7, <2>1, <2>4, <2>5, <2>6, <2>7 DEF r
<1> QED
  BY <1>6, <1>7

LEMMA FailureCoherent ==
  ASSUME NEW s, NEW f, Coherent(s), Active(s)
  PROVE  /\ Coherent(AfterFailure(s, f)) /\ Awaits(AfterFailure(s, f), s)
         /\ AfterFailure(s, f).cmds = s.cmds
<1> DEFINE t == Bare(s)
           r == AfterFailure(s, f)
           w == AfterFailure(t, BlankFlash)
<1>1. /\ Shaped(s) /\ Control(s) /\ Len(s.cmds) <= PSTORAGE_CMD_QUEUE_SIZE
      /\ s.state # "ERROR" /\ s.retries \in Nat /\ s.retries < SD_CMD_MAX_TRIES
  BY ShapedFields DEF Coherent, Active
<1>2. t \in Machine /\ Twins(s, t) /\ t.flashOp = NoOp /\ t.busy = FALSE
  BY <1>1, BareTwin
<1>3. Twins(t, s)
  BY <1>2, TwinsSwap
<1>4. Twins(r, w) /\ Awaits(r, s)
  BY <1>2, FailureTwins
<1> HIDE DEF t
<1>5. Control(t) /\ t.cmds = s.cmds /\ t.retries = s.retries /\ Active(t)
  BY <1>1, <1>2, <1>3, ControlTwins, SameTests
<1>6. /\ Control(w) /\ w.cmds = s.cmds /\ w.retries = s.retries + 1
      /\ w.state = "ERROR" <=> w.retries = SD_CMD_MAX_TRIES
  BY <1>1, <1>2, <1>5, BlankHolds, Retried
<1> HIDE DEF r, w
<1>7. Shaped(r) /\ Control(r) /\ r.state = w.state /\ r.cmds = w.cmds /\ r.retries = w.retries
  BY <1>4, <1>6, ControlTwins DEF Twins, Alike
<1>8. IF r.state = "ERROR" THEN r.retries = SD_CMD_MAX_TRIES ELSE r.retries < SD_CMD_MAX_TRIES
  BY <1>1, <1>6, <1>7, Sizes
<1>9. Coherent(r)
  BY <1>1, <1>6, <1>7, <1>8 DEF Coherent
<1> QED
  BY <1>4, <1>6, <1>7, <1>9 DEF r

LEMMA ProcessCoherent ==
  ASSUME NEW s, NEW f, Shaped(s), s.cmds # <<>>, Len(s.cmds) <= PSTORAGE_CMD_QUEUE_SIZE,
         s.page \in 0..NumPages, s.head < PageWords, s.tail < PageWords, s.retries < SD_CMD_MAX_TRIES
  PROVE  Coherent(Process(s, f)) /\ Awaits(Process(s, f), s)
<1> DEFINE t == Bare(s)
           r == Process(s, f)
           w == Process(t, BlankFlash)
<1>1. t \in Machine /\ Twins(s, t) /\ t.flashOp = NoOp /\ t.busy = FALSE
  BY BareTwin
<1>2. Twins(r, w) /\ Awaits(r, s)
  BY <1>1, ProcessTwins
<1> HIDE DEF t
<1>3. /\ t.cmds = s.cmds /\ t.page = s.page /\ t.head = s.head /\ t.tail = s.tail
      /\ t.retries = s.retries
  BY <1>1, SameTests
<1>4. Clean(t)
  BY <1>1, <1>3 DEF Clean
<1>5. BlankFlash \in [Words -> Contents] /\ Intact(BlankFlash, BlankData, 0)
  <2>1. Erased \in Contents
    BY DEF Contents, Erased
  <2>2. \A x \in Data : BlankFlash[x] = BlankData[x]
    BY WordSets DEF BlankFlash, BlankData
  <2> QED
    BY <2>1, <2>2 DEF BlankFlash, Intact
<1>6. Goes(w, t, BlankFlash, BlankData)
  BY <1>1, <1>4, <1>5, ProcessGoes
<1> HIDE DEF r, w
<1>7. Control(w) /\ w.cmds = s.cmds /\ w.retries = s.retries /\ w.state # "ERROR"
  BY <1>3, <1>6 DEF Goes, Active
<1>8. Shaped(r) /\ Control(r) /\ r.state = w.state /\ r.cmds = w.cmds /\ r.retries = w.retries
  BY <1>2, <1>7, ControlTwins DEF Twins, Alike
<1>9. Coherent(r)
  BY <1>7, <1>8 DEF Coherent
<1> QED
  BY <1>2, <1>9 DEF r

(* pstorage_sys_event_handler() *)
LEMMA WorkingIsActive ==
  ASSUME NEW s, Shaped(s)
  PROVE  Working(s) <=> Active(s)
BY ShapedFields DEF Working, Active, States

LEMMA HandledCoherent ==
  ASSUME NEW s, NEW f, NEW ok \in BOOLEAN, NEW more \in Seq(Commands), Coherent(s),
         Len(s.cmds \o more) <= PSTORAGE_CMD_QUEUE_SIZE
  PROVE  Coherent(Handled(s, f, ok, more)) /\ Awaits(Handled(s, f, ok, more), s)
<1> DEFINE r == Handled(s, f, ok, more)
<1>1. Shaped(s) /\ Control(s) /\ (Working(s) <=> Active(s))
  BY WorkingIsActive DEF Coherent
<1>2. CASE ~Working(s)
  <2>1. r = s
    BY <1>2 DEF Handled
  <2> HIDE DEF r
  <2>2. Coherent(r) /\ Awaits(r, s)
    BY <1>1, <1>2, <2>1 DEF Awaits
  <2> QED
    BY <2>2 DEF r
<1>3. CASE Working(s) /\ WaitsForOther(s)
  <2> DEFINE u == [s EXCEPT !.busy = FALSE]
  <2>1. r = Enter(u, f)
    BY <1>3 DEF Handled
  <2>2. Shaped(u) /\ Alike(u, s) /\ u.flashOp = s.flashOp
    BY <1>1 DEF Shaped, Alike
  <2> HIDE DEF u, r
  <2>3. Twins(u, s)
    BY <1>1, <2>2 DEF Twins
  <2>4. Active(u)
    BY <1>1, <1>3, <2>3, SameTests
  <2>5. Shaped(r) /\ Alike(r, u) /\ Awaits(r, u)
    BY <2>1, <2>2, <2>3, <2>4, EnterAlike, EnterTwins
  <2>6. Twins(r, s)
    BY <1>1, <2>2, <2>5 DEF Twins, Alike
  <2>7. Control(r)
    BY <1>1, <2>6, ControlTwins
  <2>8. Coherent(r)
    BY <2>5, <2>6, <2>7, SameTests DEF Coherent
  <2> QED
    BY <2>2, <2>5, <2>8 DEF r, Awaits
<1>4. CASE Working(s) /\ ~WaitsForOther(s) /\ ok
  <2>1. r = AfterOperation(s, f, more)
    BY <1>4 DEF Handled
  <2> QED
    BY <1>1, <1>4, <2>1, SuccessCoherent
<1>5. CASE Working(s) /\ ~WaitsForOther(s) /\ ~ok
  <2>1. r = AfterFailure(s, f)
    BY <1>5 DEF Handled
  <2> QED
    BY <1>1, <1>5, <2>1, FailureCoherent
<1> QED
  BY <1>2, <1>3, <1>4, <1>5

-----------------------------------------------------------------------------
(* What is agreed on, from one command or operation to the next. *)
LEMMA SettledTwins ==
  ASSUME NEW s, NEW t \in Machine, NEW f, NEW e, Alike(t, s), Settled(s, f, e)
  PROVE  Settled(t, f, e) /\ Operation(t, f) = Operation(s, f) /\ (Active(t) <=> Active(s))
<1>1. /\ s \in Machine /\ f \in [Words -> Contents] /\ e \in [Data -> Contents]
      /\ Len(s.cmds) <= PSTORAGE_CMD_QUEUE_SIZE
      /\ Control(s) /\ Holds(s, f, e) /\ (s.state = "ERROR" => Kept(s, f, e))
      /\ Beyond(f) /\ Beyond(e) /\ Ready(s.cmds, e)
  BY DEF Settled
<1>2. /\ Control(t) /\ Holds(t, f, e) /\ (Kept(s, f, e) => Kept(t, f, e))
      /\ Operation(t, f) = Operation(s, f) /\ (Active(t) <=> Active(s))
  BY <1>1, AlikeStates
<1>3. t.cmds = s.cmds /\ t.state = s.state
  BY DEF Alike
<1>4. Settled(t, f, e)
  BY <1>1, <1>2, <1>3 DEF Settled
<1> QED
  BY <1>2, <1>4

LEMMA GoesConsistent ==
  ASSUME NEW r, NEW s, NEW f \in [Words -> Contents], NEW e \in [Data -> Contents], NEW n,
         Goes(r, s, f, e), Len(s.cmds) <= PSTORAGE_CMD_QUEUE_SIZE, Beyond(f), Beyond(e),
         Ready(s.cmds, e), s.retries < SD_CMD_MAX_TRIES, n = s.retries
  PROVE  Consistent(r, f, e) /\ Tries(r, n)
BY DEF Goes, Consistent, Settled, Tries, Active

LEMMA EndedConsistent ==
  ASSUME NEW r, NEW s \in Machine, NEW f \in [Words -> Contents], NEW e \in [Data -> Contents],
         NEW more \in Seq(Commands), s.cmds # <<>>, Ended(r, s, f, e, more), Beyond(f), Beyond(e),
         Ready(s.cmds \o more, e), Len(s.cmds \o more) <= PSTORAGE_CMD_QUEUE_SIZE
  PROVE  Consistent(r, f, Promise(e, Current(s))) /\ Tries(r, 0)
<1> DEFINE q == s.cmds \o more
           c == Current(s)
           d == Promise(e, c)
<1>1. s.cmds \in Seq(Commands) /\ c \in Commands
  BY MachineFields
<1>2. q \in Seq(Commands) /\ q # <<>> /\ Head(q) = c
  <2>1. q \in Seq(Commands) /\ q # <<>>
    BY <1>1, ConcatProperties, ConcatEqualIffEmpty
  <2>2. Len(s.cmds) \in Nat /\ Len(s.cmds) > 0 /\ Len(more) \in Nat /\ Len(q) = Len(s.cmds) + Len(more)
    BY <1>1, LenProperties, EmptySeq, ConcatProperties
  <2>3. q[1] = s.cmds[1]
    <3>1. 1 \in 1..(Len(s.cmds) + Len(more)) /\ 1 <= Len(s.cmds)
      BY <2>2
    <3> QED
      BY <1>1, <3>1, ConcatProperties
  <2> HIDE DEF q
  <2>4. Head(q) = q[1] /\ c = s.cmds[1]
    BY <1>1, <2>1, HeadTailProperties DEF Current
  <2> QED
    BY <2>1, <2>3, <2>4
<1>3. d \in [Data -> Contents] /\ Beyond(d)
  BY <1>1, Promised
<1>4. Ready(Tail(q), d)
  <2> HIDE DEF q, c
  <2>1. Ready(q, e)
    BY DEF q
  <2>2. Ready(Tail(q), Promise(e, Head(q)))
    BY <1>2, <2>1, ReadyTail
  <2> QED
    BY <1>2, <2>2 DEF c
<1>5. Len(Tail(q)) <= PSTORAGE_CMD_QUEUE_SIZE
  <2>1. Len(q) \in Nat /\ Len(Tail(q)) = Len(q) - 1
    <3> HIDE DEF q
    <3> QED BY <1>2, HeadTailProperties, LenProperties
  <2>2. Len(q) <= PSTORAGE_CMD_QUEUE_SIZE
    OBVIOUS
  <2> HIDE DEF q
  <2> QED BY <2>1, <2>2, Sizes
<1>6. /\ r \in Machine /\ Control(r) /\ Holds(r, f, d) /\ Issued(r, f)
      /\ r.cmds = Tail(q) /\ r.retries = 0 /\ r.state # "ERROR"
  BY DEF Ended
<1> HIDE DEF q, d
<1>7. Consistent(r, f, d)
  BY <1>3, <1>4, <1>5, <1>6 DEF Consistent, Settled
<1>8. Tries(r, 0)
  BY <1>6, Sizes DEF Tries
<1> QED
  BY <1>7, <1>8 DEF d

(* The module's operation succeeded, and its event is handled. *)
LEMMA EndedWell ==
  ASSUME NEW s \in Machine, NEW f, NEW e, NEW n, NEW more \in Seq(Commands),
         Waits(s, f, e, TRUE), Tries(s, n), Ready(s.cmds \o more, e),
         Len(s.cmds \o more) <= PSTORAGE_CMD_QUEUE_SIZE
  PROVE  LET r == AfterOperation(s, f, more)
             d == Promise(e, Current(s))
         IN IF Len(AfterOperation(s, f, <<>>).cmds) < Len(s.cmds)
              THEN Consistent(r, f, d) /\ Tries(r, 0) /\ Intact(f, d, 0)
              ELSE Consistent(r, f, e) /\ Tries(r, n)
<1> DEFINE r == AfterOperation(s, f, more)
           r0 == AfterOperation(s, f, <<>>)
<1>1. PICK g \in [Words -> Contents] : Settled(s, g, e) /\ f = Performed(g, Operation(s, g))
  BY DEF Waits
<1>2. Active(s) /\ s.busy = FALSE /\ s.flashOp \in {NoOp, Foreign}
  BY DEF Waits
<1>3. /\ e \in [Data -> Contents] /\ Len(s.cmds) <= PSTORAGE_CMD_QUEUE_SIZE
      /\ Control(s) /\ Holds(s, g, e) /\ Beyond(g) /\ Beyond(e) /\ Ready(s.cmds, e)
  BY <1>1 DEF Settled
<1>4. s.cmds # <<>> /\ s.cmds \in Seq(Commands)
  BY <1>2, <1>3, MachineFields DEF Control, Active
<1>5. Clean(s)
  BY <1>2, <1>3, <1>4 DEF Clean, Control
<1>6. StoreReady(s, e)
  BY <1>3, <1>4, ReadyHead DEF StoreReady, Current
<1>7. /\ f \in [Words -> Contents] /\ Beyond(f)
      /\ Outcome(r, r0, s, f, e, more)
  BY <1>1, <1>2, <1>3, <1>5, <1>6, AfterEach
<1>8. Len(s.cmds) \in Nat /\ Len(Tail(s.cmds)) = Len(s.cmds) - 1 /\ s.cmds \o <<>> = s.cmds
  BY <1>4, HeadTailProperties, LenProperties, ConcatEmptySeq
<1> HIDE DEF r, r0
<1>9. CASE Goes(r, s, f, e) /\ r0 = r
  <2>1. ~(Len(r0.cmds) < Len(s.cmds))
    BY <1>8, <1>9 DEF Goes
  <2>2. n = s.retries /\ s.retries < SD_CMD_MAX_TRIES
    BY <1>2 DEF Tries, Active
  <2>3. Consistent(r, f, e) /\ Tries(r, n)
    BY <1>3, <1>7, <1>9, <2>2, GoesConsistent
  <2> QED
    BY <2>1, <2>3 DEF r, r0
<1>10. CASE Ended(r, s, f, e, more) /\ Ended(r0, s, f, e, <<>>)
  <2>1. Len(r0.cmds) < Len(s.cmds)
    BY <1>8, <1>10 DEF Ended
  <2>2. Consistent(r, f, Promise(e, Current(s))) /\ Tries(r, 0)
    BY <1>3, <1>4, <1>7, <1>10, EndedConsistent
  <2>3. Intact(f, Promise(e, Current(s)), 0)
    BY <1>10 DEF Ended
  <2> QED
    BY <2>1, <2>2, <2>3 DEF r, r0
<1> QED
  BY <1>7, <1>9, <1>10 DEF Outcome

(* The same, before it is handled: what the flash holds already. *)
LEMMA WaitsKept ==
  ASSUME NEW s \in Machine, NEW f, NEW e, NEW ok \in BOOLEAN, Waits(s, f, e, ok)
  PROVE  f \in [Words -> Contents] /\ Kept(s, f, e)
<1>1. PICK g \in [Words -> Contents] : Settled(s, g, e) /\ f = IF ok THEN Performed(g, Operation(s, g)) ELSE g
  BY DEF Waits
<1>2. Active(s) /\ s.busy = FALSE /\ s.flashOp \in {NoOp, Foreign}
  BY DEF Waits
<1>3. /\ e \in [Data -> Contents]
      /\ Control(s) /\ Holds(s, g, e) /\ Beyond(g) /\ Beyond(e) /\ Ready(s.cmds, e)
  BY <1>1 DEF Settled
<1>4. s.cmds # <<>> /\ s.cmds \in Seq(Commands) /\ s.state # "ERROR"
  BY <1>2, <1>3, MachineFields DEF Control, Active
<1>5. CASE ok = FALSE
  BY <1>1, <1>3, <1>4, <1>5, AtWorkKept
<1>6. CASE ok = TRUE
  <2> DEFINE none == <<>>
             r == AfterOperation(s, f, none)
  <2>1. Clean(s)
    BY <1>2, <1>3, <1>4 DEF Clean, Control
  <2>2. StoreReady(s, e)
    BY <1>3, <1>4, ReadyHead DEF StoreReady, Current
  <2>3. none \in Seq(Commands)
    BY EmptySeq
  <2>4. f \in [Words -> Contents] /\ Beyond(f) /\ Outcome(r, r, s, f, e, none)
    BY <1>1, <1>2, <1>3, <1>6, <2>1, <2>2, <2>3, AfterEach
  <2> HIDE DEF none, r
  <2>5. CASE Goes(r, s, f, e)
    <3>1. Kept(r, f, e)
      BY <1>3, <2>5, AtWorkKept DEF Goes, Active
    <3> QED
      BY <2>4, <2>5, <3>1 DEF Goes, Kept, Current
  <2>6. CASE Ended(r, s, f, e, none)
    <3> DEFINE c == Current(s)
    <3>1. c \in Commands
      BY <1>4, MachineFields
    <3>2. \A w \in Data : w \in Nat /\ (w \notin Covered(c) => Promise(e, c)[w] = e[w])
      BY <1>3, <3>1, WordSets, Promised
    <3>3. Intact(f, Promise(e, c), 0)
      BY <2>6 DEF Ended
    <3> HIDE DEF c
    <3>4. \A w \in Data : w \in Covered(c) \/ f[w] = e[w]
      BY <3>2, <3>3 DEF Intact
    <3> QED
      BY <1>4, <2>4, <3>4 DEF Kept, c
  <2> QED
    BY <2>4, <2>5, <2>6 DEF Outcome
<1> QED
  BY <1>5, <1>6

(* It failed. *)
LEMMA EndedBadly ==
  ASSUME NEW s \in Machine, NEW f, NEW e, NEW n, Waits(s, f, e, FALSE), Tries(s, n)
  PROVE  Consistent(AfterFailure(s, f), f, e) /\ Tries(AfterFailure(s, f), n + 1)
<1> DEFINE r == AfterFailure(s, f)
<1>1. Settled(s, f, e)
  BY DEF Waits
<1>2. Active(s) /\ s.busy = FALSE /\ s.flashOp \in {NoOp, Foreign} /\ s.retries \in Nat
  BY MachineFields DEF Waits
<1>3. /\ f \in [Words -> Contents] /\ e \in [Data -> Contents]
      /\ Len(s.cmds) <= PSTORAGE_CMD_QUEUE_SIZE
      /\ Control(s) /\ Holds(s, f, e) /\ Beyond(f) /\ Beyond(e) /\ Ready(s.cmds, e)
  BY <1>1 DEF Settled
<1>4. n = s.retries /\ s.retries < SD_CMD_MAX_TRIES
  BY <1>2 DEF Tries, Active
<1>5. /\ r \in Machine /\ Control(r) /\ Holds(r, f, e) /\ Issued(r, f)
      /\ r.state = "ERROR" => Kept(r, f, e)
      /\ r.cmds = s.cmds /\ r.retries = s.retries + 1
      /\ r.state = "ERROR" <=> r.retries = SD_CMD_MAX_TRIES
  BY <1>2, <1>3, <1>4, Retried
<1> HIDE DEF r
<1>6. Consistent(r, f, e)
  BY <1>3, <1>5 DEF Consistent, Settled
<1>7. Tries(r, n + 1)
  BY <1>2, <1>4, <1>5, Sizes DEF Tries
<1> QED
  BY <1>6, <1>7 DEF r

(* The event of another's operation ends the wait for it. *)
LEMMA OtherEnded ==
  ASSUME NEW s \in Machine, NEW f, NEW e, NEW n, Consistent(s, f, e), Tries(s, n), Active(s),
         s.busy = TRUE
  PROVE  LET r == Enter([s EXCEPT !.busy = FALSE], f)
         IN Consistent(r, f, e) /\ Tries(r, n)
<1> DEFINE u == [s EXCEPT !.busy = FALSE]
<1>1. s.flashOp \in {NoOp, Foreign}
  BY DEF Consistent, Issued
<1>2. u \in Machine /\ Alike(u, s) /\ u.flashOp = s.flashOp /\ u.busy = FALSE
  BY DEF Machine, Alike
<1> HIDE DEF u
<1>3. Settled(u, f, e) /\ Active(u)
  BY <1>2, SettledTwins DEF Consistent
<1>4. /\ f \in [Words -> Contents] /\ e \in [Data -> Contents]
      /\ Len(u.cmds) <= PSTORAGE_CMD_QUEUE_SIZE
      /\ Control(u) /\ Holds(u, f, e) /\ Beyond(f) /\ Beyond(e) /\ Ready(u.cmds, e)
  BY <1>3 DEF Settled
<1>5. Goes(Enter(u, f), u, f, e)
  BY <1>1, <1>2, <1>3, <1>4, EnterGoes
<1>6. u.retries < SD_CMD_MAX_TRIES /\ n = u.retries
  BY <1>2 DEF Tries, Active, Alike
<1>7. Consistent(Enter(u, f), f, e) /\ Tries(Enter(u, f), n)
  BY <1>4, <1>5, <1>6, GoesConsistent
<1> QED
  BY <1>7 DEF u

-----------------------------------------------------------------------------
(* The queue grows. *)
Queued(s, c) == [s EXCEPT !.cmds = Append(@, c)]

LEMMA QueuedFields ==
  ASSUME NEW s, Shaped(s), NEW c \in Commands, Len(s.cmds) < PSTORAGE_CMD_QUEUE_SIZE,
         NEW t, t = Queued(s, c)
  PROVE  /\ Shaped(t) /\ t.cmds = Append(s.cmds, c) /\ t.cmds # <<>>
         /\ Len(t.cmds) <= PSTORAGE_CMD_QUEUE_SIZE
         /\ s.cmds # <<>> => Current(t) = Current(s)
         /\ t.state = s.state /\ t.sub = s.sub /\ t.head = s.head /\ t.tail = s.tail /\ t.page = s.page
         /\ t.retries = s.retries /\ t.busy = s.busy /\ t.tailDone = s.tailDone
         /\ t.single = s.single /\ t.flashOp = s.flashOp
<1> DEFINE q == Append(s.cmds, c)
<1>1. s.cmds \in Seq(Commands)
  BY ShapedFields
<1>2. /\ q \in Seq(Commands) /\ q # <<>> /\ Len(q) <= PSTORAGE_CMD_QUEUE_SIZE
      /\ s.cmds # <<>> => Head(q) = Head(s.cmds)
  <2>1. q \in Seq(Commands) /\ q # <<>> /\ Len(q) = Len(s.cmds) + 1 /\ Len(s.cmds) \in Nat
    BY <1>1, AppendProperties, LenProperties
  <2>2. s.cmds # <<>> => Head(q) = Head(s.cmds)
    BY <1>1, HeadTailAppend
  <2>3. Len(q) <= PSTORAGE_CMD_QUEUE_SIZE
    <3> HIDE DEF q
    <3> QED BY <2>1, Sizes
  <2> QED
    BY <2>1, <2>2, <2>3
<1>3. t = [s EXCEPT !.cmds = q]
  BY DEF Queued
<1>4. q = Append(s.cmds, c)
  OBVIOUS
<1> HIDE DEF q
<1>5. /\ Shaped(t) /\ t.cmds = q
      /\ t.state = s.state /\ t.sub = s.sub /\ t.head = s.head /\ t.tail = s.tail /\ t.page = s.page
      /\ t.retries = s.retries /\ t.busy = s.busy /\ t.tailDone = s.tailDone
      /\ t.single = s.single /\ t.flashOp = s.flashOp
  BY <1>2, <1>3 DEF Shaped
<1> QED
  BY <1>2, <1>4, <1>5 DEF Current

LEMMA QueuedCoherent ==
  ASSUME NEW s, NEW c \in Commands, Coherent(s), s.state # "IDLE",
         Len(s.cmds) < PSTORAGE_CMD_QUEUE_SIZE, NEW t, t = Queued(s, c)
  PROVE  Coherent(t)
<1>1. /\ Shaped(s) /\ Control(s) /\ s.cmds # <<>>
      /\ IF s.state = "ERROR" THEN s.retries = SD_CMD_MAX_TRIES ELSE s.retries < SD_CMD_MAX_TRIES
  BY DEF Coherent, Control
<1>2. /\ Shaped(t) /\ t.cmds # <<>> /\ Len(t.cmds) <= PSTORAGE_CMD_QUEUE_SIZE /\ Current(t) = Current(s)
      /\ t.state = s.state /\ t.sub = s.sub /\ t.head = s.head /\ t.tail = s.tail /\ t.page = s.page
      /\ t.retries = s.retries /\ t.tailDone = s.tailDone /\ t.single = s.single
  BY <1>1, QueuedFields
<1>3. Control(t)
  BY <1>1, <1>2 DEF Control, SwapControl
<1> QED
  BY <1>1, <1>2, <1>3 DEF Coherent

LEMMA QueuedSettled ==
  ASSUME NEW s \in Machine, NEW f, NEW e, NEW c \in Commands, Settled(s, f, e), s.state # "IDLE",
         Len(s.cmds) < PSTORAGE_CMD_QUEUE_SIZE,
         c.op = "store" => \A w \in Covered(c) : ErasedBefore(s.cmds, e, w, Len(s.cmds) + 1),
         NEW t, t = Queued(s, c)
  PROVE  Settled(t, f, e) /\ Operation(t, f) = Operation(s, f) /\ (Active(t) <=> Active(s))
<1>1. /\ f \in [Words -> Contents] /\ e \in [Data -> Contents] /\ Beyond(f) /\ Beyond(e)
      /\ Control(s) /\ Holds(s, f, e) /\ Ready(s.cmds, e) /\ s.cmds \in Seq(Commands)
      /\ s.state = "ERROR" => Kept(s, f, e)
  BY MachineFields DEF Settled
<1>2. s.cmds # <<>>
  BY <1>1 DEF Control
<1>3. /\ Shaped(t) /\ t.cmds = Append(s.cmds, c) /\ t.cmds # <<>>
      /\ Len(t.cmds) <= PSTORAGE_CMD_QUEUE_SIZE /\ Current(t) = Current(s)
      /\ t.state = s.state /\ t.sub = s.sub /\ t.head = s.head /\ t.tail = s.tail /\ t.page = s.page
      /\ t.retries = s.retries /\ t.busy = s.busy /\ t.tailDone = s.tailDone
      /\ t.single = s.single /\ t.flashOp = s.flashOp
  <2>1. Shaped(s)
    BY MachineShaped
  <2> QED
    BY <1>2, <2>1, QueuedFields
<1>4. t \in Machine
  <2> DEFINE q == Append(s.cmds, c)
  <2>1. q \in Seq(Commands) /\ t = [s EXCEPT !.cmds = q]
    BY <1>1, AppendProperties DEF Queued
  <2> HIDE DEF q
  <2> QED
    BY <2>1 DEF Machine
<1>5. Base(t) = Base(s)
  BY <1>3 DEF Base
<1>6. Ready(t.cmds, e)
  BY <1>1, <1>3, ReadyAppend
<1>7. Control(t)
  BY <1>1, <1>3 DEF Control, SwapControl
<1>8. Holds(t, f, e)
  BY <1>1, <1>3, <1>5 DEF Holds, SwapFlash
<1>9. t.state = "ERROR" => Kept(t, f, e)
  BY <1>1, <1>2, <1>3 DEF Kept
<1>10. Operation(t, f) = Operation(s, f) /\ (Active(t) <=> Active(s))
  BY <1>3 DEF Operation, SwapOperation, Active
<1>11. Settled(t, f, e)
  BY <1>1, <1>3, <1>4, <1>6, <1>7, <1>8, <1>9 DEF Settled
<1> QED
  BY <1>10, <1>11

-----------------------------------------------------------------------------
(* The actions. *)
LEMMA OwnOperation ==
  ASSUME NEW s \in Machine, NEW f, NEW e, Consistent(s, f, e)
  PROVE  /\ s.flashOp \notin {NoOp, Foreign} =>
              Active(s) /\ s.flashOp = Operation(s, f) /\ s.busy = FALSE
         /\ s.flashOp \notin {NoOp, Foreign} => s.flashOp.kind \in {"erase", "write"}
         /\ Active(s) /\ s.flashOp \in {NoOp, Foreign} => s.busy = TRUE
<1>1. Issued(s, f) /\ Control(s) /\ f \in [Words -> Contents]
  BY DEF Consistent, Settled
<1>2. Active(s) => Operation(s, f).kind \in {"erase", "write"}
  BY <1>1, OperationIsOp
<1>3. NoOp.kind = "none" /\ Foreign.kind = "foreign"
  BY DEF NoOp, Foreign
<1> QED
  BY <1>1, <1>2, <1>3 DEF Issued

LEMMA EventQueue ==
  ASSUME NEW q \in Seq(Events)
  PROVE  /\ Len(q) \in Nat /\ \A k \in 1..Len(q) : q[k] \in Events
         /\ q # <<>> => /\ Len(q) > 0 /\ Head(q) = q[1] /\ Head(q) \in Events
                        /\ Tail(q) \in Seq(Events) /\ Len(Tail(q)) = Len(q) - 1
                        /\ \A k \in 1..Len(Tail(q)) : Tail(q)[k] = q[k + 1]
         /\ Foreigners(q) => ~OwnEnd(q)
<1>1. Len(q) \in Nat /\ \A k \in 1..Len(q) : q[k] \in Events
  BY LenProperties, ElementOfSeq
<1>2. ASSUME q # <<>>
      PROVE  /\ Len(q) > 0 /\ Head(q) = q[1] /\ Head(q) \in Events
             /\ Tail(q) \in Seq(Events) /\ Len(Tail(q)) = Len(q) - 1
             /\ \A k \in 1..Len(Tail(q)) : Tail(q)[k] = q[k + 1]
  BY <1>1, <1>2, HeadTailProperties, EmptySeq
<1>3. Foreigners(q) => ~OwnEnd(q)
  BY <1>1, <1>2 DEF Foreigners, OwnEnd
<1> QED
  BY <1>1, <1>2, <1>3

(* No request was overtaken in a step: one that was accepted has no event  *)
(* before its own.                                                         *)
LEMMA NoneOvertaken ==
  ASSUME NEW r \in Machine, NEW s, NEW f, NEW e, NEW q \in Seq(Events), Consistent(r, f, e),
         s.flashOp \in {NoOp, Foreign}, Awaits(r, s), Foreigners(q),
         ~ (/\ s.flashOp = NoOp /\ r.flashOp.kind \in {"erase", "write"}
            /\ \E k \in 1..Len(q) : ~q[k].own)
  PROVE  Agree(r, f, e, q)
<1>1. ~OwnEnd(q)
  BY EventQueue
<1>2. ASSUME r.flashOp \notin {NoOp, Foreign} PROVE q = <<>>
  <2>1. r.flashOp.kind \in {"erase", "write"}
    BY <1>2, OwnOperation
  <2>2. s.flashOp = NoOp
    BY <1>2 DEF Awaits
  <2>3. \A k \in 1..Len(q) : q[k].own
    BY <2>1, <2>2
  <2>4. ~ (1 \in 1..Len(q))
    BY <2>3 DEF Foreigners
  <2>5. Len(q) \in Nat
    BY EventQueue
  <2>6. Len(q) = 0
    BY <2>4, <2>5
  <2> QED
    BY <2>6, EmptySeq
<1> QED
  BY <1>1, <1>2 DEF Agree

LEMMA InitInvariant == Init => PInv
<1> SUFFICES ASSUME Init PROVE PInv
  OBVIOUS
<1>1. /\ m \in Machine /\ m.state = "IDLE" /\ m.cmds = <<>> /\ m.page = 0 /\ m.head = 0 /\ m.tail = 0
      /\ m.retries = 0 /\ m.busy = FALSE /\ m.flashOp = NoOp
  <2>1. <<>> \in Seq(Commands)
    BY EmptySeq
  <2> QED
    BY <2>1, IdleOps DEF Init, Machine, States, Subs
<1>2. flash = [w \in Words |-> IF w < AreaEnd THEN Value(w, 0) ELSE Erased]
  BY DEF Init
<1>3. flash \in [Words -> Contents]
  <2>1. \A w \in Words : Value(w, 0) \in Contents
    <3>1. 0 * Swap = 0
      BY Sizes
    <3>2. \A w \in Words : w \in Nat
      BY WordSets
    <3> QED
      BY <3>1, <3>2 DEF Value, Contents, Erased
  <2>2. Erased \in Contents
    BY DEF Erased, Contents
  <2> QED
    BY <1>2, <2>1, <2>2
<1>4. /\ expected = [w \in Data |-> flash[w]] /\ accepted = 0 /\ failures = 0
  BY DEF Init
<1>5. expected \in [Data -> Contents] /\ \A w \in Data : expected[w] = flash[w]
  BY <1>3, <1>4, WordSets
<1>6. Beyond(flash) /\ Beyond(expected)
  <2>1. \A w \in Data : w \in Words /\ w \in Nat /\ AreaEnd \in Nat
    BY WordSets, Sizes
  <2> QED
    BY <1>2, <1>5, <2>1 DEF Beyond
<1>7. Control(m)
  BY <1>1, Sizes DEF Control
<1>8. Holds(m, flash, expected)
  BY <1>1, <1>5 DEF Holds, Intact
<1>9. Issued(m, flash)
  BY <1>1 DEF Issued, Active
<1>10. Len(m.cmds) = 0 /\ Ready(m.cmds, expected)
  <2>1. Len(m.cmds) = 0
    BY <1>1, EmptySeq
  <2> QED
    BY <2>1 DEF Ready
<1>11. Consistent(m, flash, expected)
  <2>1. Len(m.cmds) <= PSTORAGE_CMD_QUEUE_SIZE
    BY <1>10, Sizes
  <2> QED
    BY <1>1, <1>3, <1>5, <1>6, <1>7, <1>8, <1>9, <1>10, <2>1 DEF Consistent, Settled
<1>12. Tries(m, failures) /\ accepted \in Nat
  BY <1>1, <1>4, Sizes DEF Tries
<1>13. ends = <<>> /\ ends \in Seq(Events) /\ overtaken = FALSE
  BY EmptySeq DEF Init
<1>14. Agree(m, flash, expected, ends)
  <2>1. Len(ends) = 0 /\ ~OwnEnd(ends)
    BY <1>13, EmptySeq DEF OwnEnd
  <2> QED
    BY <1>11, <1>13, <2>1 DEF Agree, Foreigners
<1>15. Coherent(m) /\ ~Active(m)
  <2>1. Len(m.cmds) <= PSTORAGE_CMD_QUEUE_SIZE
    BY <1>10, Sizes
  <2> QED
    BY <1>1, <1>7, <2>1, MachineShaped, Sizes DEF Coherent, Active
<1> QED
  BY <1>12, <1>13, <1>14, <1>15 DEF PInv

LEMMA CommandOf ==
  ASSUME NEW r \in Requests, accepted \in Nat
  PROVE  /\ Command(r) \in Commands /\ Command(r).op = r.op
         /\ Covered(Command(r)) = Covered(r)
<1>1. Valid(r)
  BY ValidRequests
<1>2. /\ Command(r).op = r.op /\ Command(r).block = r.block /\ Command(r).size = r.size
      /\ Command(r).offset = r.offset
  BY DEF Command
<1>3. Valid(Command(r))
  BY <1>1, <1>2 DEF Valid
<1>4. Command(r) \in [op : {"store", "update", "clear"}, block : Nat, size : Nat, offset : Nat, id : Nat]
  BY <1>1 DEF Command, Valid
<1>5. Covered(Command(r)) = Covered(r)
  BY <1>2 DEF Covered
<1> QED
  BY <1>2, <1>3, <1>4, <1>5 DEF Commands

LEMMA AskStep ==
  ASSUME NEW r \in Requests, PInv, Ask(r)
  PROVE  PInv'
<1> DEFINE c == Command(r)
           t == Queued(m, c)
<1>1. /\ Coherent(m) /\ accepted \in Nat /\ overtaken \in BOOLEAN /\ ends \in Seq(Events) /\ Shaped(m)
      /\ Active(m) => m.flashOp # NoOp \/ ends # <<>>
      /\ overtaken = FALSE => Agree(m, flash, expected, ends) /\ Tries(m, failures)
  BY DEF PInv, Coherent
<1>2. c \in Commands /\ c.op = r.op /\ Covered(c) = Covered(r)
  BY <1>1, CommandOf
<1>3. /\ Len(m.cmds) < PSTORAGE_CMD_QUEUE_SIZE
      /\ overtaken = FALSE /\ c.op = "store" =>
           \A w \in Covered(c) : ErasedBefore(m.cmds, expected, w, Len(m.cmds) + 1)
  BY <1>2 DEF Ask, MayAsk
<1>4. /\ m' = IF t.state = "IDLE" THEN Process(t, flash) ELSE t
      /\ accepted' = accepted + 1 /\ overtaken' = (overtaken \/ Overtaken(m', ends))
      /\ flash' = flash /\ expected' = expected /\ failures' = failures /\ ends' = ends
  BY DEF Ask, Queued
<1> HIDE DEF c
<1>6. t = Queued(m, c)
  OBVIOUS
<1> HIDE DEF t
<1>5. /\ Shaped(t) /\ t.cmds # <<>> /\ Len(t.cmds) <= PSTORAGE_CMD_QUEUE_SIZE
      /\ t.cmds = Append(m.cmds, c) /\ t.state = m.state /\ t.head = m.head /\ t.tail = m.tail
      /\ t.page = m.page /\ t.retries = m.retries /\ t.busy = m.busy /\ t.flashOp = m.flashOp
  BY <1>1, <1>2, <1>3, <1>6, QueuedFields
<1>7. accepted' \in Nat /\ overtaken' \in BOOLEAN /\ ends' \in Seq(Events)
  BY <1>1, <1>4
<1>8. CASE m.state = "IDLE"
  <2>1. m' = Process(t, flash)
    BY <1>4, <1>5, <1>8
  <2>2. /\ t.page \in 0..NumPages /\ t.head < PageWords /\ t.tail < PageWords
        /\ t.retries < SD_CMD_MAX_TRIES
    BY <1>1, <1>5, <1>8 DEF Coherent, Control
  <2>3. Coherent(m') /\ Awaits(m', m)
    BY <1>5, <2>1, <2>2, ProcessCoherent DEF Awaits
  <2>4. ASSUME overtaken' = FALSE
        PROVE  Agree(m', flash, expected, ends) /\ Tries(m', failures)
    <3>1. Agree(m, flash, expected, ends) /\ Tries(m, failures) /\ ~Overtaken(m', ends)
      BY <1>1, <1>4, <2>4
    <3>2. Foreigners(ends) /\ Consistent(m, flash, expected)
      BY <1>8, <3>1 DEF Agree, Waits, Active
    <3>3. /\ m \in Machine /\ flash \in [Words -> Contents] /\ expected \in [Data -> Contents]
          /\ Beyond(flash) /\ Beyond(expected) /\ Intact(flash, expected, 0)
          /\ m.flashOp \in {NoOp, Foreign} /\ m.busy = FALSE /\ Ready(m.cmds, expected)
      BY <1>8, <3>2 DEF Consistent, Settled, Holds, Issued, Active
    <3>4. t \in Machine /\ Ready(t.cmds, expected)
      <4> DEFINE q == Append(m.cmds, c)
      <4>1. m.cmds \in Seq(Commands)
        BY <1>1, ShapedFields
      <4>2. q \in Seq(Commands) /\ t = [m EXCEPT !.cmds = q]
        BY <1>2, <1>6, <4>1, AppendProperties DEF Queued
      <4>3. Ready(q, expected)
        BY <1>1, <1>2, <1>3, <1>4, <2>4, <3>3, <4>1, ReadyAppend
      <4>4. t.cmds = q
        BY <1>5
      <4> HIDE DEF q
      <4> QED
        BY <3>3, <4>2, <4>3, <4>4 DEF Machine
    <3>5. Clean(t)
      BY <1>5, <2>2, <3>3, <3>4 DEF Clean
    <3>6. Goes(m', t, flash, expected)
      BY <2>1, <3>3, <3>4, <3>5, ProcessGoes
    <3>7. t.retries < SD_CMD_MAX_TRIES /\ failures = t.retries
      BY <1>5, <1>8, <3>1 DEF Tries
    <3>8. Consistent(m', flash, expected) /\ Tries(m', failures) /\ m' \in Machine
      BY <1>5, <3>3, <3>4, <3>6, <3>7, GoesConsistent DEF Goes
    <3>9. Agree(m', flash, expected, ends)
      BY <1>1, <2>3, <3>1, <3>2, <3>3, <3>8, NoneOvertaken DEF Overtaken
    <3> QED
      BY <3>8, <3>9
  <2>5. Active(m') => m'.flashOp # NoOp
    BY <2>3 DEF Awaits
  <2> QED
    BY <1>4, <1>7, <2>3, <2>4, <2>5 DEF PInv
<1>9. CASE m.state # "IDLE"
  <2>1. m' = t
    BY <1>4, <1>5, <1>9
  <2>2. Coherent(t)
    BY <1>1, <1>2, <1>3, <1>6, <1>9, QueuedCoherent
  <2>3. Active(t) <=> Active(m)
    BY <1>5 DEF Active
  <2>4. ASSUME overtaken' = FALSE
        PROVE  Agree(t, flash, expected, ends) /\ Tries(t, failures)
    <3>1. Agree(m, flash, expected, ends) /\ Tries(m, failures) /\ overtaken = FALSE
      BY <1>1, <1>4, <2>4
    <3>2. \A g : Settled(m, g, expected) => Settled(t, g, expected) /\ Operation(t, g) = Operation(m, g)
      <4> SUFFICES ASSUME NEW g, Settled(m, g, expected)
                   PROVE  Settled(t, g, expected) /\ Operation(t, g) = Operation(m, g)
        OBVIOUS
      <4>1. m \in Machine
        BY DEF Settled
      <4> QED
        BY <1>2, <1>3, <1>6, <1>9, <3>1, <4>1, QueuedSettled
    <3>3. Tries(t, failures)
      BY <1>5, <3>1 DEF Tries
    <3>4. CASE OwnEnd(ends)
      <4>1. Foreigners(Tail(ends)) /\ Waits(m, flash, expected, Head(ends).ok)
        BY <3>1, <3>4 DEF Agree
      <4>2. Waits(t, flash, expected, Head(ends).ok)
        BY <1>5, <2>3, <3>2, <4>1 DEF Waits
      <4> QED
        BY <3>3, <3>4, <4>1, <4>2 DEF Agree
    <3>5. CASE ~OwnEnd(ends)
      <4>1. /\ Foreigners(ends) /\ Consistent(m, flash, expected)
            /\ m.flashOp \notin {NoOp, Foreign} => ends = <<>>
        BY <3>1, <3>5 DEF Agree
      <4>2. Issued(t, flash)
        BY <1>5, <2>3, <3>2, <4>1 DEF Consistent, Issued
      <4>3. Consistent(t, flash, expected)
        BY <3>2, <4>1, <4>2 DEF Consistent
      <4> QED
        BY <1>5, <3>3, <3>5, <4>1, <4>3 DEF Agree
    <3> QED
      BY <3>4, <3>5
  <2> QED
    BY <1>1, <1>4, <1>5, <1>7, <2>1, <2>2, <2>3, <2>4 DEF PInv
<1> QED
  BY <1>8, <1>9

(* The operation under way changes, and nothing else. *)
LEMMA OtherOperation ==
  ASSUME NEW s, NEW t, NEW op, t = [s EXCEPT !.flashOp = op], Coherent(s)
  PROVE  Coherent(t) /\ Alike(t, s) /\ t.flashOp = op /\ t.busy = s.busy /\ (Active(t) <=> Active(s))
<1>1. Shaped(t) /\ Alike(t, s) /\ t.flashOp = op /\ t.busy = s.busy /\ Shaped(s)
  BY DEF Coherent, Shaped, Alike
<1>2. Twins(t, s)
  BY <1>1 DEF Twins
<1>3. Control(t)
  BY <1>2, ControlTwins DEF Coherent
<1>4. Active(t) <=> Active(s)
  BY <1>2, SameTests
<1>5. Coherent(t)
  BY <1>1, <1>2, <1>3, SameTests DEF Coherent
<1> QED
  BY <1>1, <1>4, <1>5

LEMMA BeginStep ==
  ASSUME PInv, OtherBegins
  PROVE  PInv'
<1>1. /\ Coherent(m) /\ accepted \in Nat /\ overtaken \in BOOLEAN /\ ends \in Seq(Events)
      /\ Active(m) => m.flashOp # NoOp \/ ends # <<>>
      /\ overtaken = FALSE => Agree(m, flash, expected, ends) /\ Tries(m, failures)
  BY DEF PInv
<1>2. /\ m' = [m EXCEPT !.flashOp = Foreign] /\ m.flashOp = NoOp
      /\ failures' = failures /\ flash' = flash /\ expected' = expected /\ accepted' = accepted
      /\ ends' = ends /\ overtaken' = overtaken
  BY DEF OtherBegins
<1>3. /\ Coherent(m') /\ Alike(m', m) /\ m'.flashOp = Foreign /\ m'.busy = m.busy
      /\ Active(m') <=> Active(m)
  BY <1>1, <1>2, OtherOperation
<1>4. Foreign # NoOp
  BY DEF Foreign, NoOp
<1>5. ASSUME overtaken = FALSE
      PROVE  Agree(m', flash, expected, ends) /\ Tries(m', failures)
  <2>1. Agree(m, flash, expected, ends) /\ Tries(m, failures)
    BY <1>1, <1>5
  <2>2. ASSUME NEW g, Settled(m, g, expected)
        PROVE  Settled(m', g, expected) /\ Operation(m', g) = Operation(m, g) /\ m \in Machine
    <3>1. m \in Machine
      BY <2>2 DEF Settled
    <3>2. m' \in Machine
      BY <1>2, <3>1, IdleOps DEF Machine
    <3> QED
      BY <1>3, <2>2, <3>1, <3>2, SettledTwins
  <2>3. Tries(m', failures)
    BY <1>3, <2>1 DEF Tries, Alike
  <2>4. CASE OwnEnd(ends)
    <3>1. Foreigners(Tail(ends)) /\ Waits(m, flash, expected, Head(ends).ok)
      BY <2>1, <2>4 DEF Agree
    <3>2. Waits(m', flash, expected, Head(ends).ok)
      BY <1>3, <2>2, <3>1 DEF Waits
    <3> QED
      BY <2>3, <2>4, <3>1, <3>2 DEF Agree
  <2>5. CASE ~OwnEnd(ends)
    <3>1. Foreigners(ends) /\ Settled(m, flash, expected) /\ Issued(m, flash)
      BY <2>1, <2>5 DEF Agree, Consistent
    <3>2. Active(m) => m.busy = TRUE
      BY <1>2, <2>2, <3>1, OwnOperation DEF Consistent
    <3>3. Issued(m', flash)
      BY <1>3, <3>1, <3>2 DEF Issued
    <3>4. Consistent(m', flash, expected)
      BY <2>2, <3>1, <3>3 DEF Consistent
    <3> QED
      BY <1>3, <2>3, <2>5, <3>1, <3>4 DEF Agree
  <2> QED
    BY <2>4, <2>5
<1> QED
  BY <1>1, <1>2, <1>3, <1>4, <1>5 DEF PInv

(* An event is added to the others. *)
LEMMA EventAdded ==
  ASSUME NEW q \in Seq(Events), NEW x \in Events
  PROVE  /\ Append(q, x) \in Seq(Events) /\ Append(q, x) # <<>>
         /\ q = <<>> => Head(Append(q, x)) = x /\ Tail(Append(q, x)) = <<>>
         /\ q # <<>> => Head(Append(q, x)) = Head(q) /\ Tail(Append(q, x)) = Append(Tail(q), x)
         /\ Foreigners(q) /\ x.own = FALSE => Foreigners(Append(q, x))
<1>1. Append(q, x) \in Seq(Events) /\ Append(q, x) # <<>>
  BY AppendProperties
<1>2. /\ q = <<>> => Head(Append(q, x)) = x /\ Tail(Append(q, x)) = <<>>
      /\ q # <<>> => Head(Append(q, x)) = Head(q) /\ Tail(Append(q, x)) = Append(Tail(q), x)
  BY HeadTailAppend
<1>3. Foreigners(q) /\ x.own = FALSE => Foreigners(Append(q, x))
  <2> DEFINE r == Append(q, x)
  <2>1. /\ Len(r) = Len(q) + 1 /\ Len(q) \in Nat /\ r[Len(q) + 1] = x
        /\ \A n \in 1..Len(q) : r[n] = q[n]
    BY AppendProperties, LenProperties
  <2> HIDE DEF r
  <2>2. \A k \in 1..Len(r) : k \in 1..Len(q) \/ k = Len(q) + 1
    BY <2>1
  <2>3. Foreigners(q) /\ x.own = FALSE => Foreigners(r)
    BY <2>1, <2>2 DEF Foreigners
  <2> QED
    BY <2>3 DEF r
<1> QED
  BY <1>1, <1>2, <1>3

LEMMA EndStep ==
  ASSUME NEW ok \in BOOLEAN, PInv, OperationEnds(ok)
  PROVE  PInv'
<1> DEFINE x == [own |-> m.flashOp # Foreign, ok |-> ok]
<1>1. /\ Coherent(m) /\ accepted \in Nat /\ overtaken \in BOOLEAN /\ ends \in Seq(Events)
      /\ Active(m) => m.flashOp # NoOp \/ ends # <<>>
      /\ overtaken = FALSE => Agree(m, flash, expected, ends) /\ Tries(m, failures)
  BY DEF PInv
<1>2. /\ m' = [m EXCEPT !.flashOp = NoOp] /\ m.flashOp # NoOp /\ ends' = Append(ends, x)
      /\ flash' = IF ok THEN Performed(flash, m.flashOp) ELSE flash
      /\ failures' = failures /\ expected' = expected /\ accepted' = accepted
      /\ overtaken' = overtaken
  BY DEF OperationEnds
<1>3. x \in Events /\ x.ok = ok /\ (x.own <=> m.flashOp # Foreign) /\ x.own \in BOOLEAN
  BY DEF Events
<1> HIDE DEF x
<1>4. /\ Coherent(m') /\ Alike(m', m) /\ m'.flashOp = NoOp /\ m'.busy = m.busy
      /\ Active(m') <=> Active(m)
  BY <1>1, <1>2, OtherOperation
<1>5. ends' \in Seq(Events) /\ ends' # <<>>
  BY <1>1, <1>2, <1>3, EventAdded
<1>6. ASSUME overtaken = FALSE
      PROVE  Agree(m', flash', expected, ends') /\ Tries(m', failures)
  <2>1. Agree(m, flash, expected, ends) /\ Tries(m, failures)
    BY <1>1, <1>6
  <2>2. ASSUME NEW g, Settled(m, g, expected)
        PROVE  Settled(m', g, expected) /\ Operation(m', g) = Operation(m, g) /\ m \in Machine
    <3>1. m \in Machine
      BY <2>2 DEF Settled
    <3>2. m' \in Machine
      BY <1>2, <3>1, IdleOps DEF Machine
    <3> QED
      BY <1>4, <2>2, <3>1, <3>2, SettledTwins
  <2>3. Tries(m', failures)
    BY <1>4, <2>1 DEF Tries, Alike
  <2>4. m.flashOp = Foreign => Performed(flash, m.flashOp) = [w \in Words |-> flash[w]]
    BY DEF Performed, Foreign
  <2>5. CASE OwnEnd(ends)
    <3>1. Foreigners(Tail(ends)) /\ Waits(m, flash, expected, Head(ends).ok) /\ ends # <<>>
      BY <2>1, <2>5 DEF Agree, OwnEnd
    <3>2. m.flashOp = Foreign /\ x.own = FALSE
      BY <1>2, <1>3, <3>1 DEF Waits
    <3>3. PICK g \in [Words -> Contents] :
            /\ Settled(m, g, expected)
            /\ flash = IF Head(ends).ok THEN Performed(g, Operation(m, g)) ELSE g
      BY <3>1 DEF Waits
    <3>4. flash' = flash
      <4>1. flash = [w \in Words |-> flash[w]]
        <5>1. g = [w \in Words |-> g[w]]
          OBVIOUS
        <5>2. CASE Head(ends).ok
          BY <3>3, <5>2 DEF Performed
        <5>3. CASE ~Head(ends).ok
          BY <3>3, <5>1, <5>3
        <5> QED
          BY <5>2, <5>3
      <4> QED
        BY <1>2, <2>4, <3>2, <4>1
    <3>5. /\ Head(ends') = Head(ends) /\ Tail(ends') = Append(Tail(ends), x) /\ Tail(ends) \in Seq(Events)
      BY <1>1, <1>2, <1>3, <3>1, EventAdded, EventQueue
    <3>6. Foreigners(Tail(ends')) /\ OwnEnd(ends')
      BY <1>3, <1>5, <2>5, <3>1, <3>2, <3>5, EventAdded DEF OwnEnd
    <3>7. Waits(m', flash, expected, Head(ends').ok)
      BY <1>4, <2>2, <3>1, <3>5 DEF Waits
    <3> QED
      BY <2>3, <3>4, <3>6, <3>7 DEF Agree
  <2>6. CASE ~OwnEnd(ends)
    <3>1. /\ Foreigners(ends) /\ Settled(m, flash, expected) /\ Issued(m, flash)
          /\ Consistent(m, flash, expected) /\ m \in Machine /\ flash \in [Words -> Contents]
          /\ m.flashOp \notin {NoOp, Foreign} => ends = <<>>
      BY <2>1, <2>6 DEF Agree, Consistent, Settled
    <3>2. CASE m.flashOp = Foreign
      <4>1. x.own = FALSE /\ flash' = flash
        BY <1>2, <1>3, <2>4, <3>1, <3>2
      <4>2. Foreigners(ends')
        BY <1>1, <1>2, <1>3, <3>1, <4>1, EventAdded
      <4>3. ~OwnEnd(ends')
        BY <1>5, <4>2, EventQueue
      <4>4. Active(m) => m.busy = TRUE
        BY <3>1, <3>2, OwnOperation
      <4>5. Issued(m', flash)
        BY <1>4, <3>1, <3>2, <4>4 DEF Issued
      <4>6. Consistent(m', flash, expected)
        BY <2>2, <3>1, <4>5 DEF Consistent
      <4> QED
        BY <1>4, <2>3, <4>1, <4>2, <4>3, <4>6 DEF Agree
    <3>3. CASE m.flashOp # Foreign
      <4>1. Active(m) /\ m.flashOp = Operation(m, flash) /\ m.busy = FALSE /\ ends = <<>> /\ x.own = TRUE
        BY <1>2, <1>3, <3>1, <3>3, OwnOperation
      <4>2. Head(ends') = x /\ Tail(ends') = <<>>
        BY <1>1, <1>2, <1>3, <4>1, EventAdded
      <4>3. OwnEnd(ends') /\ Foreigners(Tail(ends'))
        <5>1. Tail(ends') \in Seq(Events)
          BY <1>5, EventQueue
        <5>2. Len(Tail(ends')) = 0
          BY <4>2, <5>1, EmptySeq
        <5>3. Foreigners(Tail(ends'))
          BY <5>2 DEF Foreigners
        <5>4. OwnEnd(ends')
          BY <1>5, <4>1, <4>2 DEF OwnEnd
        <5> QED
          BY <5>3, <5>4
      <4>4. flash' = IF ok THEN Performed(flash, Operation(m', flash)) ELSE flash
        BY <1>2, <2>2, <3>1, <4>1
      <4>5. Waits(m', flash', expected, ok)
        BY <1>4, <2>2, <3>1, <4>1, <4>4 DEF Waits
      <4> QED
        BY <1>3, <2>3, <4>2, <4>3, <4>5 DEF Agree
    <3> QED
      BY <3>2, <3>3
  <2> QED
    BY <2>5, <2>6
<1> QED
  BY <1>1, <1>2, <1>4, <1>5, <1>6 DEF PInv

(* What the application asks for when it is told of the end of a command.  *)
LEMMA MoreAsked ==
  ASSUME PInv, NEW over,
         NEW more \in {<<>>} \cup {<<Command(r)>> : r \in {q \in Requests : over /\ MayAsk(q)}}
  PROVE  /\ more \in Seq(Commands) /\ Len(more) \in Nat
         /\ Len(m.cmds \o more) <= PSTORAGE_CMD_QUEUE_SIZE
         /\ overtaken = FALSE /\ Ready(m.cmds, expected) => Ready(m.cmds \o more, expected)
<1>1. m.cmds \in Seq(Commands) /\ Len(m.cmds) <= PSTORAGE_CMD_QUEUE_SIZE /\ accepted \in Nat
  BY ShapedFields DEF PInv, Coherent
<1>2. CASE more = <<>>
  BY <1>1, <1>2, EmptySeq, ConcatEmptySeq
<1>3. CASE more # <<>>
  <2>1. PICK r \in Requests : more = <<Command(r)>> /\ MayAsk(r) /\ over
    BY <1>3
  <2> DEFINE d == Command(r)
  <2>2. d \in Commands /\ d.op = r.op /\ Covered(d) = Covered(r)
    BY <1>1, CommandOf
  <2>3. /\ Len(m.cmds) < PSTORAGE_CMD_QUEUE_SIZE
        /\ overtaken = FALSE /\ d.op = "store" =>
             \A w \in Covered(d) : ErasedBefore(m.cmds, expected, w, Len(m.cmds) + 1)
    BY <2>1, <2>2 DEF MayAsk
  <2>4. more = <<d>>
    BY <2>1
  <2> HIDE DEF d
  <2>5. m.cmds \o more = Append(m.cmds, d)
    BY <1>1, <2>2, <2>4, AppendIsConcat
  <2>6. overtaken = FALSE /\ Ready(m.cmds, expected) => Ready(Append(m.cmds, d), expected)
    BY <1>1, <2>2, <2>3, ReadyAppend
  <2>7. Len(Append(m.cmds, d)) = Len(m.cmds) + 1 /\ Len(m.cmds) \in Nat
    BY <1>1, <2>2, AppendProperties, LenProperties
  <2>8. more \in Seq(Commands) /\ Len(more) = 1
    BY <2>2, <2>4
  <2>9. Len(m.cmds \o more) <= PSTORAGE_CMD_QUEUE_SIZE
    BY <2>3, <2>5, <2>7, Sizes
  <2>10. overtaken = FALSE /\ Ready(m.cmds, expected) => Ready(m.cmds \o more, expected)
    BY <2>5, <2>6
  <2> QED
    BY <2>8, <2>9, <2>10
<1> QED
  BY <1>2, <1>3

(* An event is handled; as long as no request was overtaken, for what it is. *)
LEMMA PullStep ==
  ASSUME PInv, PullEnd
  PROVE  /\ PInv'
         /\ notified' # notified /\ ~overtaken => \A w \in Data : flash'[w] = expected'[w]
<1> DEFINE ok == Head(ends).ok
           over == EndsCommand(m, flash, ok)
           c == Current(m)
<1>1. /\ Coherent(m) /\ Shaped(m) /\ accepted \in Nat /\ overtaken \in BOOLEAN /\ ends \in Seq(Events)
      /\ overtaken = FALSE => Agree(m, flash, expected, ends) /\ Tries(m, failures)
      /\ Working(m) <=> Active(m)
  BY WorkingIsActive DEF PInv, Coherent
<1>2. /\ ends # <<>> /\ ends' = Tail(ends) /\ flash' = flash
      /\ overtaken' = (overtaken \/ Overtaken(m', ends'))
      /\ expected' = IF over THEN Promise(expected, c) ELSE expected
      /\ notified' = IF over THEN notified + 1 ELSE notified
      /\ failures' = IF over THEN 0 ELSE IF Head(ends).own /\ ~ok THEN failures + 1 ELSE failures
  BY DEF PullEnd
<1>3. PICK more \in {<<>>} \cup {<<Command(r)>> : r \in {q \in Requests : over /\ MayAsk(q)}} :
        m' = Handled(m, flash, ok, more) /\ accepted' = accepted + Len(more)
  BY DEF PullEnd
<1>4. /\ Head(ends) \in Events /\ ends' \in Seq(Events) /\ Len(ends) > 0 /\ Head(ends) = ends[1]
      /\ Len(ends) \in Nat /\ Len(ends') = Len(ends) - 1
      /\ \A k \in 1..Len(ends') : ends'[k] = ends[k + 1]
  BY <1>1, <1>2, EventQueue
<1>5. ok \in BOOLEAN /\ Head(ends).own \in BOOLEAN
  BY <1>4 DEF Events
<1>6. over <=> /\ Working(m) /\ ~WaitsForOther(m) /\ ok
               /\ Len(AfterOperation(m, flash, <<>>).cmds) < Len(m.cmds)
  BY DEF EndsCommand
<1> HIDE DEF over
<1>7. /\ more \in Seq(Commands) /\ Len(more) \in Nat
      /\ Len(m.cmds \o more) <= PSTORAGE_CMD_QUEUE_SIZE
      /\ overtaken = FALSE /\ Ready(m.cmds, expected) => Ready(m.cmds \o more, expected)
  BY <1>3, MoreAsked
<1> HIDE DEF ok, c
<1>8. Coherent(m') /\ Awaits(m', m)
  BY <1>1, <1>3, <1>5, <1>7, HandledCoherent
<1>9. ASSUME overtaken = FALSE
      PROVE  /\ Consistent(m', flash, expected') /\ Tries(m', failures')
             /\ m.flashOp \in {NoOp, Foreign} /\ Foreigners(ends')
             /\ over => Intact(flash, expected', 0)
  <2>1. Agree(m, flash, expected, ends) /\ Tries(m, failures)
    BY <1>1, <1>9
  <2>2. CASE OwnEnd(ends)
    <3>1. /\ Foreigners(ends') /\ Waits(m, flash, expected, ok) /\ Head(ends).own = TRUE
      BY <1>2, <2>1, <2>2 DEF Agree, OwnEnd, ok
    <3>2. Active(m) /\ m.busy = FALSE /\ m.flashOp \in {NoOp, Foreign}
      BY <3>1 DEF Waits
    <3>3. m \in Machine /\ Ready(m.cmds, expected)
      BY <3>1 DEF Waits, Settled
    <3>4. CASE ok = TRUE
      <4>1. m' = AfterOperation(m, flash, more)
        BY <1>1, <1>3, <3>2, <3>4 DEF Handled, WaitsForOther
      <4>2. over <=> Len(AfterOperation(m, flash, <<>>).cmds) < Len(m.cmds)
        BY <1>1, <1>6, <3>2, <3>4 DEF WaitsForOther
      <4>3. IF over THEN /\ Consistent(m', flash, Promise(expected, c)) /\ Tries(m', 0)
                         /\ Intact(flash, Promise(expected, c), 0)
                    ELSE Consistent(m', flash, expected) /\ Tries(m', failures)
        BY <1>7, <1>9, <2>1, <3>1, <3>3, <3>4, <4>1, <4>2, EndedWell DEF c
      <4>4. CASE over
        BY <1>2, <3>1, <3>2, <4>3, <4>4
      <4>5. CASE ~over
        BY <1>2, <3>1, <3>2, <3>4, <4>3, <4>5
      <4> QED
        BY <4>4, <4>5
    <3>5. CASE ok = FALSE
      <4>1. m' = AfterFailure(m, flash) /\ ~over
        BY <1>1, <1>3, <1>6, <3>2, <3>5 DEF Handled, WaitsForOther
      <4>2. expected' = expected /\ failures' = failures + 1
        BY <1>2, <3>1, <3>5, <4>1
      <4>3. Consistent(m', flash, expected) /\ Tries(m', failures + 1)
        BY <2>1, <3>1, <3>3, <3>5, <4>1, EndedBadly
      <4> QED
        BY <3>1, <3>2, <4>1, <4>2, <4>3
    <3> QED
      BY <1>5, <3>4, <3>5
  <2>3. CASE ~OwnEnd(ends)
    <3>1. /\ Foreigners(ends) /\ Consistent(m, flash, expected) /\ m.flashOp \in {NoOp, Foreign}
      BY <1>2, <2>1, <2>3 DEF Agree
    <3>2. Foreigners(ends') /\ Head(ends).own = FALSE
      <4>1. \A k \in 1..Len(ends') : k + 1 \in 1..Len(ends)
        BY <1>4
      <4>2. 1 \in 1..Len(ends)
        BY <1>4
      <4> QED
        BY <1>4, <3>1, <4>1, <4>2 DEF Foreigners
    <3>3. m \in Machine
      BY <3>1 DEF Consistent, Settled
    <3>4. Active(m) => m.busy = TRUE
      BY <3>1, <3>3, OwnOperation
    <3>5. ~over
      BY <1>1, <1>6, <3>4 DEF WaitsForOther
    <3>6. expected' = expected /\ failures' = failures
      BY <1>2, <3>2, <3>5
    <3>7. CASE ~Active(m)
      <4>1. m' = m
        BY <1>1, <1>3, <3>7 DEF Handled
      <4>2. Consistent(m', flash, expected') /\ Tries(m', failures')
        BY <2>1, <3>1, <3>6, <4>1
      <4> QED
        BY <3>1, <3>2, <3>5, <4>2
    <3>8. CASE Active(m)
      <4>1. m' = Enter([m EXCEPT !.busy = FALSE], flash)
        BY <1>1, <1>3, <3>4, <3>8 DEF Handled, WaitsForOther
      <4>2. Consistent(m', flash, expected) /\ Tries(m', failures)
        BY <2>1, <3>1, <3>3, <3>4, <3>8, <4>1, OtherEnded
      <4> QED
        BY <3>1, <3>2, <3>5, <3>6, <4>2
    <3> QED
      BY <3>7, <3>8
  <2> QED
    BY <2>2, <2>3
<1>10. ASSUME overtaken' = FALSE
       PROVE  Agree(m', flash', expected', ends') /\ Tries(m', failures')
  <2>1. overtaken = FALSE /\ ~Overtaken(m', ends')
    BY <1>1, <1>2, <1>10
  <2>2. /\ Consistent(m', flash, expected') /\ Tries(m', failures')
        /\ m.flashOp \in {NoOp, Foreign} /\ Foreigners(ends')
    BY <1>9, <2>1
  <2>3. m' \in Machine
    BY <2>2 DEF Consistent, Settled
  <2>4. Agree(m', flash, expected', ends')
    BY <1>4, <1>8, <2>1, <2>2, <2>3, NoneOvertaken DEF Overtaken
  <2> QED
    BY <1>2, <2>2, <2>4
<1>11. /\ accepted' \in Nat /\ overtaken' \in BOOLEAN
       /\ Active(m') => m'.flashOp # NoOp \/ ends' # <<>>
  BY <1>1, <1>2, <1>3, <1>7, <1>8 DEF Awaits
<1>12. PInv'
  BY <1>4, <1>8, <1>10, <1>11 DEF PInv
<1>13. ASSUME notified' # notified, overtaken = FALSE
       PROVE  \A w \in Data : flash'[w] = expected'[w]
  <2>1. Intact(flash, expected', 0)
    BY <1>2, <1>9, <1>13
  <2> QED
    BY <1>2, <2>1, WordSets DEF Intact
<1> QED
  BY <1>1, <1>12, <1>13

LEMMA RecoverStep ==
  ASSUME PInv, Recover
  PROVE  PInv'
<1>1. /\ Coherent(m) /\ Shaped(m) /\ Control(m) /\ accepted \in Nat /\ overtaken \in BOOLEAN
      /\ ends \in Seq(Events)
      /\ overtaken = FALSE => Agree(m, flash, expected, ends) /\ Tries(m, failures)
  BY DEF PInv, Coherent
<1>2. /\ m' = Reset(m) /\ m.state = "ERROR" /\ expected' = [w \in Data |-> flash[w]] /\ failures' = 0
      /\ flash' = flash /\ accepted' = accepted /\ ends' = ends /\ overtaken' = overtaken
  BY DEF Recover
<1>3. /\ Shaped(m') /\ m'.state = "IDLE" /\ m'.cmds = <<>> /\ m'.page = 0 /\ m'.retries = 0
      /\ m'.busy = FALSE /\ m'.head = m.head /\ m'.tail = m.tail /\ m'.flashOp = m.flashOp
  <2>1. <<>> \in Seq(Commands)
    BY EmptySeq
  <2> DEFINE none == <<>>
             t == [m EXCEPT !.cmds = none]
             u == [t EXCEPT !.state = "IDLE"]
             zero == 0
             v == [u EXCEPT !.page = zero, !.retries = zero]
  <2>2. none \in Seq(Commands) /\ "IDLE" \in States
    BY <2>1 DEF States
  <2>3. m' = [v EXCEPT !.busy = FALSE, !.tailDone = FALSE, !.single = FALSE]
    BY <1>1, <1>2 DEF Reset, Shaped
  <2>4. zero \in Nat /\ zero \in Int
    OBVIOUS
  <2> HIDE DEF none, zero
  <2>5. Shaped(t) /\ t.cmds = none /\ t.head = m.head /\ t.tail = m.tail /\ t.flashOp = m.flashOp
    BY <1>1, <2>2 DEF Shaped
  <2> HIDE DEF t
  <2>6. /\ Shaped(u) /\ u.cmds = none /\ u.head = m.head /\ u.tail = m.tail /\ u.flashOp = m.flashOp
        /\ u.state = "IDLE"
    BY <2>2, <2>5 DEF Shaped
  <2> HIDE DEF u
  <2>7. /\ Shaped(v) /\ v.cmds = none /\ v.head = m.head /\ v.tail = m.tail /\ v.flashOp = m.flashOp
        /\ v.state = "IDLE" /\ v.page = zero /\ v.retries = zero
    BY <2>4, <2>6 DEF Shaped
  <2> HIDE DEF v
  <2>8. /\ Shaped(m') /\ m'.cmds = none /\ m'.head = m.head /\ m'.tail = m.tail
        /\ m'.flashOp = m.flashOp /\ m'.state = "IDLE" /\ m'.page = zero /\ m'.retries = zero /\ m'.busy = FALSE
    BY <2>3, <2>7 DEF Shaped
  <2> QED
    BY <2>8 DEF none, zero
<1>4. Control(m')
  BY <1>1, <1>3, Sizes DEF Control, Coherent
<1>5. Len(m'.cmds) = 0 /\ ~Active(m')
  <2>1. Len(m'.cmds) = 0
    BY <1>3, EmptySeq
  <2> QED
    BY <1>3, <2>1 DEF Active
<1>6. Coherent(m')
  BY <1>3, <1>4, <1>5, Sizes DEF Coherent
<1>7. ASSUME overtaken = FALSE
      PROVE  Agree(m', flash, expected', ends) /\ Tries(m', 0)
  <2>1. /\ Agree(m, flash, expected, ends) /\ ~Active(m)
    BY <1>1, <1>2, <1>7 DEF Active
  <2>2. ~OwnEnd(ends) /\ Foreigners(ends) /\ Consistent(m, flash, expected)
    BY <2>1 DEF Agree, Waits
  <2>3. /\ m \in Machine /\ flash \in [Words -> Contents] /\ Beyond(flash)
        /\ m.flashOp \in {NoOp, Foreign}
    BY <2>1, <2>2 DEF Consistent, Settled, Issued
  <2>4. m' \in Machine
    <3>1. m'.flashOp \in FlashOps
      BY <1>3, <2>3, MachineFields
    <3> QED
      BY <1>3, <3>1 DEF Shaped, Machine
  <2>5. expected' \in [Data -> Contents] /\ \A w \in Data : expected'[w] = flash[w]
    BY <1>2, <2>3, WordSets
  <2>6. Beyond(expected')
    BY <2>3, <2>5 DEF Beyond
  <2>7. Holds(m', flash, expected')
    BY <1>3, <2>5 DEF Holds, Intact
  <2>8. Issued(m', flash)
    BY <1>3, <1>5, <2>3 DEF Issued
  <2>9. Ready(m'.cmds, expected')
    BY <1>5 DEF Ready
  <2>10. Consistent(m', flash, expected')
    BY <1>3, <1>6, <2>3, <2>4, <2>5, <2>6, <2>7, <2>8, <2>9 DEF Consistent, Settled, Coherent
  <2>11. Tries(m', 0)
    BY <1>3, Sizes DEF Tries
  <2> QED
    BY <1>3, <2>2, <2>3, <2>10, <2>11 DEF Agree
<1> QED
  BY <1>1, <1>2, <1>5, <1>6, <1>7 DEF PInv

(* What holds of flash as long as no request was overtaken. *)
LEMMA Agreed ==
  ASSUME PInv, overtaken = FALSE
  PROVE  flash \in [Words -> Contents] /\ Kept(m, flash, expected)
<1>1. Agree(m, flash, expected, ends) /\ ends \in Seq(Events)
  BY DEF PInv
<1>2. CASE OwnEnd(ends)
  <2>1. Waits(m, flash, expected, Head(ends).ok) /\ Head(ends).ok \in BOOLEAN
    <3>1. Head(ends) \in Events
      BY <1>1, <1>2, EventQueue DEF OwnEnd
    <3> QED
      BY <1>1, <1>2, <3>1 DEF Agree, Events
  <2>2. m \in Machine
    BY <2>1 DEF Waits, Settled
  <2> HIDE DEF Waits
  <2> QED
    BY <2>1, <2>2, WaitsKept
<1>3. CASE ~OwnEnd(ends)
  <2>1. Settled(m, flash, expected)
    BY <1>1, <1>3 DEF Agree, Consistent
  <2>2. /\ m \in Machine /\ Control(m) /\ Holds(m, flash, expected) /\ Beyond(expected)
        /\ flash \in [Words -> Contents] /\ (m.state = "ERROR" => Kept(m, flash, expected))
    BY <2>1 DEF Settled
  <2>3. Kept(m, flash, expected)
    BY <2>2, AtWorkKept
  <2> QED
    BY <2>2, <2>3
<1> QED
  BY <1>2, <1>3

LEMMA Step ==
  ASSUME PInv, [Next]_vars
  PROVE  /\ PInv'
         /\ notified' # notified /\ ~overtaken => \A w \in Data : flash'[w] = expected'[w]
<1>1. ASSUME NEW r \in Requests, Ask(r)
      PROVE  PInv' /\ notified' = notified
  <2>1. PInv'
    BY <1>1, AskStep
  <2> QED
    BY <1>1, <2>1 DEF Ask
<1>2. CASE OtherBegins
  <2>1. PInv'
    BY <1>2, BeginStep
  <2> QED
    BY <1>2, <2>1 DEF OtherBegins
<1>3. ASSUME NEW ok \in BOOLEAN, OperationEnds(ok)
      PROVE  PInv' /\ notified' = notified
  <2>1. PInv'
    BY <1>3, EndStep
  <2> QED
    BY <1>3, <2>1 DEF OperationEnds
<1>4. CASE PullEnd
  BY <1>4, PullStep
<1>5. CASE Recover
  <2>1. PInv'
    BY <1>5, RecoverStep
  <2> QED
    BY <1>5, <2>1 DEF Recover
<1>6. CASE UNCHANGED vars
  BY <1>6 DEF vars, PInv
<1> QED
  BY <1>1, <1>2, <1>3, <1>4, <1>5, <1>6 DEF Next

-----------------------------------------------------------------------------
(* The queue, the state machine and the flash agree at every step, as long *)
(* as no request was overtaken by the event of another's operation: the    *)
(* invariant of pstorage.c's event handler that its guards rely on.  The   *)
(* queue and the state machine alone agree even then.                      *)
THEOREM PstorageKept == Spec => []PInv
<1>1. PInv /\ [Next]_vars => PInv'
  BY Step
<1> QED
  BY InitInvariant, <1>1, PTL DEF Spec

(* The variables of pstorage.c stay in their ranges whosever events its    *)
(* handler takes for its own: the page counter never passes the last data  *)
(* page, the command queue never holds more than PSTORAGE_CMD_QUEUE_SIZE.  *)
(* A word of flash is programmed over another value, without an erase      *)
(* between, only after such an event overtook a request.                   *)
THEOREM MachineTyped == Spec => []TypeOK
<1>1. PInv => TypeOK
  <2> SUFFICES ASSUME PInv PROVE TypeOK
    OBVIOUS
  <2>1. /\ Shaped(m) /\ Control(m) /\ Len(m.cmds) <= PSTORAGE_CMD_QUEUE_SIZE
        /\ m.retries \in 0..SD_CMD_MAX_TRIES
    <3>1. /\ Coherent(m) /\ Shaped(m)
      BY DEF PInv, Coherent
    <3> QED
      BY <3>1, ShapedFields, Sizes DEF Coherent
  <2>2. m.state \in States /\ m.head \in Nat /\ m.tail \in Nat
    BY <2>1, ShapedFields
  <2>3. m.page \in 0..NumPages /\ m.head < PageWords /\ m.tail < PageWords
    BY <2>1 DEF Control
  <2>4. m.head \in 0..(PageWords - 1) /\ m.tail \in 0..(PageWords - 1)
    BY <2>2, <2>3, Sizes
  <2>5. ASSUME overtaken = FALSE
        PROVE  \A w \in Words : flash[w] >= Erased
    <3>1. flash \in [Words -> Contents]
      BY <2>5, Agreed
    <3> QED
      BY <3>1 DEF Contents
  <2>6. overtaken \in BOOLEAN
    BY DEF PInv
  <2> QED
    BY <2>1, <2>2, <2>3, <2>4, <2>5, <2>6 DEF TypeOK, States
<1> QED
  BY <1>1, PstorageKept, PTL

(* Between the erase of a data page and its restore, whichever operation   *)
(* fails and however often, a word outside the current command is on its   *)
(* own page or on the swap page, unless a request was overtaken by the     *)
(* event of another's operation: state_data_erase_swap_entry_run() and the *)
(* steps of flash_operation_success_run() never leave it in RAM alone.     *)
THEOREM NeighboursKept == Spec => []KeptInFlash
<1>1. PInv => KeptInFlash
  <2> SUFFICES ASSUME PInv, overtaken = FALSE PROVE KeptInFlash
    BY DEF KeptInFlash, PInv
  <2>1. Kept(m, flash, expected)
    BY Agreed
  <2> QED
    BY <2>1 DEF Kept, KeptInFlash
<1> QED
  BY <1>1, PstorageKept, PTL

(* flash_operation_failure_run() gives up a command at the failure number  *)
(* SD_CMD_MAX_TRIES of one of its own operations, and at no other event    *)
(* that did not overtake a request.                                        *)
THEOREM TriesCounted == Spec => []GivenUpAfterTries
<1>1. PInv => GivenUpAfterTries
  BY DEF PInv, Tries, GivenUpAfterTries
<1> QED
  BY <1>1, PstorageKept, PTL

(* Whenever command_end_procedure_run() tells the application of a success, *)
(* the data pages hold what the commands ended so far make of them, however *)
(* the chain of operations was interrupted, refused or retried, unless a    *)
(* request was overtaken by the event of another's operation.               *)
THEOREM SuccessIsTrue == Spec => NotifiedIsStored
<1> DEFINE Told == notified' # notified /\ ~overtaken => \A w \in Data : flash'[w] = expected'[w]
<1>1. PInv /\ [Next]_vars => [Told]_vars
  BY Step
<1> QED
  BY <1>1, PstorageKept, PTL DEF Spec, NotifiedIsStored

-----------------------------------------------------------------------------
(* How far a command has come: by pages, and on a page by the order of the *)
(* operations on it.                                                       *)
Order(sub) ==
  CASE sub = "RESTORE_HEAD"       -> 0
    [] sub = "RESTORE_TAIL"       -> 1
    [] sub = "ERASE_SWAP"         -> 2
    [] sub = "WRITE_DATA_TO_SWAP" -> 3
    [] sub = "ERASE_DATA_PAGE"    -> 4

LastPosition == 5 * NumPages + 5

Position(s) ==
  CASE s.state = "STORE"                -> LastPosition
    [] s.state = "DATA_ERASE"           -> 5 * s.page + 4
    [] s.state = "DATA_ERASE_WITH_SWAP" -> 5 * s.page + Order(s.sub)

LEMMA Positions ==
  /\ \A s \in Machine : s.state = "STORE" => Position(s) = LastPosition
  /\ \A s \in Machine : s.state = "DATA_ERASE" => Position(s) = 5 * s.page + 4
  /\ \A s \in Machine : s.state = "DATA_ERASE_WITH_SWAP" =>
       /\ s.sub = "RESTORE_HEAD" => Position(s) = 5 * s.page
       /\ s.sub = "RESTORE_TAIL" => Position(s) = 5 * s.page + 1
       /\ s.sub = "ERASE_SWAP" => Position(s) = 5 * s.page + 2
       /\ s.sub = "WRITE_DATA_TO_SWAP" => Position(s) = 5 * s.page + 3
       /\ s.sub = "ERASE_DATA_PAGE" => Position(s) = 5 * s.page + 4
<1>1. ASSUME NEW s \in Machine, s.state = "STORE"
      PROVE  Position(s) = LastPosition
  BY <1>1 DEF Position
<1>2. ASSUME NEW s \in Machine, s.state = "DATA_ERASE"
      PROVE  Position(s) = 5 * s.page + 4
  BY <1>2 DEF Position
<1>3. ASSUME NEW s \in Machine, s.state = "DATA_ERASE_WITH_SWAP"
      PROVE  /\ s.sub = "RESTORE_HEAD" => Position(s) = 5 * s.page
             /\ s.sub = "RESTORE_TAIL" => Position(s) = 5 * s.page + 1
             /\ s.sub = "ERASE_SWAP" => Position(s) = 5 * s.page + 2
             /\ s.sub = "WRITE_DATA_TO_SWAP" => Position(s) = 5 * s.page + 3
             /\ s.sub = "ERASE_DATA_PAGE" => Position(s) = 5 * s.page + 4
  <2>1. Position(s) = 5 * s.page + Order(s.sub) /\ s.page \in Int
    BY <1>3, MachineFields DEF Position
  <2> QED
    BY <2>1 DEF Order
<1> QED
  BY <1>1, <1>2, <1>3

LEMMA InRange ==
  ASSUME NEW s \in Machine, Active(s), Control(s)
  PROVE  Position(s) \in 0..LastPosition
<1>1. s.page \in 0..NumPages /\ s.sub \in Subs
  BY MachineFields DEF Control
<1>2. CASE s.state = "STORE"
  BY <1>2, Positions, Sizes DEF LastPosition
<1>3. CASE s.state = "DATA_ERASE"
  BY <1>1, <1>3, Positions, Sizes DEF LastPosition
<1>4. CASE s.state = "DATA_ERASE_WITH_SWAP"
  <2>1. \/ Position(s) = 5 * s.page \/ Position(s) = 5 * s.page + 1 \/ Position(s) = 5 * s.page + 2
        \/ Position(s) = 5 * s.page + 3 \/ Position(s) = 5 * s.page + 4
    BY <1>1, <1>4, Positions DEF Subs
  <2> QED
    BY <1>1, <2>1, Sizes DEF LastPosition
<1> QED
  BY <1>2, <1>3, <1>4 DEF Active

LEMMA SamePosition ==
  ASSUME NEW r, NEW s, Alike(r, s)
  PROVE  Position(r) = Position(s)
BY DEF Alike, Position

LEMMA Enters ==
  ASSUME NEW s \in Machine, NEW f
  PROVE  Alike(Enter(s, f), s)
BY MachineShaped, EnterAlike

(* A command that begins takes nothing from the queue. *)
LEMMA ProcessQueue ==
  ASSUME NEW s \in Machine, NEW f, s.cmds # <<>>
  PROVE  Process(s, f).cmds = s.cmds
<1> DEFINE c == Current(s)
<1>1. c \in Commands /\ First(c) \in Nat /\ First(c) \in Int
  BY MachineFields, Geometry
<1>2. StoreEntry(s, f).cmds = s.cmds
  <2> DEFINE t == [s EXCEPT !.state = "STORE"]
  <2>1. t \in Machine /\ t.cmds = s.cmds
    BY DEF Machine, States
  <2>2. StoreEntry(s, f) = Enter(t, f)
    BY DEF StoreEntry
  <2> HIDE DEF t
  <2> QED
    BY <2>1, <2>2, Enters DEF Alike
<1>3. \A t \in Machine : EraseEntry(t, f).cmds = t.cmds
  <2> SUFFICES ASSUME NEW t \in Machine PROVE EraseEntry(t, f).cmds = t.cmds
    OBVIOUS
  <2> DEFINE u == [t EXCEPT !.state = "DATA_ERASE"]
  <2>1. u \in Machine /\ u.cmds = t.cmds
    BY DEF Machine, States
  <2>2. EraseEntry(t, f) = Enter(u, f)
    BY DEF EraseEntry
  <2> HIDE DEF u
  <2> QED
    BY <2>1, <2>2, Enters DEF Alike
<1>4. \A t \in Machine : \A sub \in Subs : ToSub(t, f, sub).cmds = t.cmds
  <2> SUFFICES ASSUME NEW t \in Machine, NEW sub \in Subs PROVE ToSub(t, f, sub).cmds = t.cmds
    OBVIOUS
  <2> DEFINE u == [t EXCEPT !.sub = sub]
  <2>1. u \in Machine /\ u.cmds = t.cmds
    BY DEF Machine
  <2>2. ToSub(t, f, sub) = Enter(u, f)
    BY DEF ToSub
  <2> HIDE DEF u
  <2> QED
    BY <2>1, <2>2, Enters DEF Alike
<1>5. ClearOperation(s, f).cmds = s.cmds
  <2>1. CASE NoSwapNeeded(c)
    <3> DEFINE p == First(c)
               zero == 0
               t == [s EXCEPT !.tail = zero, !.page = p]
    <3>1. zero \in Nat /\ p \in Int
      BY <1>1
    <3>2. ClearOperation(s, f) = EraseEntry(t, f)
      BY <2>1 DEF ClearOperation, First
    <3> HIDE DEF p, zero
    <3>3. t \in Machine /\ t.cmds = s.cmds
      BY <3>1 DEF Machine
    <3> HIDE DEF t
    <3> QED
      BY <1>3, <3>2, <3>3
  <2>2. CASE ~NoSwapNeeded(c)
    <3> DEFINE h == HeadOf(c)
               n == TailOf(c)
               t == [s EXCEPT !.head = h, !.tail = n]
    <3>1. h \in Nat /\ n \in Nat
      BY <1>1, HeadGeometry, TailGeometry
    <3>2. ClearOperation(s, f) = SwapEntry(t, f)
      BY <2>2 DEF ClearOperation, HeadOf, TailOf, Start
    <3> HIDE DEF h, n
    <3>3. t \in Machine /\ t.cmds = s.cmds
      BY <3>1 DEF Machine
    <3> HIDE DEF t
    <3> DEFINE p == First(c)
               single == p = (c.block + c.size - 1) \div PageWords
               u == [t EXCEPT !.state = "DATA_ERASE_WITH_SWAP", !.tailDone = FALSE,
                              !.page = p, !.single = single]
               sub == IF t.head = 0 /\ ~single THEN "ERASE_DATA_PAGE" ELSE "ERASE_SWAP"
    <3>4. SwapEntry(t, f) = ToSub(u, f, sub)
      BY <3>3 DEF SwapEntry, Current, First
    <3>5. p \in Int /\ single \in BOOLEAN /\ sub \in Subs
      BY <1>1 DEF Subs
    <3> HIDE DEF p, single, sub
    <3>6. u \in Machine /\ u.cmds = t.cmds
      BY <3>3, <3>5 DEF Machine, States
    <3> HIDE DEF u
    <3> QED
      BY <1>4, <3>2, <3>3, <3>4, <3>5, <3>6
  <2> QED
    BY <2>1, <2>2
<1> QED
  BY <1>2, <1>5 DEF Process

LEMMA EndedQueue ==
  ASSUME NEW s \in Machine, NEW f, s.cmds # <<>>
  PROVE  CommandEnd(s, f, <<>>).cmds = Tail(s.cmds)
<1> DEFINE q == Tail(s.cmds)
           u == [s EXCEPT !.cmds = q]
           v == [u EXCEPT !.state = "IDLE", !.retries = 0]
<1>1. q \in Seq(Commands) /\ s.cmds \o <<>> = s.cmds
  BY MachineFields, HeadTailProperties, ConcatEmptySeq
<1>2. CommandEnd(s, f, <<>>) = IF v.cmds = <<>> THEN v ELSE Process(v, f)
  BY <1>1 DEF CommandEnd, Idle
<1> HIDE DEF q
<1>3. u \in Machine /\ u.cmds = q
  BY <1>1 DEF Machine
<1>4. v \in Machine /\ v.cmds = q
  BY <1>3 DEF Machine, States
<1> HIDE DEF u, v
<1>5. CASE q = <<>>
  <2>1. CommandEnd(s, f, <<>>) = v
    BY <1>2, <1>4, <1>5
  <2> QED
    BY <1>4, <2>1 DEF q
<1>6. CASE q # <<>>
  <2>1. CommandEnd(s, f, <<>>) = Process(v, f)
    BY <1>2, <1>4, <1>6
  <2> QED
    BY <1>4, <1>6, <2>1, ProcessQueue DEF q
<1> QED
  BY <1>5, <1>6

(* The machine goes on to a later position, or is through with a command.  *)
Onward(s, r, hi) ==
  \/ hi < Position(r)
  \/ r.cmds = Tail(s.cmds)

LEMMA SubOnward ==
  ASSUME NEW s \in Machine, s.state = "DATA_ERASE_WITH_SWAP", NEW f, NEW sub \in Subs
  PROVE  /\ sub = "RESTORE_HEAD" => Position(ToSub(s, f, sub)) = 5 * s.page
         /\ sub = "RESTORE_TAIL" => Position(ToSub(s, f, sub)) = 5 * s.page + 1
         /\ sub = "ERASE_SWAP" => Position(ToSub(s, f, sub)) = 5 * s.page + 2
         /\ sub = "WRITE_DATA_TO_SWAP" => Position(ToSub(s, f, sub)) = 5 * s.page + 3
         /\ sub = "ERASE_DATA_PAGE" => Position(ToSub(s, f, sub)) = 5 * s.page + 4
<1> DEFINE t == [s EXCEPT !.sub = sub]
<1>1. t \in Machine /\ t.sub = sub /\ t.state = "DATA_ERASE_WITH_SWAP" /\ t.page = s.page
  BY DEF Machine
<1>2. ToSub(s, f, sub) = Enter(t, f)
  BY DEF ToSub
<1> HIDE DEF t
<1>3. Position(ToSub(s, f, sub)) = Position(t)
  BY <1>1, <1>2, Enters, SamePosition
<1> QED
  BY <1>1, <1>3, Positions

LEMMA ClearedOnward ==
  ASSUME NEW s \in Machine, NEW f, s.cmds # <<>>, NEW hi \in Int, hi < LastPosition
  PROVE  Onward(s, Cleared(s, f, <<>>), hi)
<1>1. CASE Current(s).op = "update"
  <2> DEFINE t == [s EXCEPT !.state = "STORE"]
  <2>1. t \in Machine /\ t.state = "STORE"
    BY DEF Machine, States
  <2>2. Cleared(s, f, <<>>) = Enter(t, f)
    BY <1>1 DEF Cleared, StoreEntry
  <2> HIDE DEF t
  <2>3. Position(Cleared(s, f, <<>>)) = LastPosition
    BY <2>1, <2>2, Enters, SamePosition, Positions
  <2> QED
    BY <2>3 DEF Onward
<1>2. CASE Current(s).op # "update"
  <2>1. Cleared(s, f, <<>>) = CommandEnd(s, f, <<>>)
    BY <1>2 DEF Cleared
  <2> QED
    BY <2>1, EndedQueue DEF Onward
<1> QED
  BY <1>1, <1>2

LEMMA EraseOnward ==
  ASSUME NEW s \in Machine, NEW f, s.cmds # <<>>, s.state = "DATA_ERASE", s.page \in 0..NumPages
  PROVE  Onward(s, AfterErase(s, f, <<>>), Position(s))
<1> DEFINE k == s.page + 1
           t == [s EXCEPT !.page = k]
<1>1. k \in Int /\ s.page \in Int /\ Position(s) = 5 * s.page + 4
  BY Positions
<1>2. AfterErase(s, f, <<>>) = IF PageEraseRequired(t) THEN EraseEntry(t, f) ELSE Cleared(t, f, <<>>)
  BY DEF AfterErase
<1>3. k = s.page + 1
  OBVIOUS
<1> HIDE DEF k
<1>4. t \in Machine /\ t.page = k /\ t.state = "DATA_ERASE" /\ t.cmds = s.cmds
  BY <1>1 DEF Machine
<1> HIDE DEF t
<1>5. CASE PageEraseRequired(t)
  <2> DEFINE u == [t EXCEPT !.state = "DATA_ERASE"]
  <2>1. u \in Machine /\ u.state = "DATA_ERASE" /\ u.page = k
    BY <1>4 DEF Machine, States
  <2>2. AfterErase(s, f, <<>>) = Enter(u, f)
    BY <1>2, <1>5 DEF EraseEntry
  <2> HIDE DEF u
  <2>3. Position(AfterErase(s, f, <<>>)) = 5 * k + 4
    BY <2>1, <2>2, Enters, SamePosition, Positions
  <2> QED
    BY <1>1, <1>3, <2>3 DEF Onward
<1>6. CASE ~PageEraseRequired(t)
  <2>1. AfterErase(s, f, <<>>) = Cleared(t, f, <<>>)
    BY <1>2, <1>6
  <2>2. Position(s) \in Int /\ Position(s) < LastPosition
    BY <1>1, Sizes DEF LastPosition
  <2>3. Onward(t, Cleared(t, f, <<>>), Position(s))
    BY <1>4, <2>2, ClearedOnward
  <2> QED
    BY <1>4, <2>1, <2>3 DEF Onward
<1> QED
  BY <1>5, <1>6

LEMMA PageOnward ==
  ASSUME NEW s \in Machine, NEW f, s.cmds # <<>>, s.state = "DATA_ERASE_WITH_SWAP",
         s.page \in 0..NumPages, s.sub = "ERASE_DATA_PAGE"
  PROVE  Onward(s, AfterDataPageErase(s, f, <<>>), Position(s))
<1> DEFINE k == s.page + 1
           t == [s EXCEPT !.page = k]
           u == [t EXCEPT !.tailDone = TRUE]
           r == AfterDataPageErase(s, f, <<>>)
<1>1. k \in Int /\ s.page \in Int /\ Position(s) = 5 * s.page + 4
  BY Positions
<1>2. \/ r = ToSub(t, f, "RESTORE_HEAD") \/ r = ToSub(t, f, "ERASE_DATA_PAGE")
      \/ r = ToSub(t, f, "RESTORE_TAIL") \/ r = ToSub(u, f, "ERASE_SWAP")
      \/ r = Cleared(t, f, <<>>)
  <2> HIDE DEF u
  <2>1. r = CASE t.head # 0                         -> ToSub(t, f, "RESTORE_HEAD")
              [] t.head = 0 /\ PageEraseRequired(t) -> ToSub(t, f, "ERASE_DATA_PAGE")
              [] OTHER -> IF t.tail = 0 THEN Cleared(t, f, <<>>)
                          ELSE IF t.tailDone THEN ToSub(t, f, "RESTORE_TAIL")
                          ELSE ToSub(u, f, "ERASE_SWAP")
    BY DEF AfterDataPageErase, u
  <2> HIDE DEF t, r
  <2> QED
    BY <2>1
<1>3. k = s.page + 1
  OBVIOUS
<1> HIDE DEF k, r
<1>4. t \in Machine /\ t.page = k /\ t.state = "DATA_ERASE_WITH_SWAP" /\ t.cmds = s.cmds
  BY <1>1 DEF Machine
<1> HIDE DEF t
<1>5. u \in Machine /\ u.page = k /\ u.state = "DATA_ERASE_WITH_SWAP"
  BY <1>4 DEF Machine
<1> HIDE DEF u
<1>6. {"RESTORE_HEAD", "ERASE_DATA_PAGE", "RESTORE_TAIL", "ERASE_SWAP"} \subseteq Subs
  BY DEF Subs
<1>7. CASE r = Cleared(t, f, <<>>)
  <2>1. Position(s) \in Int /\ Position(s) < LastPosition
    BY <1>1, Sizes DEF LastPosition
  <2>2. Onward(t, r, Position(s))
    BY <1>4, <1>7, <2>1, ClearedOnward
  <2> QED
    BY <1>4, <2>2 DEF Onward, r
<1>8. CASE r # Cleared(t, f, <<>>)
  <2>1. Position(r) = 5 * k \/ Position(r) = 5 * k + 4 \/ Position(r) = 5 * k + 1 \/ Position(r) = 5 * k + 2
    BY <1>2, <1>4, <1>5, <1>6, <1>8, SubOnward
  <2>2. Position(s) < Position(r)
    BY <1>1, <1>3, <2>1
  <2> QED
    BY <2>2 DEF Onward, r
<1> QED
  BY <1>7, <1>8

LEMMA HeadOnward ==
  ASSUME NEW s \in Machine, NEW f, s.cmds # <<>>, s.state = "DATA_ERASE_WITH_SWAP",
         s.page \in 0..NumPages, s.sub = "RESTORE_HEAD"
  PROVE  Onward(s, AfterHeadRestore(s, f, <<>>), Position(s))
<1> DEFINE zero == 0
           t == [s EXCEPT !.head = zero]
           u == [t EXCEPT !.tailDone = TRUE]
           r == AfterHeadRestore(s, f, <<>>)
<1>1. zero \in Nat /\ s.page \in Int /\ Position(s) = 5 * s.page
  BY Positions
<1>2. \/ r = ToSub(u, f, "ERASE_SWAP") \/ r = ToSub(t, f, "ERASE_DATA_PAGE")
      \/ r = ToSub(s, f, "RESTORE_TAIL") \/ r = Cleared(s, f, <<>>)
  <2>1. r = CASE TailSwapRequired(s) -> ToSub(u, f, "ERASE_SWAP")
              [] ~TailSwapRequired(s) /\ PageEraseRequired(s) -> ToSub(t, f, "ERASE_DATA_PAGE")
              [] OTHER -> IF s.tail # 0 THEN ToSub(s, f, "RESTORE_TAIL") ELSE Cleared(s, f, <<>>)
    BY DEF AfterHeadRestore
  <2> HIDE DEF t, u, r
  <2> QED
    BY <2>1
<1> HIDE DEF zero, r
<1>3. t \in Machine /\ t.page = s.page /\ t.state = "DATA_ERASE_WITH_SWAP"
  BY <1>1 DEF Machine
<1> HIDE DEF t
<1>4. u \in Machine /\ u.page = s.page /\ u.state = "DATA_ERASE_WITH_SWAP"
  BY <1>3 DEF Machine
<1> HIDE DEF u
<1>5. {"ERASE_DATA_PAGE", "RESTORE_TAIL", "ERASE_SWAP"} \subseteq Subs
  BY DEF Subs
<1>6. CASE r = Cleared(s, f, <<>>)
  <2>1. Position(s) \in Int /\ Position(s) < LastPosition
    BY <1>1, Sizes DEF LastPosition
  <2> QED
    BY <1>6, <2>1, ClearedOnward DEF r
<1>7. CASE r # Cleared(s, f, <<>>)
  <2>1. Position(r) = 5 * s.page + 2 \/ Position(r) = 5 * s.page + 4 \/ Position(r) = 5 * s.page + 1
    BY <1>2, <1>3, <1>4, <1>5, <1>7, SubOnward
  <2>2. Position(s) < Position(r)
    BY <1>1, <2>1
  <2> QED
    BY <2>2 DEF Onward, r
<1> QED
  BY <1>6, <1>7

LEMMA OperationOnward ==
  ASSUME NEW s \in Machine, NEW f, s.cmds # <<>>, Active(s), s.page \in 0..NumPages
  PROVE  Onward(s, AfterOperation(s, f, <<>>), Position(s))
<1>1. CASE s.state = "STORE"
  <2>1. AfterOperation(s, f, <<>>) = CommandEnd(s, f, <<>>)
    BY <1>1 DEF AfterOperation
  <2> QED
    BY <2>1, EndedQueue DEF Onward
<1>2. CASE s.state = "DATA_ERASE"
  <2>1. AfterOperation(s, f, <<>>) = AfterErase(s, f, <<>>)
    BY <1>2 DEF AfterOperation
  <2> QED
    BY <1>2, <2>1, EraseOnward
<1>3. CASE s.state = "DATA_ERASE_WITH_SWAP"
  <2>1. AfterOperation(s, f, <<>>) = AfterSwapOperation(s, f, <<>>)
    BY <1>3 DEF AfterOperation
  <2>2. s.sub \in Subs /\ s.page \in Int
    BY MachineFields
  <2>3. CASE s.sub = "ERASE_SWAP"
    <3>1. AfterSwapOperation(s, f, <<>>) = ToSub(s, f, "WRITE_DATA_TO_SWAP")
      BY <2>3 DEF AfterSwapOperation
    <3>2. "WRITE_DATA_TO_SWAP" \in Subs
      BY DEF Subs
    <3>3. Position(s) = 5 * s.page + 2 /\ Position(AfterOperation(s, f, <<>>)) = 5 * s.page + 3
      BY <1>3, <2>1, <2>3, <3>1, <3>2, Positions, SubOnward
    <3> QED
      BY <2>2, <3>3 DEF Onward
  <2>4. CASE s.sub = "WRITE_DATA_TO_SWAP"
    <3> DEFINE b == s.tailDone \/ s.single
               t == [s EXCEPT !.tailDone = b]
    <3>1. AfterSwapOperation(s, f, <<>>) = ToSub(t, f, "ERASE_DATA_PAGE")
      BY <2>4 DEF AfterSwapOperation
    <3>2. "ERASE_DATA_PAGE" \in Subs /\ b \in BOOLEAN
      BY DEF Subs
    <3> HIDE DEF b
    <3>3. t \in Machine /\ t.page = s.page /\ t.state = "DATA_ERASE_WITH_SWAP"
      BY <1>3, <3>2 DEF Machine
    <3> HIDE DEF t
    <3>4. Position(s) = 5 * s.page + 3 /\ Position(AfterOperation(s, f, <<>>)) = 5 * s.page + 4
      BY <1>3, <2>1, <2>4, <3>1, <3>2, <3>3, Positions, SubOnward
    <3> QED
      BY <2>2, <3>4 DEF Onward
  <2>5. CASE s.sub = "ERASE_DATA_PAGE"
    <3>1. AfterSwapOperation(s, f, <<>>) = AfterDataPageErase(s, f, <<>>)
      BY <2>5 DEF AfterSwapOperation
    <3> QED
      BY <1>3, <2>1, <2>5, <3>1, PageOnward
  <2>6. CASE s.sub = "RESTORE_HEAD"
    <3>1. AfterSwapOperation(s, f, <<>>) = AfterHeadRestore(s, f, <<>>)
      BY <2>6 DEF AfterSwapOperation
    <3> QED
      BY <1>3, <2>1, <2>6, <3>1, HeadOnward
  <2>7. CASE s.sub = "RESTORE_TAIL"
    <3>1. AfterSwapOperation(s, f, <<>>) = Cleared(s, f, <<>>)
      BY <2>7 DEF AfterSwapOperation
    <3>2. Position(s) = 5 * s.page + 1
      BY <1>3, <2>7, Positions
    <3>3. Position(s) \in Int /\ Position(s) < LastPosition
      BY <2>2, <3>2, Sizes DEF LastPosition
    <3> QED
      BY <2>1, <3>1, <3>3, ClearedOnward
  <2> QED
    BY <2>2, <2>3, <2>4, <2>5, <2>6, <2>7 DEF Subs
<1> QED
  BY <1>1, <1>2, <1>3 DEF Active

(* An event taken for a success ends its command or takes it further; no    *)
(* other step moves it.                                                    *)
PullSuccess == PullEnd /\ Working(m) /\ ~WaitsForOther(m) /\ Head(ends).ok

Advances ==
  /\ PullSuccess => EndsCommand(m, flash, Head(ends).ok) \/ Position(m) < Position(m')
  /\ ~PullSuccess /\ Active(m) /\ Active(m') => Position(m) = Position(m')

LEMMA SuccessAdvances ==
  ASSUME PInv, PullSuccess
  PROVE  EndsCommand(m, flash, Head(ends).ok) \/ Position(m) < Position(m')
<1> DEFINE ok == Head(ends).ok
           t == Bare(m)
           r == AfterOperation(m, flash, <<>>)
           v == AfterOperation(t, flash, <<>>)
<1>1. Coherent(m) /\ Shaped(m) /\ Control(m) /\ Active(m)
  BY WorkingIsActive DEF PInv, Coherent, PullSuccess
<1>2. SUFFICES ASSUME ~EndsCommand(m, flash, ok)
      PROVE  Position(m) < Position(m')
  OBVIOUS
<1>3. m' = r
  <2>1. PICK more \in {<<>>} \cup {<<Command(q)>> : q \in {x \in Requests :
                                     EndsCommand(m, flash, ok) /\ MayAsk(x)}} :
          m' = Handled(m, flash, ok, more)
    BY DEF PullSuccess, PullEnd
  <2>2. more = <<>>
    BY <1>2, <2>1
  <2>3. Handled(m, flash, ok, <<>>) = r
    BY DEF PullSuccess, Handled
  <2> QED
    BY <2>1, <2>2, <2>3
<1>4. ~ (Len(r.cmds) < Len(m.cmds))
  BY <1>2 DEF PullSuccess, EndsCommand
<1>5. t \in Machine /\ Twins(m, t)
  BY <1>1, BareTwin
<1> HIDE DEF t, r, v
<1>6. m.cmds # <<>> /\ m.cmds \in Seq(Commands) /\ <<>> \in Seq(Commands)
  BY <1>1, ShapedFields, EmptySeq DEF Control, Active
<1>7. Twins(r, v)
  BY <1>1, <1>5, <1>6, AfterTwins DEF r, v
<1>8. /\ Position(r) = Position(v) /\ Position(m) = Position(t) /\ r.cmds = v.cmds
      /\ t.cmds = m.cmds /\ t.page = m.page /\ t.state = m.state
  BY <1>5, <1>7, SamePosition DEF Twins, Alike
<1>9. Onward(t, v, Position(t))
  <2>1. t.cmds # <<>> /\ Active(t) /\ t.page \in 0..NumPages
    BY <1>1, <1>6, <1>8 DEF Active, Control
  <2> QED
    BY <1>5, <2>1, OperationOnward DEF v
<1>10. v.cmds # Tail(t.cmds)
  <2>1. Len(m.cmds) \in Nat /\ Len(Tail(m.cmds)) = Len(m.cmds) - 1
    BY <1>6, HeadTailProperties, LenProperties
  <2>2. Len(Tail(m.cmds)) < Len(m.cmds)
    BY <2>1
  <2> QED
    BY <1>4, <1>8, <2>2
<1> QED
  BY <1>3, <1>8, <1>9, <1>10 DEF Onward

LEMMA StepAdvances ==
  ASSUME PInv, [Next]_vars
  PROVE  Advances \/ UNCHANGED vars
<1>1. Shaped(m)
  BY DEF PInv, Coherent
<1> DEFINE Same == Active(m) /\ Active(m') => Position(m) = Position(m')
<1>2. CASE PullSuccess
  BY <1>2, SuccessAdvances DEF Advances
<1>3. ASSUME NEW r \in Requests, Ask(r)
      PROVE  Same
  <2> DEFINE q == Append(m.cmds, Command(r))
             s == [m EXCEPT !.cmds = q]
  <2>1. m' = IF s.state = "IDLE" THEN Process(s, flash) ELSE s
    BY <1>3 DEF Ask
  <2> HIDE DEF q
  <2>2. s.state = m.state /\ Position(s) = Position(m)
    BY <1>1 DEF Shaped, Position
  <2> HIDE DEF s
  <2> QED
    BY <2>1, <2>2 DEF Active
<1>4. ASSUME OtherBegins
      PROVE  Same
  <2> DEFINE op == Foreign
  <2>1. m' = [m EXCEPT !.flashOp = op]
    BY <1>4 DEF OtherBegins
  <2> HIDE DEF op
  <2>2. Position(m') = Position(m)
    BY <1>1, <2>1 DEF Shaped, Position
  <2> QED
    BY <2>2
<1>5. ASSUME NEW ok \in BOOLEAN, OperationEnds(ok)
      PROVE  Same
  <2> DEFINE op == NoOp
  <2>1. m' = [m EXCEPT !.flashOp = op]
    BY <1>5 DEF OperationEnds
  <2> HIDE DEF op
  <2>2. Position(m') = Position(m)
    BY <1>1, <2>1 DEF Shaped, Position
  <2> QED
    BY <2>2
<1>6. ASSUME PullEnd, ~PullSuccess
      PROVE  Same
  <2> DEFINE ok == Head(ends).ok
             u == [m EXCEPT !.busy = FALSE]
             k == m.retries + 1
             s == [m EXCEPT !.retries = k]
             v == [s EXCEPT !.state = "ERROR"]
  <2>1. m' = m \/ m' = Enter(u, flash) \/ m' = AfterFailure(m, flash)
    <3>1. PICK more \in {<<>>} \cup {<<Command(q)>> : q \in {x \in Requests :
                                       EndsCommand(m, flash, ok) /\ MayAsk(x)}} :
            m' = Handled(m, flash, ok, more)
      BY <1>6 DEF PullEnd
    <3>2. ~ (Working(m) /\ ~WaitsForOther(m) /\ ok)
      BY <1>6 DEF PullSuccess
    <3> HIDE DEF ok
    <3> QED
      BY <3>1, <3>2 DEF Handled
  <2>2. Shaped(u) /\ Alike(u, m)
    BY <1>1 DEF Shaped, Alike
  <2> HIDE DEF u
  <2>3. Position(Enter(u, flash)) = Position(m)
    BY <2>2, EnterAlike, SamePosition
  <2>4. AfterFailure(m, flash) = IF s.retries # SD_CMD_MAX_TRIES THEN Enter(s, flash) ELSE v
    BY DEF AfterFailure
  <2>5. k \in Nat
    BY <1>1, ShapedFields
  <2> HIDE DEF k
  <2>6. Shaped(s) /\ Position(s) = Position(m)
    BY <1>1, <2>5 DEF Shaped, Position
  <2> HIDE DEF s
  <2>7. Position(Enter(s, flash)) = Position(m)
    BY <2>6, EnterAlike, SamePosition
  <2>8. ~Active(v)
    BY <2>6 DEF Shaped, Active
  <2> HIDE DEF v
  <2>9. Active(AfterFailure(m, flash)) => Position(AfterFailure(m, flash)) = Position(m)
    BY <2>4, <2>7, <2>8
  <2> QED
    BY <2>1, <2>3, <2>9
<1>7. ASSUME Recover
      PROVE  Same
  BY <1>7 DEF Recover, Active
<1>8. ASSUME Same, ~PullSuccess
      PROVE  Advances
  BY <1>8 DEF Advances
<1>9. CASE ~PullSuccess
  <2>1. Same \/ UNCHANGED vars
    BY <1>3, <1>4, <1>5, <1>6, <1>7, <1>9 DEF Next
  <2> QED
    BY <1>8, <1>9, <2>1
<1> QED
  BY <1>2, <1>9

(* A command cannot go on for ever: every event that is taken for the      *)
(* success of its operation, whosever it is, ends the command or takes it  *)
(* to a later position, as flash_operation_success_run() goes on from it;  *)
(* failures, refusals and operations under way leave it where it is.       *)
THEOREM OperationsAdvance == Spec => [][Advances]_vars
<1>1. PInv /\ [Next]_vars => [Advances]_vars
  BY StepAdvances
<1> QED
  BY <1>1, PstorageKept, PTL DEF Spec

(* Nor can it stop: while pstorage.c waits for an event, there is one to   *)
(* pull or an operation under way that will post one, its own or another's,*)
(* and what is left of the command is bounded.                             *)
THEOREM OperationUnderWay ==
  Spec => [](Working(m) => (m.flashOp # NoOp \/ ends # <<>>) /\ Position(m) \in 0..LastPosition)
<1> DEFINE Awaiting == Working(m) => (m.flashOp # NoOp \/ ends # <<>>) /\ Position(m) \in 0..LastPosition
<1>1. PInv => Awaiting
  <2> SUFFICES ASSUME PInv, Working(m)
               PROVE  (m.flashOp # NoOp \/ ends # <<>>) /\ Position(m) \in 0..LastPosition
    OBVIOUS
  <2>1. Shaped(m) /\ Control(m) /\ Active(m) /\ (m.flashOp # NoOp \/ ends # <<>>)
    BY WorkingIsActive DEF PInv, Coherent
  <2> DEFINE t == Bare(m)
  <2>2. t \in Machine /\ Twins(m, t)
    BY <2>1, BareTwin
  <2> HIDE DEF t
  <2>3. Control(t) /\ Active(t) /\ Position(t) = Position(m)
    <3>1. Twins(t, m) /\ Alike(t, m)
      BY <2>2, TwinsSwap DEF Twins
    <3> QED
      BY <2>1, <3>1, ControlTwins, SamePosition DEF Alike, Active
  <2> QED
    BY <2>1, <2>2, <2>3, InRange
<1> QED
  BY <1>1, PstorageKept, PTL
=============================================================================
