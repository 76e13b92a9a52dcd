---------------------------- MODULE DmaOutProofs ----------------------------
(***************************************************************************)
(* Proofs about DmaOut for the page size and the address width of the code *)
(* (CodeSizes): for every address, every buffer and every sequence of      *)
(* calls.  The invariant says of each DMA channel how many of its words    *)
(* have been stored (Carries) and of the memory that it holds exactly the  *)
(* words stored so far.                                                    *)
(***************************************************************************)
EXTENDS DmaOut, TLAPS

\* The values of dma.c.
CodeSizes == PageBytes = 1024 /\ Wrap = 65536

\* Clamping an address to 16 bits does not change whether two addresses that
\* are less than a page apart are in one page.
LEMMA PageOfClamped ==
    ASSUME NEW a \in Nat, NEW b \in Nat, a <= b, b <= a + 1023
    PROVE  (a % 65536) \div 1024 = (b % 65536) \div 1024
             <=> a \div 1024 = b \div 1024
<1>1. ASSUME NEW x \in Nat
      PROVE  (x % 65536) \div 1024 = (x \div 1024) % 64
  OBVIOUS
<1>2. ASSUME NEW x \in Nat, NEW y \in Nat, y = x \/ y = x + 1
      PROVE  x % 64 = y % 64 <=> x = y
  BY <1>2
<1>3. /\ a \div 1024 \in Nat /\ b \div 1024 \in Nat
      /\ b \div 1024 = a \div 1024 \/ b \div 1024 = a \div 1024 + 1
  OBVIOUS
<1>4. QED
  BY <1>1, <1>2, <1>3

\* The four checks of dma.c accept a transfer exactly when it has words, uses a
\* channel of its own and stays in a page.
LEMMA CheckPage ==
    ASSUME CodeSizes, NEW c \in DmaChannels, NEW a \in Nat, NEW l \in Nat
    PROVE  Check(c, a, l) = 0 <=> l \in 1 .. 512 /\ c # 0 /\ InOnePage(a, l)
<1>1. l \in 1 .. 512 =>
        (ClampedPage(a) = ClampedPage(a + 2 * l - 1) <=> InOnePage(a, l))
  <2> SUFFICES ASSUME l \in 1 .. 512
               PROVE  ClampedPage(a) = ClampedPage(a + 2 * l - 1) <=> InOnePage(a, l)
    OBVIOUS
  <2>1. PICK b \in Nat : b = a + 2 * l - 1
    OBVIOUS
  <2>2. a <= b /\ b <= a + 1023
    BY <2>1
  <2>3. (a % 65536) \div 1024 = (b % 65536) \div 1024
          <=> a \div 1024 = b \div 1024
    BY <2>2, PageOfClamped
  <2>4. QED
    BY <2>1, <2>3 DEF ClampedPage, InOnePage, CodeSizes
<1>2. PageBytes \div 2 = 512
  BY DEF CodeSizes
<1>3. QED
  BY <1>1, <1>2 DEF Check

\* A buffer with one more word.
LEMMA ImageGrows ==
    ASSUME NEW a \in Nat, NEW w \in Nat
    PROVE  /\ Image(a, w + 1) = Image(a, w) \cup {<<a + 2 * w, w>>}
           /\ Image(a, 0) = {}
  BY DEF Image

\* A shorter buffer is part of a longer one.
LEMMA ImageMonotone ==
    ASSUME NEW a \in Nat, NEW w \in Nat, NEW v \in Nat, w <= v
    PROVE  Image(a, w) \subseteq Image(a, v)
  BY DEF Image

\* The initial state.
LEMMA InitOK == Init => TypeOK /\ DmaOutInv
<1> SUFFICES ASSUME Init PROVE TypeOK /\ DmaOutInv
  OBVIOUS
<1> USE DmaAssumption, DmaOutAssumption DEF Init, DmaInit, Fifo, Transfer, NoAsync
<1>1. TypeOK
  BY DEF TypeOK, Transfers, NoWord
<1>2. Image(0, 0) = {}
  BY ImageGrows
<1>3. DmaOutInv
  BY <1>2 DEF DmaOutInv, OutInv, AsyncInv, OnlyOddFails
<1>4. QED
  BY <1>1, <1>3

\* Every step keeps the types.
LEMMA TypeStep ==
    ASSUME TypeOK, DmaOutInv, Next
    PROVE  TypeOK'
<1> USE DEF TypeOK, dmaVars, outVars
<1>1. NoWord \notin Nat /\ DmaChannels \subseteq Nat /\ OutChannel \in DmaChannels
  BY DmaAssumption, DmaOutAssumption DEF NoWord
<1>2. ASSUME NEW c \in DmaChannels, NEW t \in Transfers, StartUnsafe(c, t)
      PROVE  /\ transfer' \in [DmaChannels -> Transfers]
             /\ moved' \in [DmaChannels -> Nat]
             /\ started' \subseteq DmaChannels /\ ended' \subseteq DmaChannels
             /\ connected' \in [{1, 2} -> SUBSET DmaChannels]
             /\ queue' \in started' \cup {NoWord}
             /\ armMemory' \subseteq Nat \X Nat /\ dspMemory' \subseteq Nat \X Nat
  <2>1. AhbmChannel[t.direction] \in {1, 2}
    BY DEF Transfers, AhbmChannel
  <2>2. QED
    BY <1>2, <2>1 DEF StartUnsafe
<1>3. CASE DmaOutCall
  BY <1>3, DmaOutAssumption DEF DmaOutCall
<1>4. CASE Chunk
  <2>1. PageWords \in Nat
    <3>1. PageBytes \in Nat \ {0}
      BY DmaAssumption
    <3>2. address % PageBytes \in 0 .. PageBytes - 1
      BY <3>1
    <3>3. QED
      BY <3>1, <3>2 DEF PageWords
  <2>2. QED
    BY <1>4, <2>1 DEF Chunk, ChunkWords
<1>5. CASE TransferFails
  BY <1>5 DEF TransferFails
<1>6. CASE TransferStarts
  <2>1. Transfer("DspToArm", address, p, n) \in Transfers
    BY DEF Transfer, Transfers
  <2>2. QED
    BY <1>1, <1>2, <1>6, <2>1 DEF TransferStarts
<1>7. CASE TransferDone
  <2>1. n <= words
    BY <1>7 DEF TransferDone, DmaOutInv, OutInv
  <2>2. QED
    BY <1>7, <2>1 DEF TransferDone, ahbmResetChannel
<1>8. CASE DmaOutReturn
  BY <1>8 DEF DmaOutReturn
<1>9. CASE AsyncCall
  <2>1. PICK c \in AsyncCalls :
          LET result == Check(c.channel, c.src, c.len)
          IN  /\ async' = [channel |-> c.channel, src |-> c.src, len |-> c.len,
                           result |-> result]
              /\ IF result = 0
                 THEN StartUnsafe(c.channel, Transfer("ArmToDsp", c.src, 0, c.len))
                 ELSE UNCHANGED dmaVars
    BY <1>9 DEF AsyncCall
  <2>2. c.channel \in DmaChannels /\ c.src \in Nat /\ c.len \in Nat
    BY DmaOutAssumption
  <2>3. Check(c.channel, c.src, c.len) \in -4 .. 0
    BY DEF Check
  <2>4. Transfer("ArmToDsp", c.src, 0, c.len) \in Transfers
    BY <2>2 DEF Transfer, Transfers
  <2>5. CASE Check(c.channel, c.src, c.len) = 0
    BY <1>2, <1>9, <2>1, <2>2, <2>3, <2>4, <2>5 DEF AsyncCall
  <2>6. CASE Check(c.channel, c.src, c.len) # 0
    BY <1>9, <2>1, <2>2, <2>3, <2>6 DEF AsyncCall
  <2>7. QED
    BY <2>5, <2>6
<1>10. CASE AsyncDone
  BY <1>1, <1>10, DmaAssumption DEF AsyncDone, NoAsync
<1>11. CASE Store /\ UNCHANGED outVars
  <2>1. queue \in DmaChannels
    BY <1>11 DEF Store, ahbmIsBusy
  <2>2. <<transfer[queue].arm + 2 * moved[queue], transfer[queue].dsp + moved[queue]>>
          \in Nat \X Nat
    BY <2>1 DEF Transfers
  <2>3. QED
    BY <1>11, <2>1, <2>2 DEF Store
<1>12. CASE (\E c \in DmaChannels : Fetch(c)) /\ UNCHANGED outVars
  BY <1>12 DEF Fetch
<1>13. QED
  BY <1>3, <1>4, <1>5, <1>6, <1>7, <1>8, <1>9, <1>10, <1>11, <1>12
     DEF Next, DmaOutSteps, Hardware

\* proto_dma_out() asks for transfers that are accepted, unless it has come to
\* the last byte of a page.
LEMMA ChunkChecked ==
    ASSUME CodeSizes, TypeOK, words > 0, n = ChunkWords
    PROVE  /\ n <= words
           /\ Check(OutChannel, address, n) = 0 =>
                /\ n \in 1 .. words
                /\ InOnePage(address, n)
           /\ Check(OutChannel, address, n) # 0 => address % 1024 = 1023
<1>1. n \in 0 .. 512 /\ n <= words /\ (n > 0 => InOnePage(address, n))
      /\ (n = 0 => address % 1024 = 1023)
  <2>1. address \in Nat /\ words \in Nat /\ n \in Nat
    BY DEF TypeOK
  <2>2. n = IF (1024 - (address % 1024)) \div 2 > words THEN words
            ELSE (1024 - (address % 1024)) \div 2
    BY DEF CodeSizes, ChunkWords, PageWords
  <2>3. QED
    BY <2>1, <2>2 DEF CodeSizes, InOnePage
<1>2. Check(OutChannel, address, n) = 0 <=>
        n \in 1 .. 512 /\ OutChannel # 0 /\ InOnePage(address, n)
  <2>1. n \in Nat /\ address \in Nat /\ OutChannel \in DmaChannels
    BY DmaOutAssumption DEF TypeOK
  <2>2. QED
    BY <2>1, CheckPage
<1>3. OutChannel # 0
  BY DmaOutAssumption
<1>4. QED
  BY <1>1, <1>2, <1>3 DEF TypeOK

\* A channel that is started carries its transfer.
LEMMA StartCarries ==
    ASSUME TypeOK, NEW c \in DmaChannels, NEW t \in Transfers, t.len > 0,
           InOnePage(t.arm, t.len), c \notin started, StartUnsafe(c, t)
    PROVE  Carries(c, t)' /\ moved'[c] = 0
<1>1. transfer'[c] = t /\ moved'[c] = 0 /\ c \in started' /\ c \notin ended'
  BY DEF TypeOK, StartUnsafe
<1>2. QED
  BY <1>1 DEF Carries, Transfers, InOnePage

\* A word is stored: the next one of the transfer, and nothing else happens.
LEMMA StoreCarries ==
    ASSUME TypeOK, NEW c \in DmaChannels, NEW t \in Transfers, Carries(c, t),
           c \in started, queue = c, Store
    PROVE  /\ Carries(c, t)' /\ moved'[c] = moved[c] + 1
           /\ LET word == <<t.arm + 2 * moved[c], t.dsp + moved[c]>>
              IN  IF t.direction = "DspToArm"
                  THEN armMemory' = armMemory \cup {word} /\ UNCHANGED dspMemory
                  ELSE dspMemory' = dspMemory \cup {word} /\ UNCHANGED armMemory
           /\ started' \subseteq started /\ UNCHANGED transfer
           /\ \A d \in DmaChannels \ {c} :
                /\ moved'[d] = moved[d]
                /\ d \in started' <=> d \in started
                /\ d \in ended' <=> d \in ended
<1>1. transfer[c] = t /\ Length(t) = t.len /\ moved \in [DmaChannels -> Nat]
      /\ t.len \in Nat
  BY DEF Carries, Length, Transfers, TypeOK
<1>2. QED
  BY <1>1 DEF Store, Carries

\* Every step keeps what is known of proto_dma_out().
LEMMA OutStep ==
    ASSUME CodeSizes, TypeOK, DmaOutInv, Next
    PROVE  OutInv'
<1> USE DEF DmaOutInv, OutInv, dmaVars, outVars
<1>1. /\ p \in Nat /\ words \in Nat /\ n \in Nat /\ address \in Nat
      /\ call.address \in Nat /\ call.words \in Nat
      /\ moved \in [DmaChannels -> Nat] /\ transfer \in [DmaChannels -> Transfers]
      /\ OutChannel \in DmaChannels /\ OutChannel # 0 /\ NoWord \notin Nat
      /\ DmaChannels \subseteq Nat /\ started \subseteq DmaChannels
  BY DmaAssumption, DmaOutAssumption DEF TypeOK, NoWord
<1>2. CASE DmaOutCall
  <2>1. PICK a \in Nat, w \in Nat :
          /\ address' = a /\ words' = w /\ call' = [address |-> a, words |-> w]
    BY <1>2, DmaOutAssumption DEF DmaOutCall
  <2>2. Image(a, 0) = {}
    BY ImageGrows
  <2>3. QED
    BY <1>1, <1>2, <2>1, <2>2 DEF DmaOutCall
<1>3. CASE Chunk
  BY <1>1, <1>3 DEF Chunk, ChunkWords, PageWords
<1>4. CASE TransferFails
  BY <1>1, <1>4 DEF TransferFails
<1>5. CASE TransferStarts
  <2> DEFINE t == Transfer("DspToArm", address, p, n)
  <2>1. n \in 1 .. words /\ InOnePage(address, n)
    BY <1>5, ChunkChecked DEF TransferStarts
  <2>2. t \in Transfers /\ t.len = n /\ t.arm = address
    BY <1>1 DEF Transfer, Transfers
  <2>3. Carries(OutChannel, t)' /\ moved'[OutChannel] = 0
    BY <1>1, <1>5, <2>1, <2>2, StartCarries DEF TransferStarts
  <2>4. armMemory' = Image(call.address, p + 0)
    BY <1>1, <1>5 DEF TransferStarts, StartUnsafe
  <2>5. QED
    BY <1>1, <1>5, <2>1, <2>3, <2>4 DEF TransferStarts, Transfer
<1>6. CASE TransferDone
  <2>1. moved[OutChannel] = n /\ OutChannel \notin started /\ n > 0
    BY <1>1, <1>6 DEF TransferDone, dmaTransferIsRunning, Carries, Transfer
  <2>2. QED
    BY <1>1, <1>6, <2>1 DEF TransferDone, ahbmResetChannel
<1>7. CASE DmaOutReturn
  BY <1>1, <1>7 DEF DmaOutReturn
<1>8. CASE AsyncCall
  <2>1. /\ UNCHANGED <<armMemory, pc, p, address, words, n, status, call>>
        /\ OutChannel \notin started /\ pc = "idle"
    BY <1>8 DEF AsyncCall, StartUnsafe
  <2>2. OutChannel \notin started'
    BY <1>1, <1>8, <2>1, DmaOutAssumption DEF AsyncCall, StartUnsafe
  <2>3. QED
    BY <2>1, <2>2
<1>9. CASE AsyncDone
  BY <1>1, <1>9 DEF AsyncDone
<1>10. CASE Store /\ UNCHANGED outVars
  <2>1. queue \in started
    BY <1>10 DEF Store, ahbmIsBusy, TypeOK
  <2>2. CASE queue = OutChannel
    <3> DEFINE t == Transfer("DspToArm", address, p, n)
    <3>1. pc = "running" /\ Carries(OutChannel, t) /\ t \in Transfers
      BY <1>1, <2>1, <2>2 DEF Transfer, Transfers
    <3>2. t.arm = address /\ t.dsp = p /\ t.direction = "DspToArm"
      BY DEF Transfer
    <3>3. /\ Carries(OutChannel, t)' /\ moved'[OutChannel] = moved[OutChannel] + 1
          /\ armMemory' = armMemory \cup {<<address + 2 * moved[OutChannel],
                                           p + moved[OutChannel]>>}
      BY <1>1, <1>10, <2>1, <2>2, <3>1, <3>2, StoreCarries
    <3>4. armMemory' = Image(call.address, (p + moved[OutChannel]) + 1)
      <4>1. PICK w \in Nat : w = p + moved[OutChannel]
        BY <1>1
      <4>2. armMemory = Image(call.address, w)
            /\ address + 2 * moved[OutChannel] = call.address + 2 * w
        BY <1>1, <3>1, <4>1
      <4>3. armMemory' = armMemory \cup {<<call.address + 2 * w, w>>}
        BY <3>3, <4>1, <4>2
      <4>4. Image(call.address, w + 1)
              = Image(call.address, w) \cup {<<call.address + 2 * w, w>>}
        BY <1>1, <4>1, ImageGrows
      <4>5. QED
        BY <4>1, <4>2, <4>3, <4>4
    <3>5. QED
      BY <1>1, <1>10, <3>1, <3>3, <3>4
  <2>3. CASE queue # OutChannel
    <3>1. /\ UNCHANGED transfer /\ moved'[OutChannel] = moved[OutChannel]
          /\ OutChannel \in started' <=> OutChannel \in started
          /\ OutChannel \in ended' <=> OutChannel \in ended
      BY <1>1, <1>10, <2>3 DEF Store
    <3>2. UNCHANGED armMemory
      <4>1. transfer[queue].direction = "ArmToDsp"
        BY <2>1, <2>3 DEF AsyncInv, Carries, Transfer
      <4>2. QED
        BY <1>10, <4>1 DEF Store
    <3>3. QED
      BY <1>10, <3>1, <3>2 DEF Carries, Transfer, ChunkWords, PageWords
  <2>4. QED
    BY <2>2, <2>3
<1>11. CASE (\E c \in DmaChannels : Fetch(c)) /\ UNCHANGED outVars
  BY <1>11 DEF Fetch, Carries, Transfer, ChunkWords, PageWords
<1>12. QED
  BY <1>2, <1>3, <1>4, <1>5, <1>6, <1>7, <1>8, <1>9, <1>10, <1>11
     DEF Next, DmaOutSteps, Hardware

\* Every step keeps what is known of the asynchronous transfer.
LEMMA AsyncStep ==
    ASSUME CodeSizes, TypeOK, DmaOutInv, Next
    PROVE  AsyncInv'
<1> USE DEF DmaOutInv, AsyncInv, dmaVars, outVars
<1>1. /\ async.channel \in DmaChannels /\ async.src \in Nat /\ async.len \in Nat
      /\ moved \in [DmaChannels -> Nat] /\ transfer \in [DmaChannels -> Transfers]
      /\ OutChannel \in DmaChannels /\ OutChannel # 0 /\ NoWord \notin Nat
      /\ 0 \in DmaChannels /\ DmaChannels \subseteq Nat
      /\ started \subseteq DmaChannels
  BY DmaAssumption, DmaOutAssumption DEF TypeOK, NoWord
<1>2. CASE UNCHANGED <<transfer, moved, started, ended, dspMemory, async>>
  BY <1>2 DEF Carries, Transfer
<1>3. CASE TransferStarts
  <2>1. /\ UNCHANGED <<async, dspMemory>> /\ started' = started \cup {OutChannel}
        /\ \A c \in DmaChannels \ {OutChannel} :
             /\ transfer'[c] = transfer[c] /\ moved'[c] = moved[c]
             /\ c \in started' <=> c \in started
             /\ c \in ended' <=> c \in ended
    BY <1>1, <1>3 DEF TransferStarts, StartUnsafe
  <2>2. QED
    BY <1>1, <2>1 DEF Carries, Transfer
<1>4. CASE AsyncCall
  <2>1. PICK c \in AsyncCalls :
          LET result == Check(c.channel, c.src, c.len)
          IN  /\ async' = [channel |-> c.channel, src |-> c.src, len |-> c.len,
                           result |-> result]
              /\ IF result = 0
                 THEN StartUnsafe(c.channel, Transfer("ArmToDsp", c.src, 0, c.len))
                 ELSE UNCHANGED dmaVars
    BY <1>4 DEF AsyncCall
  <2>2. /\ c.channel \in DmaChannels /\ c.channel # OutChannel
        /\ c.src \in Nat /\ c.len \in Nat
    BY DmaOutAssumption
  <2>3. started = {} /\ dspMemory = {}
    BY <1>4 DEF AsyncCall, NoAsync, OutInv
  <2>4. CASE Check(c.channel, c.src, c.len) = 0
    <3> DEFINE t == Transfer("ArmToDsp", c.src, 0, c.len)
    <3>1. c.channel # 0 /\ c.len > 0 /\ InOnePage(c.src, c.len)
      BY <2>2, <2>4, CheckPage
    <3>2. t \in Transfers /\ t.len = c.len /\ t.arm = c.src
      BY <2>2 DEF Transfer, Transfers
    <3>3. StartUnsafe(c.channel, t)
      BY <2>1, <2>4
    <3>4. Carries(c.channel, t)' /\ moved'[c.channel] = 0
      BY <2>2, <2>3, <3>1, <3>2, <3>3, StartCarries
    <3>5. dspMemory' = Image(c.src, 0) /\ started' = {c.channel}
          /\ transfer'[0] = transfer[0]
      BY <1>1, <2>2, <2>3, <3>1, <3>3, ImageGrows DEF StartUnsafe
    <3>6. async'.channel = c.channel /\ async'.src = c.src /\ async'.len = c.len
          /\ async'.result = 0
      BY <2>1, <2>4
    <3>7. QED
      BY <2>2, <3>1, <3>4, <3>5, <3>6 DEF Carries, Transfer
  <2>5. CASE Check(c.channel, c.src, c.len) # 0
    BY <2>1, <2>3, <2>5
  <2>6. QED
    BY <2>4, <2>5
<1>5. CASE AsyncDone
  <2>1. pc = "idle" /\ async' = NoAsync /\ dspMemory' = {}
        /\ UNCHANGED <<transfer, started>>
    BY <1>5 DEF AsyncDone
  <2>2. started = {}
    BY <1>1, <1>5, <2>1 DEF AsyncDone, OutInv, dmaTransferIsRunning, Carries,
       Transfer
  <2>3. QED
    BY <2>1, <2>2 DEF NoAsync
<1>6. CASE Store /\ UNCHANGED outVars
  <2>1. queue \in started
    BY <1>6 DEF Store, ahbmIsBusy, TypeOK
  <2>2. CASE queue = OutChannel
    <3>1. PICK t \in Transfers : Carries(OutChannel, t) /\ t.direction = "DspToArm"
                                /\ pc = "running"
      <4>1. Transfer("DspToArm", address, p, n) \in Transfers
            /\ Transfer("DspToArm", address, p, n).direction = "DspToArm"
        BY DEF TypeOK, Transfer, Transfers
      <4>2. QED
        BY <2>1, <2>2, <4>1 DEF OutInv
    <3>2. /\ UNCHANGED <<transfer, async, dspMemory>> /\ started' \subseteq started
          /\ \A c \in DmaChannels \ {OutChannel} :
               /\ moved'[c] = moved[c]
               /\ c \in started' <=> c \in started
               /\ c \in ended' <=> c \in ended
      BY <1>1, <1>6, <2>1, <2>2, <3>1, StoreCarries
    <3>3. QED
      BY <1>1, <3>1, <3>2 DEF Carries, Transfer
  <2>3. CASE queue # OutChannel
    <3>1. PICK t \in Transfers :
            /\ t = Transfer("ArmToDsp", async.src, 0, async.len)
            /\ t.arm = async.src /\ t.dsp = 0 /\ t.direction = "ArmToDsp"
      BY <1>1 DEF Transfer, Transfers
    <3>2. async.result = 0 /\ queue = async.channel /\ Carries(async.channel, t)
      BY <1>1, <2>1, <2>3, <3>1
    <3>3. /\ Carries(async.channel, t)' /\ started' \subseteq started
          /\ moved'[async.channel] = moved[async.channel] + 1
          /\ UNCHANGED transfer
          /\ dspMemory' = dspMemory \cup {<<t.arm + 2 * moved[async.channel],
                                           t.dsp + moved[async.channel]>>}
      BY <1>1, <1>6, <2>1, <3>1, <3>2, StoreCarries
    <3>4. dspMemory' = Image(async.src, moved[async.channel] + 1)
      <4>1. PICK w \in Nat : w = moved[async.channel]
        BY <1>1
      <4>2. dspMemory = Image(async.src, w) /\ t.dsp + w = w
        BY <3>1, <3>2, <4>1
      <4>3. dspMemory' = Image(async.src, w + 1)
        BY <1>1, <3>1, <3>3, <4>1, <4>2, ImageGrows
      <4>4. QED
        BY <4>1, <4>3
    <3>5. UNCHANGED async
      BY <1>6
    <3>6. QED
      BY <3>1, <3>2, <3>3, <3>4, <3>5
  <2>4. QED
    BY <2>2, <2>3
<1>7. CASE DmaOutCall \/ Chunk \/ TransferFails \/ TransferDone \/ DmaOutReturn
           \/ ((\E c \in DmaChannels : Fetch(c)) /\ UNCHANGED outVars)
  BY <1>2, <1>7 DEF DmaOutCall, Chunk, TransferFails, TransferDone,
     ahbmResetChannel, DmaOutReturn, Fetch
<1>8. QED
  BY <1>3, <1>4, <1>5, <1>6, <1>7 DEF Next, DmaOutSteps, Hardware

\* Only an odd address leads to a refused transfer.
LEMMA OnlyOddStep ==
    ASSUME CodeSizes, TypeOK, DmaOutInv, Next
    PROVE  OnlyOddFails'
<1> USE DEF DmaOutInv, dmaVars, outVars
<1>1. CASE UNCHANGED <<status, call>>
  BY <1>1 DEF OnlyOddFails
<1>2. CASE DmaOutCall
  BY <1>2 DEF DmaOutCall, OnlyOddFails
<1>3. CASE TransferFails
  <2>1. /\ address % 1024 = 1023 /\ words > 0 /\ call.words = p + words
        /\ address = call.address + 2 * p
    BY <1>3, ChunkChecked DEF TransferFails, OutInv
  <2>2. /\ p \in Nat /\ words \in Nat /\ address \in Nat
        /\ call.address \in Nat /\ call.words \in Nat
    BY DEF TypeOK
  <2>3. call.address % 2 = 1
    BY <2>1, <2>2
  <2>4. (call.address + 2 * call.words) \div 1024 > call.address \div 1024
    <3>1. PICK e \in Nat : e = call.address + 2 * call.words
      BY <2>2
    <3>2. call.address <= address /\ e >= address + 2
      BY <2>1, <2>2, <3>1
    <3>3. QED
      BY <2>1, <2>2, <3>1, <3>2
  <2>5. UNCHANGED call
    BY <1>3 DEF TransferFails
  <2>6. QED
    BY <2>2, <2>3, <2>4, <2>5 DEF OnlyOddFails, CodeSizes
<1>4. QED
  BY <1>1, <1>2, <1>3 DEF Next, DmaOutSteps, Chunk, TransferStarts,
     TransferDone, DmaOutReturn, AsyncCall, AsyncDone, Hardware

\* The inductive invariant of proto_dma_out() and of an asynchronous transfer
\* beside it, for every address and every size.
THEOREM DmaOutCorrect ==
    ASSUME CodeSizes
    PROVE  Spec => [](TypeOK /\ DmaOutInv)
<1>1. TypeOK /\ DmaOutInv /\ [Next]_vars => (TypeOK /\ DmaOutInv)'
  <2>1. ASSUME TypeOK, DmaOutInv, Next PROVE (TypeOK /\ DmaOutInv)'
    BY <2>1, TypeStep, OutStep, AsyncStep, OnlyOddStep DEF DmaOutInv
  <2>2. ASSUME TypeOK, DmaOutInv, UNCHANGED vars PROVE (TypeOK /\ DmaOutInv)'
    <3> USE <2>2 DEF vars, dmaVars, outVars
    <3>1. TypeOK'
      BY DEF TypeOK
    <3>2. OutInv'
      BY DEF DmaOutInv, OutInv, Carries, Transfer, ChunkWords, PageWords
    <3>3. AsyncInv'
      BY DEF DmaOutInv, AsyncInv, Carries, Transfer
    <3>4. OnlyOddFails'
      BY DEF DmaOutInv, OnlyOddFails
    <3>5. QED
      BY <3>1, <3>2, <3>3, <3>4 DEF DmaOutInv
  <2>3. QED
    BY <2>1, <2>2
<1>2. QED
  BY InitOK, <1>1, PTL DEF Spec

\* No transfer crosses a page of ARM9 memory, though dma.c looks at no more
\* than 16 bits of the address.
THEOREM BurstsInPage ==
    ASSUME CodeSizes
    PROVE  Spec => []BurstInPage
<1>1. TypeOK /\ DmaOutInv => BurstInPage
  <2> SUFFICES ASSUME TypeOK, DmaOutInv, NEW c \in started
               PROVE  InOnePage(transfer[c].arm, Length(transfer[c]))
    BY DEF BurstInPage
  <2>1. PICK t : Carries(c, t)
    BY DEF DmaOutInv, OutInv, AsyncInv
  <2>2. QED
    BY <2>1 DEF Carries, Length
<1>2. QED
  BY DmaOutCorrect, <1>1, PTL

\* proto_dma_out() stores the buffer, all of it when it succeeds, and nothing
\* else.
THEOREM BufferArrives ==
    ASSUME CodeSizes
    PROVE  Spec => []OutArrives
<1>1. TypeOK /\ DmaOutInv => OutArrives
  <2> SUFFICES ASSUME TypeOK, DmaOutInv PROVE OutArrives
    OBVIOUS
  <2>1. /\ p \in Nat /\ words \in Nat /\ n \in Nat /\ call.address \in Nat
        /\ moved[OutChannel] \in Nat
    BY DmaOutAssumption DEF TypeOK
  <2>2. PICK w \in Nat : /\ armMemory = Image(call.address, w)
                         /\ w <= call.words
                         /\ pc # "running" => w = p
    <3>1. CASE pc = "running"
      BY <2>1, <3>1 DEF DmaOutInv, OutInv, Carries, Transfer
    <3>2. CASE pc # "running"
      BY <2>1, <3>2 DEF DmaOutInv, OutInv
    <3>3. QED
      BY <3>1, <3>2
  <2>3. call.words \in Nat
    BY DEF TypeOK
  <2>4. Image(call.address, w) \subseteq Image(call.address, call.words)
    BY <2>1, <2>2, <2>3, ImageMonotone
  <2>5. pc = "idle" /\ status = "OK" => w = call.words
    BY <2>1, <2>2 DEF DmaOutInv, OutInv
  <2>6. QED
    BY <2>2, <2>4, <2>5 DEF OutArrives
<1>2. QED
  BY DmaOutCorrect, <1>1, PTL

\* An even address never makes proto_dma_out() fail.
THEOREM EvenNeverFails ==
    ASSUME CodeSizes
    PROVE  Spec => []OnlyOddFails
<1>1. DmaOutInv => OnlyOddFails
  BY DEF DmaOutInv
<1>2. QED
  BY DmaOutCorrect, <1>1, PTL

\* The asynchronous transfer arrives whatever proto_dma_out() does.
THEOREM IncomingArrives ==
    ASSUME CodeSizes
    PROVE  Spec => []AsyncArrives
<1>1. TypeOK /\ DmaOutInv => AsyncArrives
  <2> SUFFICES ASSUME TypeOK, DmaOutInv, async.result = 0
               PROVE  /\ dspMemory \subseteq Image(async.src, async.len)
                      /\ ~dmaTransferIsRunning(async.channel) =>
                           dspMemory = Image(async.src, async.len)
    BY DEF AsyncArrives
  <2>1. /\ async.src \in Nat /\ async.len \in Nat
        /\ moved[async.channel] \in Nat
    BY DEF TypeOK
  <2>2. /\ moved[async.channel] <= async.len
        /\ async.channel \in ended <=> moved[async.channel] = async.len
        /\ dspMemory = Image(async.src, moved[async.channel])
        /\ async.channel # 0
    BY DEF DmaOutInv, AsyncInv, Carries, Transfer
  <2>3. QED
    BY <2>1, <2>2, ImageMonotone DEF dmaTransferIsRunning
<1>2. QED
  BY DmaOutCorrect, <1>1, PTL

\* The channel of the FIFO functions is never touched.
THEOREM FifoUntouched ==
    ASSUME CodeSizes
    PROVE  Spec => []FifoKept
<1>1. DmaOutInv => FifoKept
  BY DmaOutAssumption DEF DmaOutInv, AsyncInv, FifoKept
<1>2. QED
  BY DmaOutCorrect, <1>1, PTL

=============================================================================
