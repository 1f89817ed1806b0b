------------------------- MODULE VcomReceiveProofs -------------------------
(***************************************************************************)
(* For every size of packets and of the receive buffer: EP3_Handler tells  *)
(* new packets from repeated ones, except for the first packet after a     *)
(* SET_CONFIGURATION, and what it has accepted passes through              *)
(* VCOM_rx_buffer, all of it, once and in order.  What a reader makes of   *)
(* the bytes is not part of this.                                          *)
(***************************************************************************)
EXTENDS VcomReceive, SequenceTheorems, TLAPS

\* Unless the host repeats a packet or has been told to start again with
\* DATA0, its next PID is not the one that EP3_Handler has seen last.
ToggleIInv ==
    /\ hostToggle \in {"DATA0", "DATA1"}
    /\ resend = << >> /\ ~reconfigured => g_u32OutToggle # hostToggle

LEMMA OtherPid ==
    ASSUME NEW pid \in {"DATA0", "DATA1"}
    PROVE  Other(pid) \in {"DATA0", "DATA1"} /\ Other(pid) # pid
  BY DEF Other

LEMMA HandlerKeeps ==
    ASSUME ToggleIInv, NEW acknowledged \in BOOLEAN, EP3_Handler(acknowledged)
    PROVE  ToggleIInv'
  <1>1. PICK packet \in HostPackets :
            Receive(packet) /\ resend' = IF acknowledged THEN << >> ELSE <<packet>>
    BY DEF EP3_Handler
  <1>2. g_u32OutToggle' = hostToggle
    BY <1>1 DEF Receive, ep3Vars
  <1>3. hostToggle' = IF acknowledged THEN Other(hostToggle) ELSE hostToggle
    BY DEF EP3_Handler
  <1>4. CASE acknowledged
    BY <1>2, <1>3, <1>4, OtherPid DEF ToggleIInv
  <1>5. CASE ~acknowledged
    BY <1>1, <1>3, <1>5 DEF ToggleIInv
  <1> QED
    BY <1>4, <1>5

LEMMA ToggleInvariance == RxSpec => []ToggleIInv
  <1>1. RxInit => ToggleIInv
    BY DEF RxInit, ToggleIInv
  <1>2. ToggleIInv /\ [RxNext]_rxVars => ToggleIInv'
    <2> SUFFICES ASSUME ToggleIInv, [RxNext]_rxVars PROVE ToggleIInv'
      OBVIOUS
    <2>1. CASE \E acknowledged \in BOOLEAN : EP3_Handler(acknowledged)
      BY <2>1, HandlerKeeps
    <2>2. CASE BusReset \/ SetConfiguration
      BY <2>2 DEF BusReset, SetConfiguration, ToggleIInv
    <2>3. CASE shell_input \/ TransferReceived \/ UNCHANGED rxVars
      BY <2>3 DEF shell_input, TransferReceived, RxTake, RxRelease, rxVars, ep3Vars, hostVars, ToggleIInv
    <2> QED
      BY <2>1, <2>2, <2>3 DEF RxNext
  <1> QED
    BY <1>1, <1>2, PTL DEF RxSpec

(* EP3_Handler accepts every packet that the host sends for the first      *)
(* time, whatever acknowledgements were lost and wherever the bus was      *)
(* reset; it may drop one after a SET_CONFIGURATION.                       *)
THEOREM NewAccepted == RxSpec => NewPacketsAccepted
  <1>1. ASSUME ToggleIInv, NEW acknowledged \in BOOLEAN, EP3_Handler(acknowledged),
               resend = << >>, ~reconfigured
        PROVE  ~ep3Armed'
    BY <1>1 DEF ToggleIInv, EP3_Handler, Receive
  <1>2. ToggleIInv =>
            [\A acknowledged \in BOOLEAN :
                EP3_Handler(acknowledged) /\ resend = << >> /\ ~reconfigured => ~ep3Armed']_rxVars
    BY <1>1
  <1> QED
    BY <1>2, ToggleInvariance, PTL DEF RxSpec, NewPacketsAccepted

-----------------------------------------------------------------------------
(* RxNumbers of bytes *)

LEMMA ModSmall ==
    ASSUME NEW x \in 0 .. RxMod - 1
    PROVE  x % RxMod = x /\ (x + RxMod) % RxMod = x
  BY RxSizesAssumption

\* Counting on from where one has got to.
LEMMA CountOn ==
    ASSUME NEW a \in RxBytes, NEW n \in 0 .. RxMod, NEW k \in 0 .. RxMod, n + k <= RxMod
    PROVE  /\ (a + n) % RxMod \in RxBytes
           /\ (((a + n) % RxMod) + k) % RxMod = (a + n + k) % RxMod
  <1>1. RxMod \in Nat \ {0} /\ a \in 0 .. RxMod - 1
    BY RxSizesAssumption DEF RxBytes
  <1>2. CASE a + n < RxMod
    BY <1>1, <1>2, ModSmall DEF RxBytes
  <1>3. CASE a + n >= RxMod
    <2>1. a + n - RxMod \in 0 .. RxMod - 1 \/ a + n - RxMod = RxMod
      BY <1>1, <1>3
    <2>2. (a + n) % RxMod = a + n - RxMod
      BY <1>1, <1>3, ModSmall, a + n - RxMod \in 0 .. RxMod - 1
    <2>3. (a + n - RxMod + k) % RxMod = (a + n + k) % RxMod
      BY <1>1, <1>3
    <2> QED
      BY <1>1, <1>3, <2>2, <2>3 DEF RxBytes
  <1> QED
    BY <1>1, <1>2, <1>3

\* How many have been counted can be told from the ends.
LEMMA HowMany ==
    ASSUME NEW a \in RxBytes, NEW n \in 0 .. RxMod - 1
    PROVE  (((a + n) % RxMod) + RxMod - a) % RxMod = n
  <1>1. RxMod \in Nat \ {0} /\ a \in 0 .. RxMod - 1
    BY RxSizesAssumption DEF RxBytes
  <1>2. CASE a + n < RxMod
    <2>1. (a + n) % RxMod = a + n
      BY <1>1, <1>2, ModSmall
    <2> QED
      BY <1>1, <2>1, ModSmall
  <1>3. CASE a + n >= RxMod
    <2>1. a + n - RxMod \in 0 .. RxMod - 1
      BY <1>1, <1>3
    <2>2. (a + n) % RxMod = a + n - RxMod
      BY <1>1, <2>1, ModSmall
    <2> QED
      BY <1>1, <2>2, ModSmall
  <1> QED
    BY <1>1, <1>2, <1>3

LEMMA NumbersProperties ==
    ASSUME NEW a \in RxBytes, NEW n \in Nat
    PROVE  /\ RxNumbers(a, n) \in Seq(RxBytes) /\ Len(RxNumbers(a, n)) = n
           /\ \A k \in 1 .. n : RxNumbers(a, n)[k] = (a + k - 1) % RxMod
  <1>1. RxMod \in Nat \ {0} /\ a \in Nat
    BY RxSizesAssumption DEF RxBytes
  <1>2. \A k \in 1 .. n : (a + k - 1) % RxMod \in RxBytes
    BY <1>1 DEF RxBytes
  <1> QED
    BY <1>2 DEF RxNumbers

LEMMA NumbersJoin ==
    ASSUME NEW a \in RxBytes, NEW n \in 0 .. RxMod, NEW k \in 0 .. RxMod, n + k <= RxMod
    PROVE  RxNumbers(a, n) \o RxNumbers((a + n) % RxMod, k) = RxNumbers(a, n + k)
  <1> DEFINE first == RxNumbers(a, n)
             second == RxNumbers((a + n) % RxMod, k)
             both == RxNumbers(a, n + k)
  <1>1. RxMod \in Nat \ {0} /\ (a + n) % RxMod \in RxBytes /\ a \in Nat
    BY CountOn, RxSizesAssumption DEF RxBytes
  <1>2. /\ first \in Seq(RxBytes) /\ Len(first) = n
        /\ second \in Seq(RxBytes) /\ Len(second) = k
        /\ both \in Seq(RxBytes) /\ Len(both) = n + k
    BY <1>1, NumbersProperties
  <1>3. ASSUME NEW i \in 1 .. n + k PROVE (first \o second)[i] = both[i]
    <2>1. both[i] = (a + i - 1) % RxMod
      BY DEF RxNumbers
    <2>2. CASE i <= n
      <3>1. i \in 1 .. n
        BY <2>2
      <3>2. (first \o second)[i] = first[i]
        BY <1>2, <3>1
      <3>3. first[i] = (a + i - 1) % RxMod
        BY <3>1 DEF RxNumbers
      <3> QED
        BY <2>1, <3>2, <3>3
    <2>3. CASE i > n
      <3> DEFINE j == i - n - 1
      <3>1. j \in 0 .. RxMod /\ n + j <= RxMod /\ j + 1 \in 1 .. k /\ i - n = j + 1 /\ j \in Nat /\ n \in Nat
        BY <1>1, <2>3
      <3>2. second[i - n] = (((a + n) % RxMod) + (j + 1) - 1) % RxMod
        BY <3>1 DEF RxNumbers
      <3>3. (((a + n) % RxMod) + j) % RxMod = (a + n + j) % RxMod
        <4> HIDE DEF j
        <4> QED
          BY <3>1, CountOn
      <3>4. (first \o second)[i] = second[i - n]
        BY <1>2, <2>3
      <3>5. a + n + j = a + i - 1 /\ ((a + n) % RxMod) + (j + 1) - 1 = ((a + n) % RxMod) + j
        BY <1>1 DEF RxBytes
      <3> QED
        BY <2>1, <3>2, <3>3, <3>4, <3>5
    <2> QED
      <3>1. n \in Int /\ i \in Int
        BY <1>1
      <3>2. i <= n \/ i > n
        BY <3>1
      <3> QED
        BY <2>2, <2>3, <3>2
  <1>4. first \o second \in Seq(RxBytes) /\ Len(first \o second) = n + k
    BY <1>2
  <1> QED
    BY <1>2, <1>3, <1>4, SeqEqual

-----------------------------------------------------------------------------
(* The stream from the host *)

\* Who holds the buffer of EP3.
Handshake ==
    /\ rxPc = "idle" => ((gi8BulkOutReady = 1) <=> ~ep3Armed)
    /\ rxPc = "clear" => gi8BulkOutReady = 1 /\ ~ep3Armed
    /\ rxPc = "arm" => gi8BulkOutReady = 0 /\ ~ep3Armed

\* A packet that the host repeats has been seen.
RepeatsSeen == resend # << >> => g_u32OutToggle = hostToggle

ResendTyped ==
    resend # << >> =>
        Len(resend) = 1 /\ resend[1] \in Seq(RxBytes) /\ Len(resend[1]) <= RxPacket

Received == rx \o Waiting

\* What is under way is numbered without a gap from what has been taken out
\* up to what EP3_Handler accepts next.
InOrder ==
    /\ Received = RxNumbers(taken, Len(Received))
    /\ sent = (taken + Len(Received)) % RxMod

StreamIInv == RxTypeOK /\ Handshake /\ RepeatsSeen /\ InOrder

\* There are numbers enough for what can be under way.
LEMMA ReceivedBounds ==
    ASSUME RxTypeOK
    PROVE  /\ Waiting \in Seq(RxBytes) /\ Len(Waiting) \in 0 .. RxPacket
           /\ Received \in Seq(RxBytes) /\ Len(Received) = Len(rx) + Len(Waiting)
           /\ Len(Received) \in 0 .. RxMod - 1
           /\ Received = << >> <=> rx = << >> /\ Waiting = << >>
  <1>1. rx \in Seq(RxBytes) /\ Len(rx) \in 0 .. RxSize
    BY RxSizesAssumption DEF RxTypeOK
  <1>2. Waiting \in Seq(RxBytes) /\ Len(Waiting) \in 0 .. RxPacket
    BY RxSizesAssumption DEF RxTypeOK, Waiting
  <1>3. Received \in Seq(RxBytes) /\ Len(Received) = Len(rx) + Len(Waiting)
    BY <1>1, <1>2 DEF Received
  <1>4. Received = << >> <=> rx = << >> /\ Waiting = << >>
    BY <1>1, <1>2, ConcatEqualIffEmpty DEF Received
  <1>5. RxSize \in Nat /\ RxPacket \in Nat /\ RxMod \in Nat /\ RxSize + RxPacket < RxMod
    BY RxSizesAssumption
  <1> QED
    BY <1>1, <1>2, <1>3, <1>4, <1>5

\* A new packet goes on with the numbers, a repetition is dropped.
LEMMA HandlerInOrder ==
    ASSUME StreamIInv, NEW acknowledged \in BOOLEAN, EP3_Handler(acknowledged)
    PROVE  StreamIInv'
  <1> USE DEF StreamIInv
  <1>1. PICK packet \in HostPackets :
            /\ Receive(packet) /\ resend' = (IF acknowledged THEN << >> ELSE <<packet>>)
            /\ sent' = IF ep3Armed' THEN sent ELSE (sent + Len(packet)) % RxMod
    BY DEF EP3_Handler
  <1>2. /\ ep3Armed /\ UNCHANGED <<rxPc, rx, rxEvent, taken>> /\ reconfigured' = FALSE
        /\ hostToggle' = IF acknowledged THEN Other(hostToggle) ELSE hostToggle
    BY DEF EP3_Handler, rxBufferVars
  <1>3. rxPc = "idle" /\ gi8BulkOutReady = 0 /\ Waiting = << >>
    BY <1>2 DEF Handshake, RxTypeOK, Waiting
  <1>4. RxPacket \in Nat \ {0} /\ sent \in RxBytes /\ taken \in RxBytes
    BY RxSizesAssumption DEF RxTypeOK
  <1>5. packet \in Seq(RxBytes) /\ Len(packet) \in 0 .. RxPacket
    <2>1. CASE resend # << >>
      BY <1>4, <2>1 DEF HostPackets, RxTypeOK
    <2>2. CASE resend = << >>
      <3>1. PICK n \in 0 .. RxPacket : packet = RxNumbers(sent, n)
        BY <2>2 DEF HostPackets
      <3>2. n \in Nat /\ n <= RxPacket
        BY <1>4
      <3>3. RxNumbers(sent, n) \in Seq(RxBytes) /\ Len(RxNumbers(sent, n)) = n
        BY <1>4, <3>2, NumbersProperties
      <3> QED
        BY <1>4, <3>1, <3>2, <3>3
    <2> QED
      BY <2>1, <2>2
  <1>6. hostToggle' \in {"DATA0", "DATA1"}
    BY <1>2, OtherPid DEF RxTypeOK
  <1>7. CASE g_u32OutToggle = hostToggle
    <2>1. UNCHANGED <<g_u32OutToggle, gi8BulkOutReady, ep3Armed, ep3Buf, sent>>
      BY <1>1, <1>2, <1>7 DEF Receive, ep3Vars
    <2>2. RxTypeOK'
      <3>1. ResendTyped'
        BY <1>1, <1>4, <1>5 DEF ResendTyped
      <3> QED
        BY <1>2, <1>6, <2>1, <3>1 DEF RxTypeOK, ResendTyped
    <2>3. InOrder'
      BY <1>2, <2>1 DEF InOrder, Received, Waiting
    <2> QED
      BY <1>1, <1>2, <1>7, <2>1, <2>2, <2>3 DEF Handshake, RepeatsSeen
  <1>8. CASE g_u32OutToggle # hostToggle
    <2>1. /\ ep3Buf' = packet /\ g_u32OutToggle' = hostToggle /\ gi8BulkOutReady' = 1
          /\ ep3Armed' = FALSE /\ sent' = (sent + Len(packet)) % RxMod
      BY <1>1, <1>8 DEF Receive
    <2>2. PICK n \in 0 .. RxPacket : packet = RxNumbers(sent, n)
      BY <1>8 DEF RepeatsSeen, HostPackets
    <2>3. /\ Received = rx /\ Len(rx) \in 0 .. RxSize /\ sent = (taken + Len(rx)) % RxMod
          /\ rx = RxNumbers(taken, Len(rx))
      BY <1>3, RxSizesAssumption DEF InOrder, Received, RxTypeOK
    <2>4. /\ n \in Nat /\ n \in 0 .. RxMod /\ Len(rx) \in 0 .. RxMod /\ Len(rx) + n <= RxMod
          /\ Len(rx) + n \in Nat /\ RxMod \in Nat \ {0}
      BY <2>3, RxSizesAssumption
    <2>5. Received' = rx \o packet
      BY <1>2, <1>3, <2>1 DEF Received, Waiting
    <2>6. Received' = RxNumbers(taken, Len(rx) + n)
      BY <1>4, <2>2, <2>3, <2>4, <2>5, NumbersJoin
    <2>7. Len(Received') = Len(rx) + n
      BY <1>4, <2>4, <2>6, NumbersProperties
    <2>8. sent' = (taken + (Len(rx) + n)) % RxMod
      <3>1. Len(packet) = n
        BY <1>4, <2>2, <2>4, NumbersProperties
      <3>2. (((taken + Len(rx)) % RxMod) + n) % RxMod = (taken + Len(rx) + n) % RxMod
        BY <1>4, <2>4, CountOn
      <3> QED
        BY <1>4, <2>1, <2>3, <2>4, <3>1, <3>2 DEF RxBytes
    <2>9. InOrder'
      BY <1>2, <2>1, <2>6, <2>7, <2>8 DEF InOrder
    <2>10. sent' \in RxBytes
      BY <1>4, <2>1, <2>4, <2>8 DEF RxBytes
    <2>11. RxTypeOK'
      <3>1. ResendTyped'
        BY <1>1, <1>4, <1>5 DEF ResendTyped
      <3>2. ep3Buf' \in Seq(RxBytes) /\ Len(ep3Buf') <= RxPacket
        BY <1>4, <1>5, <2>1
      <3>3. g_u32OutToggle' \in {"none", "DATA0", "DATA1"}
        BY <2>1 DEF RxTypeOK
      <3> QED
        BY <1>2, <1>6, <2>1, <2>10, <3>1, <3>2, <3>3 DEF RxTypeOK, ResendTyped
    <2> QED
      BY <1>1, <1>2, <1>3, <2>1, <2>9, <2>11 DEF Handshake, RepeatsSeen
  <1> QED
    BY <1>7, <1>8

\* The buffer is emptied; what waits in the endpoint stays.
LEMMA ShellInOrder == ASSUME StreamIInv, shell_input PROVE StreamIInv'
  <1> USE DEF StreamIInv
  <1>1. /\ UNCHANGED <<rxPc, ep3Vars, hostVars>> /\ rx' = << >> /\ rxEvent' = FALSE
        /\ taken' = (taken + Len(rx)) % RxMod
    BY DEF shell_input
  <1>2. /\ rx \in Seq(RxBytes) /\ Len(rx) \in Nat /\ taken \in RxBytes
        /\ RxMod \in Nat \ {0} /\ Len(rx) \in 0 .. RxMod /\ Len(Waiting) \in 0 .. RxMod
        /\ Len(rx) + Len(Waiting) <= RxMod /\ Waiting \in Seq(RxBytes)
    BY ReceivedBounds, RxSizesAssumption DEF RxTypeOK
  <1>3. taken' = (taken + Len(rx)) % RxMod
    BY <1>1
  <1>4. taken' \in RxBytes
    BY <1>2, <1>3, CountOn
  <1>5. RxTypeOK'
    <2>1. rx' \in Seq(RxBytes) /\ Len(rx') <= RxSize
      BY <1>1, RxSizesAssumption, EmptySeq
    <2>2. rxEvent' \in BOOLEAN
      BY <1>1
    <2>3. UNCHANGED <<rxPc, g_u32OutToggle, gi8BulkOutReady, ep3Armed, ep3Buf, hostToggle, resend,
                      sent, reconfigured>>
      BY <1>1 DEF ep3Vars, hostVars
    <2> QED
      BY <1>4, <2>1, <2>2, <2>3 DEF RxTypeOK
  <1>6. Received' = Waiting /\ Len(Received') = Len(Waiting)
    BY <1>1, <1>2 DEF Received, Waiting, ep3Vars
  <1>7. Waiting = RxNumbers(taken', Len(Waiting))
    <2>1. rx \o Waiting = RxNumbers(taken, Len(rx)) \o RxNumbers(taken', Len(Waiting))
      BY <1>2, <1>3, NumbersJoin, ReceivedBounds DEF InOrder, Received
    <2>2. /\ RxNumbers(taken, Len(rx)) \in Seq(RxBytes) /\ Len(RxNumbers(taken, Len(rx))) = Len(rx)
          /\ RxNumbers(taken', Len(Waiting)) \in Seq(RxBytes)
          /\ Len(RxNumbers(taken', Len(Waiting))) = Len(Waiting)
      BY <1>2, <1>4, NumbersProperties
    <2>3. ASSUME NEW k \in 1 .. Len(Waiting) PROVE Waiting[k] = RxNumbers(taken', Len(Waiting))[k]
      <3> DEFINE first == RxNumbers(taken, Len(rx))
                 second == RxNumbers(taken', Len(Waiting))
      <3> HIDE DEF first, second
      <3>1. (rx \o Waiting)[Len(rx) + k] = Waiting[k] /\ (first \o second)[Len(rx) + k] = second[k]
        BY <1>2, <2>2 DEF first, second
      <3> QED
        BY <2>1, <3>1 DEF first, second
    <2> QED
      BY <1>2, <2>2, <2>3, SeqEqual
  <1>8. sent' = (taken' + Len(Waiting)) % RxMod
    <2> DEFINE n == Len(rx)
               k == Len(Waiting)
    <2>1. sent' = sent /\ sent = (taken + (n + k)) % RxMod
      BY <1>1, ReceivedBounds DEF InOrder, hostVars
    <2>2. n \in 0 .. RxMod /\ k \in 0 .. RxMod /\ n + k <= RxMod
      BY <1>2
    <2>3. (((taken + n) % RxMod) + k) % RxMod = (taken + n + k) % RxMod
      <3> HIDE DEF n, k
      <3> QED
        BY <1>2, <2>2, CountOn
    <2> QED
      BY <1>2, <1>3, <2>1, <2>2, <2>3 DEF RxBytes
  <1>9. InOrder'
    BY <1>6, <1>7, <1>8 DEF InOrder
  <1> QED
    BY <1>1, <1>5, <1>9 DEF Handshake, RepeatsSeen, ep3Vars, hostVars

\* The packet moves from the endpoint to the buffer, all of it.
LEMMA TakeInOrder == ASSUME StreamIInv, RxTake PROVE StreamIInv'
  <1> USE DEF StreamIInv
  <1>1. /\ rxPc = "idle" /\ rxPc' = "clear" /\ gi8BulkOutReady = 1
        /\ Len(ep3Buf) <= RxSize - Len(rx)
        /\ rx' = SubSeq(rx \o ep3Buf, 1, Smaller(RxSize, Len(rx) + Len(ep3Buf)))
        /\ PublishRx
        /\ UNCHANGED <<ep3Vars, hostVars, taken>>
    BY DEF RxTake, Fits
  <1>2. /\ rx \in Seq(RxBytes) /\ ep3Buf \in Seq(RxBytes) /\ RxSize \in Nat
        /\ Len(rx) \in Nat /\ Len(ep3Buf) \in Nat
    BY RxSizesAssumption DEF RxTypeOK
  <1>3. rx' = rx \o ep3Buf /\ Len(rx') = Len(rx) + Len(ep3Buf) /\ rx' \in Seq(RxBytes)
    <2>1. Smaller(RxSize, Len(rx) + Len(ep3Buf)) = Len(rx \o ep3Buf)
      BY <1>1, <1>2 DEF Smaller
    <2>2. rx \o ep3Buf \in Seq(RxBytes) /\ Len(rx \o ep3Buf) = Len(rx) + Len(ep3Buf)
      BY <1>2
    <2> QED
      BY <1>1, <2>1, <2>2, SubSeqFull
  <1>4. Waiting = ep3Buf /\ Waiting' = << >>
    BY <1>1 DEF Waiting, ep3Vars
  <1>5. Received' = Received
    BY <1>3, <1>4 DEF Received
  <1>6. rxEvent' \in BOOLEAN
    BY <1>1 DEF PublishRx, RxTypeOK
  <1>7. RxTypeOK'
    <2>1. rxPc' \in {"idle", "clear", "arm"}
      BY <1>1
    <2>2. rx' \in Seq(RxBytes) /\ Len(rx') <= RxSize
      BY <1>1, <1>2, <1>3
    <2>3. ep3Buf' \in Seq(RxBytes) /\ Len(ep3Buf') <= RxPacket
      BY <1>1 DEF RxTypeOK, ep3Vars
    <2>4. ResendTyped'
      BY <1>1 DEF RxTypeOK, ResendTyped, hostVars
    <2>5. /\ g_u32OutToggle' \in {"none", "DATA0", "DATA1"} /\ hostToggle' \in {"DATA0", "DATA1"}
          /\ gi8BulkOutReady' \in {0, 1} /\ ep3Armed' \in BOOLEAN
      BY <1>1 DEF RxTypeOK, ep3Vars, hostVars
    <2>6. sent' \in RxBytes /\ taken' \in RxBytes /\ reconfigured' \in BOOLEAN
      BY <1>1 DEF RxTypeOK, ep3Vars, hostVars
    <2> QED
      BY <2>1, <2>2, <2>3, <2>4, <2>5, <2>6, <1>6 DEF RxTypeOK, ResendTyped
  <1>8. Handshake' /\ RepeatsSeen'
    BY <1>1 DEF Handshake, RepeatsSeen, ep3Vars, hostVars
  <1>9. InOrder'
    BY <1>1, <1>5 DEF InOrder, hostVars
  <1> QED
    BY <1>7, <1>8, <1>9

(* The numbering of what is under way, the handshake over the buffer of    *)
(* EP3 and the PIDs make an inductive invariant.                           *)
THEOREM StreamInvariance == RxSpec => []StreamIInv
  <1>1. RxInit => StreamIInv
    <2> SUFFICES ASSUME RxInit PROVE StreamIInv
      OBVIOUS
    <2>1. RxMod \in Nat \ {0} /\ 0 \in RxBytes /\ << >> \in Seq(RxBytes) /\ Len(<< >>) = 0
      BY RxSizesAssumption, EmptySeq DEF RxBytes
    <2>2. RxTypeOK
      <3>1. RxSize \in Nat /\ RxPacket \in Nat
        BY RxSizesAssumption
      <3>2. rxPc = "idle" /\ g_u32OutToggle = "none" /\ hostToggle = "DATA0"
        BY DEF RxInit
      <3>3. gi8BulkOutReady = 0 /\ ep3Armed = TRUE /\ rxEvent = FALSE /\ reconfigured = FALSE
        BY DEF RxInit
      <3>4. rx = << >> /\ ep3Buf = << >> /\ resend = << >> /\ sent = 0 /\ taken = 0
        BY DEF RxInit
      <3>5. /\ rx \in Seq(RxBytes) /\ Len(rx) <= RxSize
            /\ ep3Buf \in Seq(RxBytes) /\ Len(ep3Buf) <= RxPacket
        BY <2>1, <3>1, <3>4
      <3>6. sent \in RxBytes /\ taken \in RxBytes
        BY <2>1, <3>1, <3>4
      <3> QED
        BY <3>2, <3>3, <3>4, <3>5, <3>6 DEF RxTypeOK
    <2>3. Received = << >>
      BY <2>1 DEF RxInit, Received, Waiting
    <2>4. RxNumbers(0, 0) = << >>
      BY <2>1, NumbersProperties
    <2>5. InOrder
      BY <2>1, <2>3, <2>4, ModSmall DEF RxInit, InOrder
    <2> QED
      BY <2>2, <2>5 DEF RxInit, StreamIInv, Handshake, RepeatsSeen
  <1>2. StreamIInv /\ [RxNext]_rxVars => StreamIInv'
    <2> SUFFICES ASSUME StreamIInv, [RxNext]_rxVars PROVE StreamIInv'
      OBVIOUS
    <2> USE DEF StreamIInv
    <2>1. CASE \E acknowledged \in BOOLEAN : EP3_Handler(acknowledged)
      BY <2>1, HandlerInOrder
    <2>2. CASE BusReset \/ SetConfiguration
      <3>1. UNCHANGED <<rxPc, rxBufferVars, gi8BulkOutReady, ep3Armed, ep3Buf, sent>>
        BY <2>2 DEF BusReset, SetConfiguration, ep3Vars
      <3>2. /\ hostToggle' = "DATA0" /\ resend' = << >> /\ reconfigured' \in BOOLEAN
            /\ g_u32OutToggle' \in {g_u32OutToggle, "none"}
        BY <2>2 DEF BusReset, SetConfiguration, ep3Vars
      <3>3. RxTypeOK'
        BY <3>1, <3>2, RxSizesAssumption, EmptySeq DEF RxTypeOK, RxBytes, rxBufferVars
      <3>4. InOrder'
        BY <3>1 DEF InOrder, Received, Waiting, rxBufferVars
      <3> QED
        BY <3>1, <3>2, <3>3, <3>4 DEF Handshake, RepeatsSeen
    <2>3. CASE shell_input
      BY <2>3, ShellInOrder
    <2>4. CASE RxTake
      BY <2>4, TakeInOrder
    <2>5. CASE RxRelease
      <3>1. UNCHANGED <<g_u32OutToggle, ep3Buf, hostToggle, resend, sent, reconfigured,
                        rx, rxEvent, taken>>
        BY <2>5 DEF RxRelease, hostVars, rxBufferVars
      <3>2. rxPc' \in {"idle", "arm"} /\ gi8BulkOutReady' \in {0, 1} /\ ep3Armed' \in BOOLEAN
        BY <2>5 DEF RxRelease, RxTypeOK
      <3>5. RxTypeOK'
        BY <3>1, <3>2 DEF RxTypeOK
      <3>6. Handshake' /\ RepeatsSeen'
        BY <2>5, <3>1 DEF RxRelease, Handshake, RepeatsSeen
      <3>3. Waiting' = << >> /\ Waiting = << >>
        BY <2>5, <3>1 DEF RxRelease, Waiting, Handshake
      <3>4. InOrder'
        BY <3>1, <3>3 DEF InOrder, Received
      <3> QED
        BY <3>4, <3>5, <3>6
    <2>6. CASE UNCHANGED rxVars
      BY <2>6 DEF rxVars, ep3Vars, hostVars, rxBufferVars, RxTypeOK, Handshake, RepeatsSeen, InOrder,
                  Received, Waiting
    <2> QED
      BY <2>1, <2>2, <2>3, <2>4, <2>5, <2>6 DEF RxNext, TransferReceived
  <1> QED
    BY <1>1, <1>2, PTL DEF RxSpec

(* The variables have their types; in particular no buffer ever holds more *)
(* than its size.                                                          *)
THEOREM ReceiveTypes == RxSpec => []RxTypeOK
  <1>1. StreamIInv => RxTypeOK
    BY DEF StreamIInv
  <1> QED
    BY <1>1, StreamInvariance, PTL

(* VCOM_rx_buffer and the endpoint hold what EP3_Handler has accepted and  *)
(* nobody has taken out yet, once and in order, for every size of packets  *)
(* and of the buffer, whatever acknowledgements are lost, packets repeated *)
(* and events refused.                                                     *)
THEOREM BufferKeepsOrder == RxSpec => []ReceivedInOrder
  <1>1. StreamIInv => ReceivedInOrder
    <2> SUFFICES ASSUME StreamIInv PROVE ReceivedInOrder
      OBVIOUS
    <2>1. taken \in RxBytes /\ Len(Received) \in 0 .. RxMod - 1
      BY ReceivedBounds DEF StreamIInv, RxTypeOK
    <2>2. (sent + RxMod - taken) % RxMod = Len(Received)
      BY <2>1, HowMany DEF StreamIInv, InOrder
    <2> QED
      BY <2>2 DEF StreamIInv, InOrder, Received, ReceivedInOrder
  <1> QED
    BY <1>1, StreamInvariance, PTL
============================================================================
