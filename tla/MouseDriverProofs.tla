-------------------------- MODULE MouseDriverProofs --------------------------
(***************************************************************************)
(* Theorems about the PS/2 handshake and the two handlers that share its   *)
(* data port, for all poll and drain limits and all movements.             *)
(* The inductive invariant is PortInv; PacketInv adds what becomes of the  *)
(* bytes of a movement behind the port.                                    *)
(***************************************************************************)
EXTENDS MouseDriver, SequenceTheorems, TLAPS

Origins == {<<>>} \cup ((UNION Mice) \X (0 .. 2))
Sources == {"firmware", "controller", "keyboard", "mouse"}
Bytes == [bits : SUBSET (0 .. 7), source : Sources, origin : Origins]
Results == {"running", "Ok", "UnexpectedResponse", "Timeout"}

Types ==
    /\ step \in 1 .. 8 /\ config \in SUBSET (0 .. 7) /\ result \in Results
    /\ cfg \in SUBSET (0 .. 7)
    /\ output \in Seq(Bytes) /\ last \in Bytes /\ latched \in SUBSET {0, 1}
    /\ enabled \in BOOLEAN /\ reports \in BOOLEAN
    /\ unmasked \in SUBSET {0, 1}
    /\ motions \in Mice /\ sending \in motions /\ part \in 0 .. 2
    /\ misread \in BOOLEAN /\ early \in BOOLEAN /\ phantom \in BOOLEAN

\* the mouse port is on and interrupts
Configured == MOUSE_IRQ \in cfg /\ MOUSE_OFF \notin cfg

\* a configuration that may be written
GoodConfig(v) ==
    /\ v \in SUBSET (0 .. 7)
    /\ MOUSE_IRQ \in v /\ MOUSE_OFF \notin v
    /\ ~ misread => KEYBOARD_IRQ \in v

\* A write that the controller has not taken yet: it finds the target that
\* the write before it has chosen, however late it is obeyed.
PendingIsExpected ==
    /\ \/ input = <<>>
       \/ input = <<Command("ENABLE_AUX")>> /\ target = "none"
       \/ input = <<Command("READ_CONFIG")>> /\ target = "none" /\ MOUSE_OFF \notin cfg
       \/ input = <<Command("WRITE_CONFIG")>> /\ target = "none" /\ MOUSE_OFF \notin cfg
       \/ /\ target = "config"
          /\ \E v \in SUBSET (0 .. 7) : GoodConfig(v) /\ input = <<Data(v)>>
       \/ input = <<Command("WRITE_TO_AUX")>> /\ target = "none" /\ Configured
       \/ /\ input = <<Data(MOUSE_ENABLE_PACKETS)>>
          /\ target = "mouse" /\ Configured
    /\ reports => Configured /\ input = <<>>

\* what is in the input buffer, if anything is, when the kernel is at a step
Written(s) ==
    CASE s = 1 -> {}
      [] s = 2 -> {<<Command("ENABLE_AUX")>>}
      [] s \in {3, 4} -> {<<Command("READ_CONFIG")>>}
      [] s = 5 -> {<<Command("WRITE_CONFIG")>>}
      [] s = 6 -> {<<Data(v)>> : v \in {c \in SUBSET (0 .. 7) : MOUSE_IRQ \in c}}
      [] s = 7 -> {<<Command("WRITE_TO_AUX")>>}
      [] s = 8 -> {<<Data(MOUSE_ENABLE_PACKETS)>>}

\* and what the controller expects next when it has taken everything
Awaited(s) == IF s = 5 THEN "config" ELSE IF s = 7 THEN "mouse" ELSE "none"

\* The kernel and the controller are at the same place of the sequence.
InStep ==
    Running =>
        /\ unmasked = {} /\ ~ phantom /\ ~ enabled
        /\ step < 8 => ~ reports
        /\ input # <<>> => input \in Written(step)
        /\ input = <<>> =>
              /\ target = Awaited(step)
              /\ step > 1 => MOUSE_OFF \notin cfg
              /\ step > 5 => MOUSE_IRQ \in cfg
        /\ step <= 3 => ~ misread
        /\ step > 3 /\ ~ misread => KEYBOARD_IRQ \in config

\* An acknowledgement in the buffer is the firmware's, until the kernel has
\* read the configuration, and then the mouse's, with nothing behind it.  The
\* answer to READ_CONFIG comes behind what it finds in the buffer: when another
\* byte has been read in its place, it is still there for the last read to meet.
AnswersAreTheirs ==
    Running =>
        /\ step <= 3 =>
              \A k \in 1 .. Len(output) :
                 /\ output[k].bits = ACK => k = 1
                 /\ output[k].source = "controller" => KEYBOARD_IRQ \in output[k].bits
        /\ step = 3 /\ input = <<>> =>
              output # <<>> /\ output[Len(output)].source = "controller"
        /\ step > 3 =>
              \A k \in 1 .. Len(output) :
                 output[k].bits = ACK => reports /\ (early \/ k = Len(output))
        /\ step > 3 /\ misread /\ input # <<Command("READ_CONFIG")>> =>
              output # <<>> /\ output[1].bits # ACK

\* After a success nothing is left that the keyboard's handler could take for
\* a key: until the mouse is unmasked the port shows the acknowledgement or a
\* key, and from then on the keyboard is requested only by a key.
PortIsQuiet ==
    result = "Ok" =>
        /\ reports /\ ~ misread
        /\ ~ early =>
              /\ ~ phantom /\ Len(output) <= 1
              /\ MOUSE_IRQ \notin unmasked =>
                    /\ output # <<>> => output[1].source = "keyboard"
                    /\ last.bits = ACK \/ last.source = "keyboard"
              /\ MOUSE_IRQ \in unmasked /\ KEYBOARD_IRQ \in latched =>
                    output # <<>> /\ output[1].source = "keyboard"

PortInv ==
    /\ Types
    /\ enabled \/ unmasked = {}
    /\ MOUSE_IRQ \in unmasked => KEYBOARD_IRQ \in unmasked
    /\ ~ misread => KEYBOARD_IRQ \in cfg
    /\ PendingIsExpected
    /\ InStep
    /\ AnswersAreTheirs
    /\ PortIsQuiet

------------------------------------------------------------------------------
(* Bytes at the port and the steps of the sequence.                        *)

\* Taking the front of a buffer.
LEMMA FrontIs ==
    ASSUME NEW S, NEW s \in Seq(S), s # <<>>
    PROVE  /\ Len(s) \in Nat \ {0} /\ Head(s) = s[1] /\ Head(s) \in S
           /\ Tail(s) \in Seq(S) /\ Len(Tail(s)) = Len(s) - 1
           /\ \A k \in 1 .. Len(Tail(s)) : k + 1 \in 1 .. Len(s) /\ Tail(s)[k] = s[k + 1]
           /\ Len(s) = 1 => Tail(s) = <<>>
<1>1. Len(s) \in Nat \ {0}
    BY EmptySeq
<1>2. Head(s) = s[1] /\ Head(s) \in S
    BY <1>1
<1>3. Tail(s) \in Seq(S) /\ Len(Tail(s)) = Len(s) - 1
    BY <1>1
<1>4. \A k \in 1 .. Len(Tail(s)) : k + 1 \in 1 .. Len(s) /\ Tail(s)[k] = s[k + 1]
    BY <1>1, <1>3
<1>5. ASSUME Len(s) = 1 PROVE Tail(s) = <<>>
    <2> DEFINE t == Tail(s)
    <2>1. t \in Seq(S) /\ Len(t) = 0
        BY <1>1, <1>3, <1>5
    <2> HIDE DEF t
    <2>2. t = <<>>
        BY <2>1, EmptySeq
    <2> QED  BY <2>2 DEF t
<1> QED  BY <1>1, <1>2, <1>3, <1>4, <1>5

\* An answer enters at the end.
LEMMA AppendedIs ==
    ASSUME NEW S, NEW s \in Seq(S), NEW e \in S
    PROVE  /\ Append(s, e) \in Seq(S) /\ Append(s, e) # <<>>
           /\ Len(s) \in Nat /\ Len(Append(s, e)) = Len(s) + 1
           /\ \A k \in 1 .. Len(Append(s, e)) :
                 Append(s, e)[k] = IF k <= Len(s) THEN s[k] ELSE e
<1>1. Len(s) \in Nat
    OBVIOUS
<1>2. Append(s, e) \in Seq(S) /\ Len(Append(s, e)) = Len(s) + 1
    OBVIOUS
<1>3. Append(s, e) # <<>>
    BY <1>1, <1>2
<1>4. ASSUME NEW k \in 1 .. Len(Append(s, e))
      PROVE  Append(s, e)[k] = IF k <= Len(s) THEN s[k] ELSE e
    <2>1. k \in 1 .. Len(s) \/ k = Len(s) + 1
        BY <1>1, <1>2
    <2> QED  BY <1>1, <2>1
<1> QED  BY <1>1, <1>2, <1>3, <1>4

\* The head of the buffer requests an interrupt of the two, a byte of the
\* mouse not the keyboard's.
LEMMA RequestedIs ==
    ASSUME NEW s \in Seq(Bytes), NEW c
    PROVE  /\ Requested(s, c) \in SUBSET {0, 1}
           /\ s = <<>> => Requested(s, c) = {}
           /\ s # <<>> /\ s[1].source = "mouse" => 0 \notin Requested(s, c)
<1>1. CASE s = <<>>
    BY <1>1 DEF Requested
<1>2. CASE s # <<>>
    <2>1. Head(s) = s[1]
        BY <1>2, FrontIs
    <2>2. Requested(s, c) = {IrqOf(s[1])} \cap c
        BY <1>2, <2>1 DEF Requested
    <2>3. IrqOf(s[1]) \in {0, 1} /\ (s[1].source = "mouse" => IrqOf(s[1]) = 1)
        BY DEF IrqOf, MOUSE_IRQ, KEYBOARD_IRQ
    <2> QED  BY <1>2, <2>2, <2>3
<1> QED  BY <1>1, <1>2

\* What is not of a movement is a byte, too.
LEMMA ByteIs ==
    ASSUME NEW bits \in SUBSET (0 .. 7), NEW source \in Sources
    PROVE  /\ Byte(bits, source) \in Bytes /\ Byte(bits, source).origin = <<>>
           /\ Byte(bits, source).bits = bits /\ Byte(bits, source).source = source
BY DEF Byte, Bytes, Origins

\* The sequence of commands, step by step.
LEMMA StepsAre ==
    /\ Steps[1] = Command("ENABLE_AUX") /\ Steps[2] = Command("READ_CONFIG")
    /\ Steps[3] = [port |-> "read", value |-> "config"]
    /\ Steps[4] = Command("WRITE_CONFIG") /\ Steps[5] = Data(NewConfig(config))
    /\ Steps[6] = Command("WRITE_TO_AUX") /\ Steps[7] = Data(MOUSE_ENABLE_PACKETS)
    /\ Steps[8] = [port |-> "read", value |-> "ack"]
BY DEF Steps

\* The kernel reads at the third and at the last step.
LEMMA ReadingIs ==
    ASSUME step \in 1 .. 8
    PROVE  /\ Reading <=> step \in {3, 8}
           /\ step = 3 => Steps[step].value = "config" /\ Steps[step].value # "ack"
           /\ step = 8 => Steps[step].value = "ack" /\ Steps[step].value # "config"
<1>1. step \in {1, 2, 3, 4, 5, 6, 7, 8}
    OBVIOUS
<1> QED  BY <1>1, StepsAre DEF Reading, Command, Data

------------------------------------------------------------------------------
(* The kernel.                                                             *)

\* what a step of the handshake leaves alone in MouseDriver
Undisturbed == UNCHANGED <<unmasked, motions, sending, part, early, phantom>>

\* A write finds the controller where the sequence is, as it waits for an
\* empty buffer.
LEMMA WriteKeeps ==
    ASSUME PortInv, Write, Undisturbed
    PROVE  PortInv'
<1> USE DEF Undisturbed
<1>0. /\ step \in 1 .. 8 /\ input = <<>> /\ step' = step + 1 /\ input' = <<Steps[step]>>
      /\ Running /\ result' = result /\ config' = config /\ cfg' = cfg /\ target' = target
      /\ reports' = reports /\ misread' = misread /\ enabled' = enabled
      /\ output' = output /\ last' = last /\ latched' = latched
    BY DEF Write, PortInv, Types, port
<1>1. step \in {1, 2, 4, 5, 6, 7}
    <2>1. step \in {1, 2, 3, 4, 5, 6, 7, 8}
        BY <1>0
    <2> QED  BY <1>0, <2>1, ReadingIs DEF Write
<1>2. /\ unmasked = {} /\ ~ phantom /\ ~ enabled /\ ~ reports
      /\ target = Awaited(step)
      /\ step > 1 => MOUSE_OFF \notin cfg
      /\ step > 5 => MOUSE_IRQ \in cfg
      /\ step <= 3 => ~ misread
      /\ step > 3 /\ ~ misread => KEYBOARD_IRQ \in config
    BY <1>0, <1>1 DEF PortInv, InStep
<1>3. Types'
    <2>1. step' \in 1 .. 8
        BY <1>0, <1>1
    <2> QED  BY <1>0, <2>1 DEF PortInv, Types
<1>4. GoodConfig(NewConfig(config)) \/ step < 4
    <2>1. NewConfig(config) \in SUBSET (0 .. 7)
        BY DEF PortInv, Types, NewConfig, MOUSE_IRQ, MOUSE_OFF
    <2> QED  BY <1>1, <1>2, <2>1 DEF GoodConfig, NewConfig, MOUSE_IRQ, MOUSE_OFF, KEYBOARD_IRQ
<1>5. /\ PendingIsExpected'
      /\ input' \in Written(step')
    <2>1. CASE step = 1
        <3>1. input' = <<Command("ENABLE_AUX")>> /\ target' = "none" /\ step' = 2 /\ ~ reports'
            BY <1>0, <1>2, <2>1, StepsAre DEF Awaited
        <3> QED  BY <3>1 DEF PendingIsExpected, Written
    <2>2. CASE step = 2
        <3>1. /\ input' = <<Command("READ_CONFIG")>> /\ target' = "none" /\ step' = 3
              /\ MOUSE_OFF \notin cfg' /\ ~ reports'
            BY <1>0, <1>2, <2>2, StepsAre DEF Awaited
        <3> QED  BY <3>1 DEF PendingIsExpected, Written
    <2>3. CASE step = 4
        <3>1. /\ input' = <<Command("WRITE_CONFIG")>> /\ target' = "none" /\ step' = 5
              /\ MOUSE_OFF \notin cfg' /\ ~ reports'
            BY <1>0, <1>2, <2>3, StepsAre DEF Awaited
        <3> QED  BY <3>1 DEF PendingIsExpected, Written
    <2>4. CASE step = 5
        <3>1. /\ input' = <<Data(NewConfig(config))>> /\ target' = "config" /\ step' = 6
              /\ ~ reports'
            BY <1>0, <1>2, <2>4, StepsAre DEF Awaited
        <3>2. GoodConfig(NewConfig(config)) /\ NewConfig(config) \in SUBSET (0 .. 7)
            BY <1>4, <2>4 DEF GoodConfig
        <3>3. \E v \in SUBSET (0 .. 7) : GoodConfig(v)' /\ input' = <<Data(v)>>
            <4> DEFINE v == NewConfig(config)
            <4>1. v \in SUBSET (0 .. 7) /\ input' = <<Data(v)>>
                BY <3>1, <3>2
            <4>2. /\ v \in SUBSET (0 .. 7) /\ MOUSE_IRQ \in v /\ MOUSE_OFF \notin v
                  /\ ~ misread' => KEYBOARD_IRQ \in v
                BY <1>0, <3>2 DEF GoodConfig
            <4> HIDE DEF v
            <4> QED  BY <4>1, <4>2 DEF GoodConfig
        <3>4. input' \in Written(step')
            BY <3>1, <3>2 DEF Written, GoodConfig
        <3> QED  BY <3>1, <3>3, <3>4 DEF PendingIsExpected
    <2>5. CASE step = 6
        <3>1. /\ input' = <<Command("WRITE_TO_AUX")>> /\ target' = "none" /\ step' = 7
              /\ Configured' /\ ~ reports'
            BY <1>0, <1>2, <2>5, StepsAre DEF Awaited, Configured
        <3> QED  BY <3>1 DEF PendingIsExpected, Written
    <2>6. CASE step = 7
        <3>1. /\ input' = <<Data(MOUSE_ENABLE_PACKETS)>> /\ target' = "mouse" /\ step' = 8
              /\ Configured' /\ ~ reports'
            BY <1>0, <1>2, <2>6, StepsAre DEF Awaited, Configured
        <3> QED  BY <3>1 DEF PendingIsExpected, Written
    <2> QED  BY <1>1, <2>1, <2>2, <2>3, <2>4, <2>5, <2>6
<1>6. InStep'
    <2>1. (step' > 3 => step > 3) /\ (step' <= 3 => step <= 3)
        BY <1>0, <1>1
    <2>2. input' # <<>>
        BY <1>0
    <2> QED  BY <1>0, <1>2, <1>5, <2>1, <2>2 DEF InStep
<1>7. AnswersAreTheirs'
    <2>1. input' # <<>> /\ input # <<Command("READ_CONFIG")>>
        BY <1>0
    <2>2. (step' <= 3 => step <= 3) /\ (step' > 3 => step > 3) /\ Running'
        BY <1>0, <1>1 DEF Running
    <2> QED  BY <1>0, <2>1, <2>2 DEF PortInv, AnswersAreTheirs
<1>8. PortIsQuiet'
    BY <1>0 DEF PortIsQuiet, Running
<1> QED  BY <1>0, <1>2, <1>3, <1>5, <1>6, <1>7, <1>8 DEF PortInv

\* Polling the byte at the head keeps the port's types.
LEMMA TakeByteIs ==
    ASSUME Types, output # <<>>, TakeByte
    PROVE  /\ output' \in Seq(Bytes) /\ last' \in Bytes /\ latched' \in SUBSET {0, 1}
           /\ output' = Tail(output) /\ last' = output[1] /\ Head(output) = output[1]
<1>0. output \in Seq(Bytes) /\ latched \in SUBSET {0, 1}
    BY DEF Types
<1>1. /\ output' = Tail(output) /\ last' = output[1] /\ Head(output) = output[1]
      /\ output' \in Seq(Bytes) /\ last' \in Bytes
    BY <1>0, FrontIs DEF TakeByte
<1>2. PICK kept \in {latched, latched \ {IrqOf(Head(output))}} :
          latched' = kept \cup Requested(output', cfg)
    BY DEF TakeByte
<1>3. Requested(output', cfg) \in SUBSET {0, 1}
    BY <1>1, RequestedIs
<1> QED  BY <1>0, <1>1, <1>2, <1>3

\* The configuration is read, or another byte in its place.
LEMMA ReadConfigKeeps ==
    ASSUME PortInv, Read, step = 3, Undisturbed
    PROVE  PortInv'
<1> USE DEF Undisturbed
<1>0. /\ Running /\ output # <<>> /\ TakeByte /\ input' = input /\ target' = target
      /\ cfg' = cfg /\ reports' = reports /\ enabled' = enabled
    BY DEF Read
<1>1. /\ config' = Head(output).bits /\ step' = 4 /\ result' = result
      /\ misread' = (Head(output).source # "controller")
    <2>1. step \in 1 .. 8 /\ Steps[step].value # "ack"
        BY ReadingIs DEF PortInv, Types
    <2> QED  BY <2>1 DEF Read
<1>2. /\ output' \in Seq(Bytes) /\ last' \in Bytes /\ latched' \in SUBSET {0, 1}
      /\ output' = Tail(output) /\ Head(output) = output[1]
    BY <1>0, TakeByteIs DEF PortInv
<1>3. /\ Len(output) \in Nat \ {0} /\ Head(output) \in Bytes /\ Len(output') = Len(output) - 1
      /\ \A k \in 1 .. Len(output') : k + 1 \in 1 .. Len(output) /\ output'[k] = output[k + 1]
    BY <1>0, <1>2, FrontIs DEF PortInv, Types
<1>4. Types'
    <2>1. config' \in SUBSET (0 .. 7) /\ step' \in 1 .. 8
        BY <1>1, <1>3 DEF Bytes
    <2>2. misread' \in BOOLEAN
        BY <1>1
    <2> QED  BY <1>0, <1>1, <1>2, <2>1, <2>2 DEF PortInv, Types
<1>5. /\ unmasked = {} /\ ~ phantom /\ ~ enabled /\ ~ reports /\ ~ misread
      /\ input # <<>> => input \in Written(4) /\ input = <<Command("READ_CONFIG")>>
      /\ input = <<>> => target = "none" /\ MOUSE_OFF \notin cfg
    BY <1>0 DEF PortInv, InStep, Written, Awaited
<1>6. PendingIsExpected'
    <2>1. input = <<>> \/ (input = <<Command("READ_CONFIG")>> /\ target = "none" /\ MOUSE_OFF \notin cfg)
        BY <1>5 DEF PortInv, PendingIsExpected, Command, Data
    <2> QED  BY <1>0, <1>5, <2>1 DEF PendingIsExpected
<1>7. InStep'
    <2>1. ~ misread' => KEYBOARD_IRQ \in config'
        <3>1. 1 \in 1 .. Len(output)
            BY <1>3
        <3>2. output[1].source = "controller" => KEYBOARD_IRQ \in output[1].bits
            BY <1>0, <3>1 DEF PortInv, AnswersAreTheirs
        <3> QED  BY <1>1, <1>2, <3>2
    <2>2. Awaited(4) = "none"
        BY DEF Awaited
    <2> QED  BY <1>0, <1>1, <1>5, <2>1, <2>2 DEF InStep
<1>8. AnswersAreTheirs'
    <2>1. ASSUME NEW k \in 1 .. Len(output') PROVE output'[k].bits # ACK
        <3>1. k + 1 \in 1 .. Len(output) /\ output'[k] = output[k + 1] /\ k + 1 # 1
            BY <1>3
        <3>2. output[k + 1].bits = ACK => k + 1 = 1
            BY <1>0, <3>1 DEF PortInv, AnswersAreTheirs
        <3> QED  BY <3>1, <3>2
    \* the answer is behind the byte that was read
    <2>2. ASSUME misread', input # <<Command("READ_CONFIG")>>
          PROVE  output' # <<>> /\ output'[1].bits # ACK
        <3>1. input = <<>>
            BY <1>5, <2>2
        <3>2. output[Len(output)].source = "controller"
            BY <1>0, <3>1 DEF PortInv, AnswersAreTheirs
        <3>3. Len(output) # 1
            BY <1>1, <1>2, <2>2, <3>2
        <3>4. 1 \in 1 .. Len(output') /\ output' # <<>>
            BY <1>3, <3>3
        <3> QED  BY <2>1, <3>4
    <2> QED  BY <1>0, <1>1, <2>1, <2>2 DEF AnswersAreTheirs
<1>9. PortIsQuiet'
    BY <1>0, <1>1 DEF PortIsQuiet, Running
<1>10. KEYBOARD_IRQ \in cfg'
    BY <1>0, <1>5 DEF PortInv
<1> QED  BY <1>0, <1>4, <1>5, <1>6, <1>7, <1>8, <1>9, <1>10 DEF PortInv

\* The acknowledgement is read: if it is one, it is the mouse's.
LEMMA ReadAckKeeps ==
    ASSUME PortInv, Read, step = 8, Undisturbed
    PROVE  PortInv'
<1> USE DEF Undisturbed
<1>0. /\ Running /\ output # <<>> /\ TakeByte /\ input' = input /\ target' = target
      /\ cfg' = cfg /\ reports' = reports /\ enabled' = enabled
    BY DEF Read
<1>1. /\ result' = IF Head(output).bits = ACK THEN "Ok" ELSE "UnexpectedResponse"
      /\ step' = step /\ config' = config /\ misread' = misread
    <2>1. step \in 1 .. 8 /\ Steps[step].value # "config"
        BY ReadingIs DEF PortInv, Types
    <2> QED  BY <2>1 DEF Read
<1>2. /\ output' \in Seq(Bytes) /\ last' \in Bytes /\ latched' \in SUBSET {0, 1}
      /\ output' = Tail(output) /\ last' = output[1] /\ Head(output) = output[1]
    BY <1>0, TakeByteIs DEF PortInv
<1>3. 1 \in 1 .. Len(output) /\ (Len(output) = 1 => output' = <<>>)
    BY <1>0, <1>2, FrontIs DEF PortInv, Types
<1>4. Types'
    BY <1>0, <1>1, <1>2 DEF PortInv, Types, Results
<1>5. PendingIsExpected'
    BY <1>0, <1>1 DEF PortInv, PendingIsExpected, Configured, GoodConfig
<1>6. ~ Running' /\ InStep' /\ AnswersAreTheirs'
    BY <1>1 DEF InStep, AnswersAreTheirs, Running
<1>7. PortIsQuiet'
    <2> SUFFICES ASSUME result' = "Ok" PROVE PortIsQuiet'
        BY DEF PortIsQuiet
    <2>1. output[1].bits = ACK
        BY <1>1, <1>2
    <2>2. reports /\ (early \/ 1 = Len(output))
        <3>1. \A k \in 1 .. Len(output) : output[k].bits = ACK => reports /\ (early \/ k = Len(output))
            BY <1>0 DEF PortInv, AnswersAreTheirs
        <3> QED  BY <1>3, <2>1, <3>1
    <2>4. ~ misread
        <3>1. input # <<Command("READ_CONFIG")>>
            BY <1>0 DEF PortInv, InStep, Written, Command, Data
        <3> QED  BY <1>0, <2>1, <3>1 DEF PortInv, AnswersAreTheirs
    <2>5. early \/ Len(output') <= 1
        <3>1. Len(<<>>) <= 1
            OBVIOUS
        <3> QED  BY <1>3, <2>2, <3>1
    <2>3. unmasked = {} /\ ~ phantom
        BY <1>0 DEF PortInv, InStep
    <2> QED  BY <1>0, <1>1, <1>2, <1>3, <2>1, <2>2, <2>3, <2>4, <2>5 DEF PortIsQuiet
<1> QED  BY <1>0, <1>1, <1>4, <1>5, <1>6, <1>7 DEF PortInv

\* Polling, giving up, draining and enabling interrupts.
LEMMA PollKeeps ==
    ASSUME PortInv, Poll \/ Timeout, Undisturbed
    PROVE  PortInv'
<1> USE DEF Undisturbed
<1>0. /\ UNCHANGED <<step, config, enabled, device>> /\ Running
      /\ result' = result \/ result' = "Timeout"
    BY DEF Poll, Timeout
<1>1. Types'
    BY <1>0 DEF PortInv, Types, Results, device, port
<1>2. PendingIsExpected'
    BY <1>0 DEF PortInv, PendingIsExpected, Configured, GoodConfig, device, port
<1>3. InStep'
    BY <1>0 DEF PortInv, InStep, Running, Written, device, port
<1>4. AnswersAreTheirs'
    BY <1>0 DEF PortInv, AnswersAreTheirs, Running, device, port
<1>5. PortIsQuiet'
    BY <1>0 DEF PortIsQuiet, Running
<1> QED  BY <1>0, <1>1, <1>2, <1>3, <1>4, <1>5 DEF PortInv, device, port

\* drain_ps2_output finds only keys after a success in which the mouse rested.
LEMMA DrainKeeps ==
    ASSUME PortInv, Drain, Undisturbed
    PROVE  PortInv'
<1> USE DEF Undisturbed
<1>0. /\ ~ Running /\ ~ enabled /\ output # <<>> /\ TakeByte
      /\ UNCHANGED <<step, config, result, enabled, input, target, cfg, reports, misread>>
    BY DEF Drain
<1>1. /\ output' \in Seq(Bytes) /\ last' \in Bytes /\ latched' \in SUBSET {0, 1}
      /\ output' = Tail(output) /\ last' = output[1]
    BY <1>0, TakeByteIs DEF PortInv
<1>2. Types'
    BY <1>0, <1>1 DEF PortInv, Types
<1>3. PendingIsExpected'
    BY <1>0 DEF PortInv, PendingIsExpected, Configured, GoodConfig
<1>4. InStep' /\ AnswersAreTheirs'
    BY <1>0 DEF InStep, AnswersAreTheirs, Running
<1>5. PortIsQuiet'
    <2>1. /\ Len(output) \in Nat \ {0} /\ Len(output') = Len(output) - 1
          /\ Len(output) = 1 => output' = <<>>
        BY <1>0, <1>1, FrontIs DEF PortInv, Types
    <2>2. unmasked = {}
        BY <1>0 DEF PortInv
    <2>3. ASSUME result = "Ok", ~ early
          PROVE  output' = <<>> /\ Len(output') <= 1 /\ last'.source = "keyboard" /\ ~ phantom
        <3>1. Len(output) <= 1 /\ output[1].source = "keyboard" /\ ~ phantom
            BY <1>0, <2>2, <2>3 DEF PortInv, PortIsQuiet
        <3> QED  BY <1>1, <2>1, <3>1
    <2> QED  BY <1>0, <2>2, <2>3 DEF PortInv, PortIsQuiet
<1> QED  BY <1>0, <1>2, <1>3, <1>4, <1>5 DEF PortInv

\* Enabling interrupts touches no device.
LEMMA EnableInterruptsKeeps ==
    ASSUME PortInv, EnableInterrupts, Undisturbed
    PROVE  PortInv'
<1> USE DEF Undisturbed
<1>0. /\ ~ Running /\ enabled' = TRUE /\ step' = 1 /\ config' = {}
      /\ UNCHANGED <<result, device>>
    BY DEF EnableInterrupts
<1>1. Types'
    BY <1>0 DEF PortInv, Types, device, port
<1>2. PendingIsExpected'
    BY <1>0 DEF PortInv, PendingIsExpected, Configured, GoodConfig, device, port
<1>3. InStep' /\ AnswersAreTheirs'
    BY <1>0 DEF InStep, AnswersAreTheirs, Running
<1>4. PortIsQuiet'
    BY <1>0 DEF PortInv, PortIsQuiet, device, port
<1> QED  BY <1>0, <1>1, <1>2, <1>3, <1>4 DEF PortInv, device, port

\* Every step of the boot code keeps the invariant.
LEMMA HandshakeKeeps ==
    ASSUME PortInv, Handshake
    PROVE  PortInv'
<1>1. Undisturbed /\ Kernel
    BY DEF Handshake, Undisturbed, mouseVars
<1>2. CASE Read
    <2>1. step \in {3, 8}
        BY <1>2, ReadingIs DEF Read, PortInv, Types
    <2> QED  BY <1>1, <1>2, <2>1, ReadConfigKeeps, ReadAckKeeps
<1> QED  BY <1>1, <1>2, WriteKeeps, PollKeeps, DrainKeeps, EnableInterruptsKeeps DEF Kernel

------------------------------------------------------------------------------
(* The controller.                                                         *)

\* what the controller leaves alone
Observed == UNCHANGED <<step, config, result, enabled, last, misread, unmasked,
                        motions, sending, part, early, phantom>>

\* A command or a byte that makes the controller answer nothing.
LEMMA SilentKeeps ==
    ASSUME PortInv, Observed, input # <<>>, input' = <<>>,
           output' = output, latched' = latched \cup Requested(output', cfg'),
           reports' = reports, cfg' \in SUBSET (0 .. 7),
           ~ misread => KEYBOARD_IRQ \in cfg', input # <<Command("READ_CONFIG")>>,
           Running => /\ target' = Awaited(step)
                      /\ step > 1 => MOUSE_OFF \notin cfg'
                      /\ step > 5 => MOUSE_IRQ \in cfg'
    PROVE  PortInv'
<1> USE DEF Observed
<1>1. ~ reports
    BY DEF PortInv, PendingIsExpected
<1>2. Types'
    <2>1. Requested(output, cfg') \in SUBSET {0, 1}
        BY RequestedIs DEF PortInv, Types
    <2>2. latched' \in SUBSET {0, 1}
        BY <2>1 DEF PortInv, Types
    <2> QED  BY <2>2 DEF PortInv, Types
<1>3. PendingIsExpected'
    BY <1>1 DEF PendingIsExpected
<1>4. InStep'
    BY DEF PortInv, InStep, Running
<1>5. AnswersAreTheirs'
    <2>1. Running => step # 3
        BY DEF PortInv, InStep, Written
    <2> QED  BY <2>1 DEF PortInv, AnswersAreTheirs, Running
<1>6. PortIsQuiet'
    BY <1>1 DEF PortInv, PortIsQuiet
<1> QED  BY <1>2, <1>3, <1>4, <1>5, <1>6 DEF PortInv

\* It answers with the configuration, from which it has removed MOUSE_OFF.
LEMMA AnswerConfigKeeps ==
    ASSUME PortInv, Observed, input # <<>>, input' = <<>>,
           input \in Written(3), target = "none", target' = "none", MOUSE_OFF \notin cfg,
           output' = Append(output, Byte(cfg, "controller")),
           latched' = latched \cup Requested(output', cfg'),
           reports' = reports, cfg' = cfg
    PROVE  PortInv'
<1> USE DEF Observed
<1>0. /\ cfg \in SUBSET (0 .. 7) /\ output \in Seq(Bytes)
      /\ ~ misread => KEYBOARD_IRQ \in cfg
      /\ step \in 1 .. 8
    BY DEF PortInv, Types
<1> DEFINE byte == Byte(cfg, "controller")
<1>1. byte \in Bytes /\ byte.bits = cfg /\ byte.source = "controller"
    BY <1>0, ByteIs DEF Sources
<1>2. byte.bits # ACK
    BY <1>1 DEF ACK, MOUSE_OFF
<1> HIDE DEF byte
<1>3. /\ output' \in Seq(Bytes) /\ Len(output) \in Nat /\ Len(output') = Len(output) + 1
      /\ output' # <<>>
      /\ \A k \in 1 .. Len(output') : output'[k] = IF k <= Len(output) THEN output[k] ELSE byte
    BY <1>0, <1>1, AppendedIs DEF byte
<1>4. ~ reports
    BY DEF PortInv, PendingIsExpected
<1>5. Types'
    <2>1. Requested(output', cfg') \in SUBSET {0, 1}
        BY <1>3, RequestedIs
    <2>2. latched' \in SUBSET {0, 1}
        BY <2>1 DEF PortInv, Types
    <2> QED  BY <1>3, <2>2 DEF PortInv, Types
<1>6. PendingIsExpected'
    BY <1>4 DEF PendingIsExpected
<1>7. Running => step \in {3, 4}
    <2> SUFFICES ASSUME Running PROVE step \in {3, 4}
        OBVIOUS
    <2>1. input = <<Command("READ_CONFIG")>>
        BY DEF Written
    <2>2. input \in Written(step)
        BY DEF PortInv, InStep
    <2>3. step \in {1, 2, 3, 4, 5, 6, 7, 8}
        BY <1>0
    <2> QED  BY <2>1, <2>2, <2>3 DEF Written, Command, Data
<1>8. InStep'
    BY <1>7 DEF PortInv, InStep, Running, Awaited
<1>9. AnswersAreTheirs'
    <2> SUFFICES ASSUME Running PROVE AnswersAreTheirs'
        BY DEF AnswersAreTheirs, Running
    <2>1. ASSUME NEW k \in 1 .. Len(output')
          PROVE  /\ step <= 3 =>
                       /\ output'[k].bits = ACK => k = 1
                       /\ output'[k].source = "controller" => KEYBOARD_IRQ \in output'[k].bits
                 /\ step > 3 => output'[k].bits # ACK
        <3>1. CASE k <= Len(output)
            <4>1. k \in 1 .. Len(output) /\ output'[k] = output[k]
                BY <1>3, <3>1
            <4> QED  BY <1>4, <4>1 DEF PortInv, AnswersAreTheirs
        <3>2. CASE ~ (k <= Len(output))
            <4>1. output'[k] = byte
                BY <1>3, <3>2
            <4>2. step <= 3 => ~ misread
                BY DEF PortInv, InStep
            <4> QED  BY <1>0, <1>1, <1>2, <4>1, <4>2
        <3> QED  BY <3>1, <3>2
    <2>2. output'[Len(output')].source = "controller"
        <3>1. Len(output') \in 1 .. Len(output') /\ ~ (Len(output') <= Len(output))
            BY <1>3
        <3>2. output'[Len(output')] = byte
            BY <1>3, <3>1
        <3> QED  BY <1>1, <3>2
    <2>3. step > 3 => output'[1].bits # ACK
        <3>1. 1 \in 1 .. Len(output')
            BY <1>3
        <3> QED  BY <2>1, <3>1
    <2> QED  BY <1>3, <2>1, <2>2, <2>3 DEF AnswersAreTheirs
<1>10. PortIsQuiet'
    BY <1>4 DEF PortInv, PortIsQuiet
<1> QED  BY <1>5, <1>6, <1>8, <1>9, <1>10 DEF PortInv

\* The mouse acknowledges, and reports from now on.
LEMMA AcknowledgeKeeps ==
    ASSUME PortInv, Observed, input' = <<>>,
           input = <<Data(MOUSE_ENABLE_PACKETS)>>, target = "mouse", target' = "none",
           Configured, ~ reports,
           output' = Append(output, Byte(ACK, "mouse")),
           latched' = latched \cup Requested(output', cfg'),
           reports' = TRUE, cfg' = cfg
    PROVE  PortInv'
<1> USE DEF Observed
<1>0. output \in Seq(Bytes) /\ step \in 1 .. 8
    BY DEF PortInv, Types
<1> DEFINE byte == Byte(ACK, "mouse")
<1>1. byte \in Bytes
    BY ByteIs DEF ACK, Sources
<1> HIDE DEF byte
<1>2. /\ output' \in Seq(Bytes) /\ Len(output) \in Nat /\ Len(output') = Len(output) + 1
      /\ \A k \in 1 .. Len(output') : output'[k] = IF k <= Len(output) THEN output[k] ELSE byte
    BY <1>0, <1>1, AppendedIs DEF byte
<1>3. Types'
    <2>1. Requested(output', cfg') \in SUBSET {0, 1}
        BY <1>2, RequestedIs
    <2>2. latched' \in SUBSET {0, 1}
        BY <2>1 DEF PortInv, Types
    <2> QED  BY <1>2, <2>2 DEF PortInv, Types
<1>4. PendingIsExpected'
    BY DEF PendingIsExpected, Configured
<1>5. Running => step = 8
    <2> SUFFICES ASSUME Running PROVE step = 8
        OBVIOUS
    <2>1. input \in Written(step)
        BY DEF PortInv, InStep
    <2>2. step \in {1, 2, 3, 4, 5, 6, 7, 8}
        BY <1>0
    <2>3. step # 6
        <3> SUFFICES ASSUME step = 6 PROVE FALSE
            OBVIOUS
        <3>1. PICK v \in SUBSET (0 .. 7) : MOUSE_IRQ \in v /\ input = <<Data(v)>>
            BY <2>1 DEF Written
        <3>2. v = MOUSE_ENABLE_PACKETS
            BY <3>1 DEF Data
        <3> QED  BY <3>1, <3>2 DEF MOUSE_IRQ, MOUSE_ENABLE_PACKETS
    <2> QED  BY <2>1, <2>2, <2>3 DEF Written, Command, Data
<1>6. InStep'
    BY <1>5 DEF PortInv, InStep, Running, Awaited, Configured
<1>7. AnswersAreTheirs'
    <2> SUFFICES ASSUME Running PROVE AnswersAreTheirs'
        BY DEF AnswersAreTheirs, Running
    <2>1. ASSUME NEW k \in 1 .. Len(output') PROVE output'[k].bits = ACK => k = Len(output')
        <3>1. CASE k <= Len(output)
            <4>1. k \in 1 .. Len(output) /\ output'[k] = output[k]
                BY <1>2, <3>1
            <4>2. output[k].bits # ACK
                BY <1>5, <4>1 DEF PortInv, AnswersAreTheirs
            <4> QED  BY <4>1, <4>2
        <3>2. CASE ~ (k <= Len(output))
            BY <1>2, <3>2
        <3> QED  BY <3>1, <3>2
    <2>2. ASSUME misread PROVE output' # <<>> /\ output'[1].bits # ACK
        <3>1. input # <<Command("READ_CONFIG")>>
            BY DEF Command, Data
        <3>2. output # <<>> /\ output[1].bits # ACK
            BY <1>5, <2>2, <3>1 DEF PortInv, AnswersAreTheirs
        <3>3. 1 \in 1 .. Len(output') /\ 1 <= Len(output)
            BY <1>0, <1>2, <3>2, EmptySeq
        <3>4. output'[1] = output[1]
            BY <1>2, <3>3
        <3> QED  BY <3>2, <3>3, <3>4
    <2> QED  BY <1>5, <2>1, <2>2 DEF AnswersAreTheirs
<1>8. PortIsQuiet'
    BY DEF PortInv, PortIsQuiet
<1> QED  BY <1>3, <1>4, <1>6, <1>7, <1>8 DEF PortInv

\* Where the kernel is when the controller takes a given write.
LEMMA StepOfWrite ==
    ASSUME PortInv, Running, NEW x, input = <<x>>
    PROVE  /\ x = Command("ENABLE_AUX") => step = 2
           /\ x = Command("WRITE_CONFIG") => step = 5
           /\ x = Command("WRITE_TO_AUX") => step = 7
           /\ x.port = "data" /\ MOUSE_IRQ \in x.value => step = 6
<1>1. input \in Written(step)
    BY DEF PortInv, InStep
<1>2. step \in {1, 2, 3, 4, 5, 6, 7, 8}
    BY DEF PortInv, Types
<1>3. MOUSE_IRQ \notin MOUSE_ENABLE_PACKETS
    BY DEF MOUSE_IRQ, MOUSE_ENABLE_PACKETS
<1>4. step = 1 => FALSE
    BY <1>1 DEF Written
<1>5. step = 2 => x = Command("ENABLE_AUX")
    BY <1>1 DEF Written
<1>6. step \in {3, 4} => x = Command("READ_CONFIG")
    BY <1>1 DEF Written
<1>7. step = 5 => x = Command("WRITE_CONFIG")
    BY <1>1 DEF Written
<1>8. step = 6 => x.port = "data"
    BY <1>1 DEF Written, Data
<1>9. step = 7 => x = Command("WRITE_TO_AUX")
    BY <1>1 DEF Written
<1>10. step = 8 => x = Data(MOUSE_ENABLE_PACKETS)
    BY <1>1 DEF Written
<1> QED  BY <1>2, <1>3, <1>4, <1>5, <1>6, <1>7, <1>8, <1>9, <1>10 DEF Command, Data

\* The controller obeys a write, however late.
LEMMA AnswerKeeps ==
    ASSUME PortInv, Answer
    PROVE  PortInv'
<1>0. /\ Observed /\ input # <<>> /\ input' = <<>>
      /\ latched' = latched \cup Requested(output', cfg')
    BY DEF Answer, Obey, Observed, kernel, mouseVars, history
<1>1. /\ cfg \in SUBSET (0 .. 7) /\ ~ reports /\ PendingIsExpected
      /\ ~ misread => KEYBOARD_IRQ \in cfg
    BY <1>0 DEF PortInv, Types, PendingIsExpected
\* what a command and what a data byte do
<1>2. ASSUME NEW c, input = <<Command(c)>>
      PROVE  /\ target' = IF c = "WRITE_CONFIG" THEN "config"
                          ELSE IF c = "WRITE_TO_AUX" THEN "mouse" ELSE "none"
             /\ cfg' = IF c = "ENABLE_AUX" THEN cfg \ {MOUSE_OFF} ELSE cfg
             /\ output' = IF c = "READ_CONFIG"
                          THEN Append(output, Byte(cfg, "controller")) ELSE output
             /\ reports' = reports
    <2>1. Head(input).port = "command" /\ Head(input).value = c
        BY <1>2 DEF Command
    <2> QED  BY <2>1 DEF Answer, Obey
<1>3. ASSUME NEW v, input = <<Data(v)>>
      PROVE  /\ target' = "none"
             /\ cfg' = IF target = "config" THEN v ELSE cfg
             /\ reports' = (reports \/ (target = "mouse" /\ MOUSE_OFF \notin cfg))
             /\ output' = IF target = "mouse" /\ MOUSE_OFF \notin cfg
                          THEN Append(output, Byte(ACK, "mouse")) ELSE output
    <2>1. Head(input).port # "command" /\ Head(input).value = v
        BY <1>3 DEF Data
    <2> QED  BY <2>1 DEF Answer, Obey
<1>4. CASE input = <<Command("ENABLE_AUX")>> /\ target = "none"
    <2>1. /\ target' = "none" /\ cfg' = cfg \ {MOUSE_OFF} /\ output' = output
          /\ reports' = reports
        BY <1>2, <1>4
    <2>2. cfg' \in SUBSET (0 .. 7) /\ (~ misread => KEYBOARD_IRQ \in cfg')
        BY <1>1, <2>1 DEF KEYBOARD_IRQ, MOUSE_OFF
    <2>3. Running => step = 2
        BY <1>4, StepOfWrite
    <2>4. Running => /\ target' = Awaited(step)
                     /\ step > 1 => MOUSE_OFF \notin cfg'
                     /\ step > 5 => MOUSE_IRQ \in cfg'
        BY <2>1, <2>3 DEF Awaited
    <2>5. input # <<Command("READ_CONFIG")>>
        BY <1>4 DEF Command
    <2> QED  BY <1>0, <2>1, <2>2, <2>4, <2>5, SilentKeeps
<1>5. CASE input = <<Command("READ_CONFIG")>> /\ target = "none" /\ MOUSE_OFF \notin cfg
    <2>1. /\ target' = "none" /\ cfg' = cfg /\ reports' = reports
          /\ output' = Append(output, Byte(cfg, "controller"))
        BY <1>2, <1>5
    <2>2. input \in Written(3)
        BY <1>5 DEF Written
    <2> QED  BY <1>0, <1>5, <2>1, <2>2, AnswerConfigKeeps
<1>6. CASE input = <<Command("WRITE_CONFIG")>> /\ target = "none" /\ MOUSE_OFF \notin cfg
    <2>1. target' = "config" /\ cfg' = cfg /\ output' = output /\ reports' = reports
        BY <1>2, <1>6
    <2>2. Running => step = 5
        BY <1>6, StepOfWrite
    <2>3. Running => /\ target' = Awaited(step)
                     /\ step > 1 => MOUSE_OFF \notin cfg'
                     /\ step > 5 => MOUSE_IRQ \in cfg'
        BY <1>6, <2>1, <2>2 DEF Awaited
    <2>4. input # <<Command("READ_CONFIG")>>
        BY <1>6 DEF Command
    <2> QED  BY <1>0, <1>1, <2>1, <2>3, <2>4, SilentKeeps
<1>7. ASSUME target = "config", NEW v \in SUBSET (0 .. 7), GoodConfig(v), input = <<Data(v)>>
      PROVE  PortInv'
    <2>1. /\ target' = "none" /\ cfg' = v /\ output' = output
          /\ reports' = (reports \/ FALSE)
        BY <1>3, <1>7
    <2>2. reports' = reports
        BY <2>1 DEF PortInv, Types
    <2>3. Data(v).port = "data" /\ Data(v).value = v
        BY DEF Data
    <2>4. Running => step = 6
        BY <1>7, <2>3, StepOfWrite DEF GoodConfig
    <2>5. Running => /\ target' = Awaited(step)
                     /\ step > 1 => MOUSE_OFF \notin cfg'
                     /\ step > 5 => MOUSE_IRQ \in cfg'
        BY <1>7, <2>1, <2>4 DEF Awaited, GoodConfig
    <2>6. cfg' \in SUBSET (0 .. 7) /\ (~ misread => KEYBOARD_IRQ \in cfg')
        BY <1>7, <2>1 DEF GoodConfig
    <2>7. input # <<Command("READ_CONFIG")>>
        BY <1>7 DEF Command, Data
    <2> QED  BY <1>0, <2>1, <2>2, <2>5, <2>6, <2>7, SilentKeeps
<1>8. CASE input = <<Command("WRITE_TO_AUX")>> /\ target = "none" /\ Configured
    <2>1. target' = "mouse" /\ cfg' = cfg /\ output' = output /\ reports' = reports
        BY <1>2, <1>8
    <2>2. Running => step = 7
        BY <1>8, StepOfWrite
    <2>3. Running => /\ target' = Awaited(step)
                     /\ step > 1 => MOUSE_OFF \notin cfg'
                     /\ step > 5 => MOUSE_IRQ \in cfg'
        BY <1>8, <2>1, <2>2 DEF Awaited, Configured
    <2>4. input # <<Command("READ_CONFIG")>>
        BY <1>8 DEF Command
    <2> QED  BY <1>0, <1>1, <2>1, <2>3, <2>4, SilentKeeps
<1>9. CASE input = <<Data(MOUSE_ENABLE_PACKETS)>> /\ target = "mouse" /\ Configured
    <2>1. /\ target' = "none" /\ cfg' = cfg /\ reports' = TRUE
          /\ output' = Append(output, Byte(ACK, "mouse"))
        BY <1>3, <1>9 DEF Configured
    <2> QED  BY <1>0, <1>1, <1>9, <2>1, AcknowledgeKeeps
<1> QED  BY <1>0, <1>1, <1>4, <1>5, <1>6, <1>7, <1>8, <1>9 DEF PendingIsExpected

------------------------------------------------------------------------------
(* The interrupts.                                                         *)

\* what the interrupts leave alone
Settled == UNCHANGED <<step, config, result, enabled, input, target, cfg, reports, misread>>

\* A step after the handshake, or of the mouse, moves neither.
LEMMA SettledKeeps ==
    ASSUME PortInv, Settled, ~ Running, Types', PortIsQuiet', enabled \/ unmasked' = {},
           MOUSE_IRQ \in unmasked' => KEYBOARD_IRQ \in unmasked'
    PROVE  PortInv'
<1> USE DEF Settled
<1>1. PendingIsExpected'
    BY DEF PortInv, PendingIsExpected, Configured, GoodConfig
<1>2. InStep' /\ AnswersAreTheirs'
    BY DEF InStep, AnswersAreTheirs, Running
<1> QED  BY <1>1, <1>2 DEF PortInv

\* enable_runtime and enable_mouse.
LEMMA UnmaskKeeps ==
    ASSUME PortInv, EnableRuntime \/ EnableMouse
    PROVE  PortInv'
<1>1. /\ Settled /\ UNCHANGED <<output, last, latched, motions, sending, part, early, phantom>>
    BY DEF EnableRuntime, EnableMouse, Settled, vars, kernel, device, port, mouseVars, history
<1>2. enabled /\ ~ Running
    BY DEF EnableRuntime, EnableMouse, PortInv, InStep
<1>3. Types'
    <2>1. unmasked' \in SUBSET {0, 1}
        BY DEF EnableRuntime, EnableMouse, PortInv, Types, KEYBOARD_IRQ, MOUSE_IRQ
    <2> QED  BY <1>1, <2>1 DEF PortInv, Types, Settled
<1>4. PortIsQuiet'
    <2>1. CASE EnableRuntime
        <3>1. MOUSE_IRQ \notin unmasked /\ MOUSE_IRQ \notin unmasked'
            BY <2>1 DEF EnableRuntime, KEYBOARD_IRQ, MOUSE_IRQ
        <3> QED  BY <1>1, <3>1 DEF PortInv, PortIsQuiet, Settled
    <2>2. CASE EnableMouse
        <3>1. MOUSE_IRQ \notin unmasked /\ MOUSE_IRQ \in unmasked' /\ KEYBOARD_IRQ \notin latched
            BY <2>2 DEF EnableMouse
        <3> QED  BY <1>1, <3>1 DEF PortInv, PortIsQuiet, Settled
    <2> QED  BY <2>1, <2>2
<1>5. KEYBOARD_IRQ \in unmasked'
    BY DEF EnableRuntime, EnableMouse
<1> QED  BY <1>1, <1>2, <1>3, <1>4, <1>5, SettledKeeps

\* The bytes of a movement are bytes.
LEMMA EncodedIs ==
    ASSUME NEW m, NEW p \in 0 .. 2
    PROVE  Packets!Encoded(m, p) \in SUBSET (0 .. 7)
<1>1. CASE p = 0
    BY <1>1 DEF Packets!Encoded
<1>2. CASE p = 1
    BY <1>2 DEF Packets!Encoded, Packets!Bits
<1>3. CASE p = 2
    BY <1>3 DEF Packets!Encoded, Packets!Bits
<1> QED  BY <1>1, <1>2, <1>3

\* A key finds an empty buffer, so no answer is waiting there: it is no
\* acknowledgement, and it requests the keyboard.
LEMMA KeyPressedKeeps ==
    ASSUME PortInv, KeyPressed
    PROVE  PortInv'
<1>0. /\ Settled /\ UNCHANGED <<last, motions, sending, part, unmasked, early, phantom>>
      /\ output = <<>> /\ latched' = latched \cup Requested(output', cfg)
    BY DEF KeyPressed, Settled, kernel, mouseVars, history
<1>1. PICK bits \in Scancodes : output' = <<Byte(bits, "keyboard")>>
    BY DEF KeyPressed
<1> DEFINE byte == Byte(bits, "keyboard")
<1>2. byte \in Bytes /\ byte.bits # ACK /\ byte.source = "keyboard"
    <2>1. bits \in SUBSET (0 .. 7) /\ bits # ACK
        BY KeyAssumption
    <2> QED  BY <2>1, ByteIs DEF Sources
<1> HIDE DEF byte
<1>3. output' \in Seq(Bytes) /\ Len(output') = 1 /\ output'[1] = byte /\ output' # <<>>
    BY <1>1, <1>2 DEF byte
<1>4. Types'
    <2>1. Requested(output', cfg) \in SUBSET {0, 1}
        BY <1>3, RequestedIs
    <2>2. latched' \in SUBSET {0, 1}
        BY <1>0, <2>1 DEF PortInv, Types
    <2> QED  BY <1>0, <1>3, <2>2 DEF PortInv, Types, Settled
<1>5. PortIsQuiet'
    BY <1>0, <1>2, <1>3 DEF PortInv, PortIsQuiet, Settled
<1>6. PendingIsExpected'
    BY <1>0 DEF PortInv, PendingIsExpected, Configured, GoodConfig, Settled
<1>7. InStep'
    BY <1>0 DEF PortInv, InStep, Running, Settled, Written
<1>8. AnswersAreTheirs'
    <2> SUFFICES ASSUME Running PROVE AnswersAreTheirs'
        BY <1>0 DEF AnswersAreTheirs, Running, Settled
    <2>1. \A k \in 1 .. Len(output') : output'[k] = byte
        BY <1>3
    <2>2. step = 3 => input # <<>>
        BY <1>0 DEF PortInv, AnswersAreTheirs
    <2> QED  BY <1>0, <1>2, <1>3, <2>1, <2>2 DEF AnswersAreTheirs, Settled
<1> QED  BY <1>0, <1>4, <1>5, <1>6, <1>7, <1>8 DEF PortInv, Settled

\* A byte of a movement is early until the mouse is unmasked.
LEMMA MouseSendsKeeps ==
    ASSUME PortInv, MouseSends
    PROVE  PortInv'
<1> DEFINE byte == [bits |-> Packets!Encoded(sending, part), source |-> "mouse",
                    origin |-> <<sending, part>>]
<1>0. /\ Settled /\ UNCHANGED <<last, motions, unmasked, phantom>>
      /\ reports /\ output = <<>> /\ output' = <<byte>>
      /\ latched' = latched \cup Requested(output', cfg)
      /\ part' = (part + 1) % 3 /\ (sending' \in motions \/ sending' = sending)
      /\ early' = (early \/ MOUSE_IRQ \notin unmasked)
    BY DEF MouseSends, Settled, kernel
<1>1. byte \in Bytes /\ byte.source = "mouse"
    <2>1. <<sending, part>> \in Origins
        BY DEF PortInv, Types, Origins
    <2>2. Packets!Encoded(sending, part) \in SUBSET (0 .. 7)
        BY EncodedIs DEF PortInv, Types
    <2> QED  BY <2>1, <2>2 DEF Bytes, Sources
<1> HIDE DEF byte
<1>2. output' \in Seq(Bytes) /\ Len(output') = 1 /\ output'[1] = byte /\ output' # <<>>
    BY <1>0, <1>1
<1>3. Requested(output', cfg) \in SUBSET {0, 1} /\ 0 \notin Requested(output', cfg)
    BY <1>1, <1>2, RequestedIs
<1>4. Types'
    <2>1. part' \in 0 .. 2 /\ sending' \in motions
        BY <1>0 DEF PortInv, Types
    <2>2. early' \in BOOLEAN
        BY <1>0 DEF PortInv, Types
    <2>3. latched' \in SUBSET {0, 1}
        BY <1>0, <1>3 DEF PortInv, Types
    <2> QED  BY <1>0, <1>2, <2>1, <2>2, <2>3 DEF PortInv, Types, Settled
<1>5. PortIsQuiet'
    <2> SUFFICES ASSUME result' = "Ok", ~ early' PROVE PortIsQuiet'
        BY <1>0 DEF PortInv, PortIsQuiet, Settled
    <2>1. MOUSE_IRQ \in unmasked /\ ~ early /\ result = "Ok"
        BY <1>0 DEF Settled
    <2>2. reports /\ ~ misread /\ ~ phantom /\ KEYBOARD_IRQ \notin latched
        BY <1>0, <2>1 DEF PortInv, PortIsQuiet
    <2>3. KEYBOARD_IRQ \notin latched'
        BY <1>0, <1>3, <2>2 DEF KEYBOARD_IRQ
    <2> QED  BY <1>0, <1>2, <2>1, <2>2, <2>3 DEF PortIsQuiet, Settled
<1>6. PendingIsExpected'
    BY <1>0 DEF PortInv, PendingIsExpected, Configured, GoodConfig, Settled
<1>7. Running => step = 8
    BY <1>0 DEF PortInv, InStep, Types
<1>8. InStep'
    BY <1>0 DEF PortInv, InStep, Running, Settled, Written
\* the mouse reports, and this byte, if it came early, is the only one
<1>9. AnswersAreTheirs'
    <2> SUFFICES ASSUME Running PROVE AnswersAreTheirs'
        BY <1>0 DEF AnswersAreTheirs, Running, Settled
    <2>1. ~ misread
        <3>1. input # <<Command("READ_CONFIG")>>
            BY <1>7 DEF PortInv, InStep, Written, Command, Data
        <3> QED  BY <1>0, <1>7, <3>1 DEF PortInv, AnswersAreTheirs
    <2>2. \A k \in 1 .. Len(output') : k = Len(output')
        BY <1>2
    <2> QED  BY <1>0, <1>7, <2>1, <2>2 DEF AnswersAreTheirs, Settled
<1> QED  BY <1>0, <1>4, <1>5, <1>6, <1>8, <1>9 DEF PortInv, Settled

\* A handler takes the byte at the port, or reads the last one again.
LEMMA ServeIs ==
    ASSUME PortInv, NEW irq \in {0, 1}, Serve(irq)
    PROVE  /\ Settled /\ UNCHANGED <<unmasked, motions, sending, part, early>>
           /\ enabled /\ ~ Running /\ irq \in latched /\ irq \in unmasked
           /\ AtPort \in Bytes /\ last' = AtPort
           /\ output' \in Seq(Bytes) /\ latched' \in SUBSET {0, 1}
           /\ output = <<>> => AtPort = last /\ output' = <<>>
           /\ output # <<>> => AtPort = output[1]
           /\ Len(output) <= 1 => output' = <<>> /\ latched' = latched \ {irq}
<1>0. output \in Seq(Bytes) /\ last \in Bytes /\ latched \in SUBSET {0, 1}
    BY DEF PortInv, Types
<1>1. /\ Settled /\ UNCHANGED <<unmasked, motions, sending, part, early>>
      /\ irq \in latched /\ irq \in unmasked
      /\ last' = AtPort /\ output' = IF output = <<>> THEN <<>> ELSE Tail(output)
      /\ latched' = (latched \ {irq}) \cup Requested(output', cfg)
    BY DEF Serve, Settled, kernel, mouseVars
<1>2. enabled /\ ~ Running
    BY <1>1 DEF PortInv, InStep
<1>3. AtPort \in Bytes /\ output' \in Seq(Bytes)
    <2>1. CASE output = <<>>
        BY <1>0, <1>1, <2>1 DEF AtPort
    <2>2. CASE output # <<>>
        BY <1>0, <1>1, <2>2, FrontIs DEF AtPort
    <2> QED  BY <2>1, <2>2
<1>4. Requested(output', cfg) \in SUBSET {0, 1}
    BY <1>3, RequestedIs
<1>5. latched' \in SUBSET {0, 1}
    BY <1>0, <1>1, <1>4
<1>6. output = <<>> => AtPort = last /\ output' = <<>>
    BY <1>1 DEF AtPort
<1>7. output # <<>> => AtPort = output[1]
    BY <1>0, FrontIs DEF AtPort
<1>8. ASSUME Len(output) <= 1 PROVE output' = <<>> /\ latched' = latched \ {irq}
    <2>1. output' = <<>>
        BY <1>0, <1>1, <1>8, FrontIs
    <2>2. Requested(output', cfg) = {}
        BY <1>3, <2>1, RequestedIs
    <2> QED  BY <1>1, <2>1, <2>2
<1> QED  BY <1>1, <1>2, <1>3, <1>5, <1>6, <1>7, <1>8

\* The keyboard's handler finds the acknowledgement or a key, or is not called.
LEMMA KeyboardHandlerKeeps ==
    ASSUME PortInv, KeyboardHandler
    PROVE  PortInv'
<1>0. Serve(0) /\ phantom' = (phantom \/ (~ NoKey(AtPort) /\ AtPort.source # "keyboard"))
    BY DEF KeyboardHandler, KEYBOARD_IRQ
<1>1. /\ Settled /\ UNCHANGED <<unmasked, motions, sending, part, early>>
      /\ enabled /\ ~ Running /\ 0 \in latched
      /\ AtPort \in Bytes /\ last' = AtPort
      /\ output' \in Seq(Bytes) /\ latched' \in SUBSET {0, 1}
      /\ output = <<>> => AtPort = last
      /\ output # <<>> => AtPort = output[1]
      /\ Len(output) <= 1 => output' = <<>> /\ latched' = latched \ {0}
    BY <1>0, ServeIs
<1>2. Types'
    <2>1. phantom' \in BOOLEAN
        BY <1>0 DEF PortInv, Types
    <2> QED  BY <1>1, <2>1 DEF PortInv, Types, Settled
<1>3. PortIsQuiet'
    <2> SUFFICES ASSUME result = "Ok" PROVE PortIsQuiet'
        BY <1>1 DEF PortIsQuiet, Settled
    <2>1. reports' /\ ~ misread'
        BY <1>1 DEF PortInv, PortIsQuiet, Settled
    <2>2. ASSUME ~ early
          PROVE  /\ ~ phantom' /\ output' = <<>> /\ 0 \notin latched'
                 /\ last'.bits = ACK \/ last'.source = "keyboard"
        <3>1. Len(output) <= 1 /\ ~ phantom
            BY <2>2 DEF PortInv, PortIsQuiet
        <3>2. AtPort.bits = ACK \/ AtPort.source = "keyboard"
            <4>1. CASE MOUSE_IRQ \in unmasked
                BY <1>1, <2>2, <4>1 DEF PortInv, PortIsQuiet, KEYBOARD_IRQ
            <4>2. CASE MOUSE_IRQ \notin unmasked
                BY <1>1, <2>2, <4>2 DEF PortInv, PortIsQuiet
            <4> QED  BY <4>1, <4>2
        <3>3. NoKey(AtPort) \/ AtPort.source = "keyboard"
            BY <3>2 DEF NoKey
        <3>4. ~ phantom'
            BY <1>0, <3>1, <3>3
        <3> QED  BY <1>1, <3>1, <3>2, <3>4
    <2>3. Len(<<>>) <= 1
        OBVIOUS
    <2> QED  BY <1>1, <2>1, <2>2, <2>3 DEF PortIsQuiet, KEYBOARD_IRQ
<1>4. enabled \/ unmasked' = {}
    BY <1>1
<1> QED  BY <1>1, <1>2, <1>3, <1>4, SettledKeeps DEF PortInv

\* The mouse's handler leaves no request of the keyboard behind.
LEMMA MouseHandlerKeeps ==
    ASSUME PortInv, MouseHandler
    PROVE  PortInv'
<1>0. Serve(1) /\ phantom' = phantom /\ 0 \notin latched \cap unmasked
    BY DEF MouseHandler, MOUSE_IRQ, KEYBOARD_IRQ
<1>1. /\ Settled /\ UNCHANGED <<unmasked, motions, sending, part, early>>
      /\ enabled /\ ~ Running /\ 1 \in unmasked
      /\ AtPort \in Bytes /\ last' = AtPort
      /\ output' \in Seq(Bytes) /\ latched' \in SUBSET {0, 1}
      /\ Len(output) <= 1 => output' = <<>> /\ latched' = latched \ {1}
    BY <1>0, ServeIs
<1>2. Types'
    BY <1>0, <1>1 DEF PortInv, Types, Settled
<1>3. 0 \notin latched
    BY <1>0, <1>1 DEF PortInv, MOUSE_IRQ, KEYBOARD_IRQ
<1>4. PortIsQuiet'
    <2>1. Len(<<>>) <= 1
        OBVIOUS
    <2> QED  BY <1>0, <1>1, <1>3, <2>1 DEF PortInv, PortIsQuiet, Settled, MOUSE_IRQ, KEYBOARD_IRQ
<1>5. enabled \/ unmasked' = {}
    BY <1>1
<1> QED  BY <1>1, <1>2, <1>4, <1>5, SettledKeeps DEF PortInv

------------------------------------------------------------------------------
(* The theorems about the handshake.                                       *)

\* The invariant holds when the handshake starts.
LEMMA PortInvInit == DriverInit => PortInv
<1> SUFFICES ASSUME DriverInit PROVE PortInv
    OBVIOUS
<1>0. /\ step = 1 /\ config = {} /\ result = "running" /\ enabled = FALSE
      /\ input = <<>> /\ target = "none" /\ reports = FALSE /\ cfg \in Firmware
      /\ output \in Stale /\ misread = FALSE /\ last = Byte({}, "firmware")
      /\ latched = Requested(output, cfg)
      /\ motions \in Mice /\ sending \in motions /\ part = 0
      /\ unmasked = {} /\ early = FALSE /\ phantom = FALSE
    BY DEF DriverInit, Init
<1>1. /\ output \in Seq(Bytes) /\ Len(output) \in {0, 1}
    <2>1. CASE output = <<>>
        BY <2>1, EmptySeq
    <2>2. CASE output # <<>>
        <3>1. PICK bits \in SUBSET (0 .. 7), source \in {"firmware", "keyboard", "mouse"} :
                  output = <<Byte(bits, source)>>
            BY <1>0, <2>2, FirmwareAssumption
        <3>2. Byte(bits, source) \in Bytes
            BY ByteIs DEF Sources
        <3> QED  BY <3>1, <3>2
    <2> QED  BY <2>1, <2>2
<1>2. cfg \in SUBSET (0 .. 7) /\ KEYBOARD_IRQ \in cfg
    BY <1>0, HandshakeAssumption, FirmwareAssumption
<1>3. Types
    <2>1. latched \in SUBSET {0, 1}
        BY <1>0, <1>1, RequestedIs
    <2>2. last \in Bytes
        BY <1>0, ByteIs DEF Sources
    <2>3. step \in 1 .. 8 /\ config \in SUBSET (0 .. 7) /\ part \in 0 .. 2 /\ result \in Results
        BY <1>0 DEF Results
    <2>4. /\ enabled \in BOOLEAN /\ reports \in BOOLEAN /\ early \in BOOLEAN /\ phantom \in BOOLEAN /\ misread \in BOOLEAN
          /\ unmasked \in SUBSET {0, 1}
        BY <1>0
    <2> QED  BY <1>0, <1>1, <1>2, <2>1, <2>2, <2>3, <2>4 DEF Types
<1>4. PendingIsExpected
    BY <1>0 DEF PendingIsExpected
<1>5. InStep
    BY <1>0 DEF InStep, Awaited
<1>6. AnswersAreTheirs
    <2>1. ASSUME NEW k \in 1 .. Len(output) PROVE k = 1 /\ output[k].source # "controller"
        <3>1. k = 1 /\ output # <<>>
            <4>1. Len(output) = 1
                BY <1>1
            <4> QED  BY <4>1
        <3>2. PICK bits \in SUBSET (0 .. 7), source \in {"firmware", "keyboard", "mouse"} :
                  output = <<Byte(bits, source)>>
            BY <1>0, <3>1, FirmwareAssumption
        <3>3. output[1] = Byte(bits, source) /\ Byte(bits, source).source = source
            BY <3>2, ByteIs DEF Sources
        <3> QED  BY <3>1, <3>3
    <2> QED  BY <1>0, <2>1 DEF AnswersAreTheirs
<1>7. PortIsQuiet
    BY <1>0 DEF PortIsQuiet
<1> QED  BY <1>0, <1>2, <1>3, <1>4, <1>5, <1>6, <1>7 DEF PortInv

\* Every step keeps it.
LEMMA PortInvNext == PortInv /\ [DriverNext]_allVars => PortInv'
<1> SUFFICES ASSUME PortInv, [DriverNext]_allVars PROVE PortInv'
    OBVIOUS
<1>1. ASSUME UNCHANGED <<vars, unmasked, mouseVars, history>> PROVE PortInv'
    <2> USE <1>1 DEF vars, kernel, device, port, mouseVars, history
    <2>1. Types'
        BY DEF PortInv, Types
    <2>2. PendingIsExpected'
        BY DEF PortInv, PendingIsExpected, Configured, GoodConfig
    <2>3. InStep'
        BY DEF PortInv, InStep, Running, Written
    <2>4. AnswersAreTheirs' /\ PortIsQuiet'
        BY DEF PortInv, AnswersAreTheirs, PortIsQuiet, Running
    <2> QED  BY <2>1, <2>2, <2>3, <2>4 DEF PortInv
<1>2. CASE Handshake
    BY <1>2, HandshakeKeeps
<1>3. CASE Answer
    BY <1>3, AnswerKeeps
<1>4. CASE EnableRuntime \/ EnableMouse
    BY <1>4, UnmaskKeeps
<1>9. CASE KeyPressed
    BY <1>9, KeyPressedKeeps
<1>5. CASE MouseSends
    BY <1>5, MouseSendsKeeps
<1>6. CASE KeyboardHandler
    BY <1>6, KeyboardHandlerKeeps
<1>7. CASE MouseHandler
    BY <1>7, MouseHandlerKeeps
<1>8. CASE ShellPolls \/ Idle \/ UNCHANGED allVars
    BY <1>1, <1>8 DEF ShellPolls, Idle, allVars
<1> QED  BY <1>2, <1>3, <1>4, <1>5, <1>6, <1>7, <1>8, <1>9 DEF DriverNext

\* So it holds always.
LEMMA PortInvAlways == DriverSpec => []PortInv
<1> QED  BY PortInvInit, PortInvNext, PTL DEF DriverSpec

\* initialize_controller tells the truth, for every poll limit, wherever it
\* times out, whichever keys are pressed meanwhile and whatever the firmware has
\* left at the port: Ok means that the port is on, that it interrupts, that the
\* mouse reports and that the keyboard has its interrupt; and the keyboard loses
\* it only if another byte is read as the configuration (mouse/mod.rs).
THEOREM HandshakeHonesty == DriverSpec => []HandshakeIsHonest
<1>1. PortInv => HandshakeIsHonest
    BY DEF PortInv, HandshakeIsHonest, PortIsQuiet, PendingIsExpected, Configured
<1> QED  BY <1>1, PortInvAlways, PTL

\* After a successful handshake no byte of it types a key, for every mouse
\* that rests until its interrupt is unmasked, whichever requests the PIC
\* remembers and keys are pressed (keyboard and mouse handlers of interrupts).
THEOREM HandshakeTypesNothing == DriverSpec => []NoPhantomKeys
<1>1. PortInv => NoPhantomKeys
    BY DEF PortInv, PortIsQuiet, NoPhantomKeys
<1> QED  BY <1>1, PortInvAlways, PTL

------------------------------------------------------------------------------
(* The way of a byte from the mouse to a packet.                           *)

\* the bytes the parser has taken or will take
Stream == bytes \o queue

\* a byte of a movement is what it claims to be
Genuine(byte, moves) ==
    byte.origin # <<>> =>
        /\ byte.source = "mouse" /\ byte.origin[1] \in moves
        /\ byte.bits = Packets!Encoded(byte.origin[1], byte.origin[2])

\* b is the origin of the byte the mouse sends after a's
Follows(a, b) == b # <<>> /\ b[2] = (a[2] + 1) % 3 /\ (b[2] # 0 => b[1] = a[1])

\* the origin of the next byte of a movement at or before the port
Upcoming ==
    IF output # <<>> /\ output[1].origin # <<>> THEN output[1].origin ELSE <<sending, part>>

HasMotion(s) == \E k \in 1 .. Len(s) : s[k].origin # <<>>

\* the origin of byte k of s, which the byte from up comes after
OriginAt(s, k, up) == IF k <= Len(s) THEN s[k].origin ELSE up

\* the bytes of movements in s are in sequence
InOrder(s, up) ==
    \A k \in 1 .. Len(s) : s[k].origin # <<>> => Follows(s[k].origin, OriginAt(s, k + 1, up))

\* there are no others, and the first is a header
Whole(s, up) ==
    /\ \A k \in 1 .. Len(s) : s[k].origin # <<>>
    /\ OriginAt(s, 1, up)[2] = 0

PacketTypes ==
    /\ queue \in Seq(Bytes) /\ bytes \in Seq(Bytes) /\ Len(bytes) \in 0 .. 2
    /\ dropped \in BOOLEAN /\ stray \in BOOLEAN /\ misled \in BOOLEAN

\* what is not of a movement cannot start a packet, unless the parser was misled
BytesAreGenuine ==
    /\ \A k \in 1 .. Len(Stream) : Genuine(Stream[k], motions)
    /\ \A k \in 1 .. Len(output) : Genuine(output[k], motions)
    /\ Genuine(last, motions)
    /\ ~ misled =>
          \A k \in 1 .. Len(Stream) : Stream[k].origin = <<>> => IsNoHeader(Stream[k].bits)
    /\ bytes # <<>> => 3 \in bytes[1].bits

\* movements come after the handshake, and one byte at a time
MotionsComeLast ==
    /\ ~ reports => ~ HasMotion(Stream) /\ ~ HasMotion(output) /\ last.origin = <<>>
    /\ HasMotion(output) => Len(output) = 1 /\ Follows(output[1].origin, <<sending, part>>)
    /\ output = <<>> /\ last.origin # <<>> => Follows(last.origin, <<sending, part>>)

\* once a byte of a movement has been queued no byte of the mouse goes elsewhere
\* and none is read twice: the PIC remembers only what the port requests
QueueIsFed ==
    HasMotion(Stream) =>
        /\ MOUSE_IRQ \in unmasked /\ Len(output) <= 1
        /\ latched \subseteq Requested(output, cfg)
        /\ output # <<>> => output[1].origin # <<>> \/ output[1].source = "keyboard"

\* so the bytes of a movement stay in sequence, and start with a header if no
\* other byte has come and none was lost
Chain ==
    ~ dropped => InOrder(Stream, Upcoming) /\ (~ stray => Whole(Stream, Upcoming))

EventIsGenuine ==
    event.packet # <<>> /\ ~ dropped /\ ~ misled /\ (ClearMotions \/ ~ stray) =>
        \E m \in motions :
           /\ \A k \in 1 .. 3 : event.packet[k].origin = <<m, k - 1>>
           /\ ~ m.overflow
           /\ event.dx = m.dx /\ event.dy = -m.dy

PacketInv ==
    /\ PacketTypes
    /\ BytesAreGenuine
    /\ MotionsComeLast
    /\ QueueIsFed
    /\ Chain
    /\ EventIsGenuine

\* A byte is the sum of its bits.
LEMMA ValueIs ==
    ASSUME NEW v \in 0 .. 255
    PROVE  Packets!Value(Packets!Bits(v)) = v
<1> DEFINE B == Packets!Bits(v)
           bit(b) == (v \div Packets!Weight[b + 1]) % 2
<1>1. /\ Packets!Weight[0 + 1] = 1 /\ Packets!Weight[1 + 1] = 2 /\ Packets!Weight[2 + 1] = 4
      /\ Packets!Weight[3 + 1] = 8 /\ Packets!Weight[4 + 1] = 16 /\ Packets!Weight[5 + 1] = 32
      /\ Packets!Weight[6 + 1] = 64 /\ Packets!Weight[7 + 1] = 128
    BY DEF Packets!Weight
<1>2. /\ 0 \in B <=> (v \div 1) % 2 = 1
      /\ 1 \in B <=> (v \div 2) % 2 = 1
      /\ 2 \in B <=> (v \div 4) % 2 = 1
      /\ 3 \in B <=> (v \div 8) % 2 = 1
      /\ 4 \in B <=> (v \div 16) % 2 = 1
      /\ 5 \in B <=> (v \div 32) % 2 = 1
      /\ 6 \in B <=> (v \div 64) % 2 = 1
      /\ 7 \in B <=> (v \div 128) % 2 = 1
    <2>1. \A b : b \in B <=> b \in 0 .. 7 /\ (v \div Packets!Weight[b + 1]) % 2 = 1
        BY DEF Packets!Bits
    <2> HIDE DEF B
    <2>2. 0 \in 0 .. 7 /\ 1 \in 0 .. 7 /\ 2 \in 0 .. 7 /\ 3 \in 0 .. 7 /\ 4 \in 0 .. 7
          /\ 5 \in 0 .. 7 /\ 6 \in 0 .. 7 /\ 7 \in 0 .. 7
        OBVIOUS
    <2> QED  BY <1>1, <2>1, <2>2
<1> HIDE DEF B
<1>3. Packets!Value(B) =
          (IF 0 \in B THEN 1 ELSE 0) + (IF 1 \in B THEN 2 ELSE 0) + (IF 2 \in B THEN 4 ELSE 0)
              + (IF 3 \in B THEN 8 ELSE 0) + (IF 4 \in B THEN 16 ELSE 0)
              + (IF 5 \in B THEN 32 ELSE 0) + (IF 6 \in B THEN 64 ELSE 0)
              + (IF 7 \in B THEN 128 ELSE 0)
    BY <1>1 DEF Packets!Value
<1>4. Packets!Value(B) =
          (IF (v \div 1) % 2 = 1 THEN 1 ELSE 0) + (IF (v \div 2) % 2 = 1 THEN 2 ELSE 0)
              + (IF (v \div 4) % 2 = 1 THEN 4 ELSE 0)
              + (IF (v \div 8) % 2 = 1 THEN 8 ELSE 0) + (IF (v \div 16) % 2 = 1 THEN 16 ELSE 0)
              + (IF (v \div 32) % 2 = 1 THEN 32 ELSE 0) + (IF (v \div 64) % 2 = 1 THEN 64 ELSE 0)
              + (IF (v \div 128) % 2 = 1 THEN 128 ELSE 0)
    BY <1>2, <1>3
<1> HIDE DEF B
<1>5. \A x \in Nat : x = 2 * (x \div 2) + (IF x % 2 = 1 THEN 1 ELSE 0) /\ x \div 2 \in Nat
    OBVIOUS
<1>6. /\ v \div 1 = v /\ v \div 4 = (v \div 2) \div 2 /\ v \div 8 = (v \div 4) \div 2
      /\ v \div 16 = (v \div 8) \div 2 /\ v \div 32 = (v \div 16) \div 2
      /\ v \div 64 = (v \div 32) \div 2 /\ v \div 128 = (v \div 64) \div 2
    OBVIOUS
<1>7. v \div 128 \in 0 .. 1
    OBVIOUS
<1>8. \A a \in Nat : a \in 0 .. 1 => (IF a % 2 = 1 THEN 128 ELSE 0) = 128 * a
    OBVIOUS
<1> DEFINE a1 == v \div 2
           a2 == v \div 4
           a3 == v \div 8
           a4 == v \div 16
           a5 == v \div 32
           a6 == v \div 64
           a7 == v \div 128
<1>9. /\ a1 \in Nat /\ a2 \in Nat /\ a3 \in Nat /\ a4 \in Nat /\ a5 \in Nat /\ a6 \in Nat
      /\ a7 \in Nat /\ v \in Nat
    BY <1>5, <1>6
<1>10. /\ v = 2 * a1 + (IF v % 2 = 1 THEN 1 ELSE 0)
       /\ a1 = 2 * a2 + (IF a1 % 2 = 1 THEN 1 ELSE 0)
       /\ a2 = 2 * a3 + (IF a2 % 2 = 1 THEN 1 ELSE 0)
       /\ a3 = 2 * a4 + (IF a3 % 2 = 1 THEN 1 ELSE 0)
       /\ a4 = 2 * a5 + (IF a4 % 2 = 1 THEN 1 ELSE 0)
       /\ a5 = 2 * a6 + (IF a5 % 2 = 1 THEN 1 ELSE 0)
       /\ a6 = 2 * a7 + (IF a6 % 2 = 1 THEN 1 ELSE 0)
    BY <1>5, <1>6, <1>9
<1>11. (IF a7 % 2 = 1 THEN 128 ELSE 0) = 128 * a7
    BY <1>7, <1>8, <1>9
<1>12. Packets!Value(B) =
          (IF v % 2 = 1 THEN 1 ELSE 0) + (IF a1 % 2 = 1 THEN 2 ELSE 0)
              + (IF a2 % 2 = 1 THEN 4 ELSE 0)
              + (IF a3 % 2 = 1 THEN 8 ELSE 0) + (IF a4 % 2 = 1 THEN 16 ELSE 0)
              + (IF a5 % 2 = 1 THEN 32 ELSE 0) + (IF a6 % 2 = 1 THEN 64 ELSE 0)
              + (IF a7 % 2 = 1 THEN 128 ELSE 0)
    BY <1>4, <1>6
<1> HIDE DEF a1, a2, a3, a4, a5, a6, a7
<1>13. Packets!Value(B) = v
    BY <1>9, <1>10, <1>11, <1>12
<1> QED  BY <1>13 DEF B

\* decode_packet undoes the mouse's encoding, for nine bits in each direction.
LEMMA DecodedIs ==
    ASSUME NEW m \in Movements
    PROVE  /\ 3 \in Packets!Encoded(m, 0)
           /\ {6, 7} \cap Packets!Encoded(m, 0) = {} => ~ m.overflow
           /\ Packets!Value(Packets!Encoded(m, 1))
                  - (IF 4 \in Packets!Encoded(m, 0) THEN 256 ELSE 0) = m.dx
           /\ Packets!Value(Packets!Encoded(m, 2))
                  - (IF 5 \in Packets!Encoded(m, 0) THEN 256 ELSE 0) = m.dy
<1> DEFINE H == Packets!Encoded(m, 0)
<1>1. H = {3} \cup (IF m.dx < 0 THEN {4} ELSE {}) \cup (IF m.dy < 0 THEN {5} ELSE {})
              \cup (IF m.overflow THEN {6} ELSE {})
    BY DEF Packets!Encoded
<1>2. Packets!Encoded(m, 1) = Packets!Bits(m.dx % 256) /\ Packets!Encoded(m, 2) = Packets!Bits(m.dy % 256)
    BY DEF Packets!Encoded
<1>3. m.dx \in -256 .. 255 /\ m.dy \in -256 .. 255 /\ m.overflow \in BOOLEAN
    BY DEF Movements
<1> HIDE DEF H
<1>4. 3 \in H /\ (m.overflow => 6 \in H) /\ (4 \in H <=> m.dx < 0) /\ (5 \in H <=> m.dy < 0)
    BY <1>1, <1>3
<1>5. \A x \in -256 .. 255 : x % 256 \in 0 .. 255 /\ x % 256 = IF x < 0 THEN x + 256 ELSE x
    OBVIOUS
<1>6. /\ Packets!Value(Packets!Encoded(m, 1)) = m.dx % 256
      /\ Packets!Value(Packets!Encoded(m, 2)) = m.dy % 256
    BY <1>2, <1>3, <1>5, ValueIs
<1>7. /\ m.dx % 256 = IF m.dx < 0 THEN m.dx + 256 ELSE m.dx
      /\ m.dy % 256 = IF m.dy < 0 THEN m.dy + 256 ELSE m.dy
    BY <1>3, <1>5
<1>8. \A x \in -256 .. 255 :
          (IF x < 0 THEN x + 256 ELSE x) - (IF x < 0 THEN 256 ELSE 0) = x
    OBVIOUS
<1>9. /\ Packets!Value(Packets!Encoded(m, 1)) - (IF 4 \in H THEN 256 ELSE 0) = m.dx
      /\ Packets!Value(Packets!Encoded(m, 2)) - (IF 5 \in H THEN 256 ELSE 0) = m.dy
    BY <1>3, <1>4, <1>6, <1>7, <1>8
<1> QED  BY <1>4, <1>9 DEF H

\* The stream is what the parser holds and then the queue.
LEMMA StreamIs ==
    ASSUME PacketTypes
    PROVE  /\ Stream \in Seq(Bytes) /\ Len(bytes) \in Nat /\ Len(queue) \in Nat
           /\ Len(Stream) = Len(bytes) + Len(queue)
           /\ \A k \in 1 .. Len(Stream) :
                 Stream[k] = IF k <= Len(bytes) THEN bytes[k] ELSE queue[k - Len(bytes)]
BY DEF PacketTypes, Stream


\* A byte at the end of the stream continues it.
LEMMA PushedIs ==
    ASSUME NEW s \in Seq(Bytes), NEW e \in Bytes, NEW up, NEW next
    PROVE  LET t == Append(s, e)
           IN  /\ HasMotion(t) => HasMotion(s) \/ e.origin # <<>>
               /\ /\ InOrder(s, up)
                  /\ HasMotion(s) => e.origin = up
                  /\ e.origin # <<>> => Follows(e.origin, next)
                  => InOrder(t, next)
               /\ Whole(s, up) /\ e.origin # <<>> /\ e.origin = up => Whole(t, next)
<1> DEFINE t == Append(s, e)
           n == Len(s)
<1>1. /\ n \in Nat /\ Len(t) = n + 1
      /\ \A k \in 1 .. n + 1 : t[k] = IF k <= n THEN s[k] ELSE e
    BY AppendedIs
<1> HIDE DEF t, n
<1>2. HasMotion(t) => HasMotion(s) \/ e.origin # <<>>
    BY <1>1 DEF HasMotion, n
<1>3. ASSUME InOrder(s, up), HasMotion(s) => e.origin = up,
             e.origin # <<>> => Follows(e.origin, next)
      PROVE  InOrder(t, next)
    <2> SUFFICES ASSUME NEW k \in 1 .. n + 1, t[k].origin # <<>>
                 PROVE  Follows(t[k].origin, OriginAt(t, k + 1, next))
        BY <1>1 DEF InOrder
    <2>1. CASE k < n
        <3>1. /\ t[k] = s[k] /\ k \in 1 .. Len(s)
              /\ OriginAt(t, k + 1, next) = s[k + 1].origin /\ OriginAt(s, k + 1, up) = s[k + 1].origin
            BY <1>1, <2>1 DEF OriginAt, n
        <3> QED  BY <1>3, <3>1 DEF InOrder
    <2>2. CASE k = n
        <3>1. /\ t[k] = s[k] /\ k \in 1 .. Len(s)
              /\ OriginAt(t, k + 1, next) = e.origin /\ OriginAt(s, k + 1, up) = up
            BY <1>1, <2>2 DEF OriginAt, n
        <3>2. HasMotion(s)
            BY <3>1 DEF HasMotion
        <3> QED  BY <1>3, <3>1, <3>2 DEF InOrder
    <2>3. CASE k = n + 1
        <3>1. t[k] = e /\ OriginAt(t, k + 1, next) = next
            BY <1>1, <2>3 DEF OriginAt
        <3> QED  BY <1>3, <3>1
    <2> QED  BY <1>1, <2>1, <2>2, <2>3
<1>4. ASSUME Whole(s, up), e.origin # <<>>, e.origin = up
      PROVE  Whole(t, next)
    <2>1. \A k \in 1 .. Len(t) : t[k].origin # <<>>
        BY <1>1, <1>4 DEF Whole, n
    <2>2. OriginAt(t, 1, next) = OriginAt(s, 1, up)
        <3>1. CASE n = 0
            BY <1>1, <1>4, <3>1 DEF OriginAt, n
        <3>2. CASE n > 0
            BY <1>1, <3>2 DEF OriginAt, n
        <3> QED  BY <1>1, <3>1, <3>2
    <2> QED  BY <1>4, <2>1, <2>2 DEF Whole
<1> QED  BY <1>2, <1>3, <1>4 DEF t

\* Bytes leave it at the front.
LEMMA ShiftedIs ==
    ASSUME NEW s \in Seq(Bytes), NEW t \in Seq(Bytes), NEW d \in Nat, NEW up,
           Len(s) = Len(t) + d, \A k \in 1 .. Len(t) : t[k] = s[k + d]
    PROVE  /\ HasMotion(t) => HasMotion(s)
           /\ InOrder(s, up) => InOrder(t, up)
           /\ Whole(s, up) /\ OriginAt(s, d + 1, up)[2] = 0 => Whole(t, up)
<1> DEFINE n == Len(t)
<1>1. n \in Nat /\ Len(s) = n + d /\ Len(t) = n
    OBVIOUS
<1> HIDE DEF n
<1>2. \A k \in 1 .. n : t[k] = s[k + d] /\ k + d \in 1 .. n + d
    BY <1>1 DEF n
<1>3. \A k \in Nat : OriginAt(t, k, up) = OriginAt(s, k + d, up) \/ k = 0
    <2> SUFFICES ASSUME NEW k \in Nat, k # 0 PROVE OriginAt(t, k, up) = OriginAt(s, k + d, up)
        OBVIOUS
    <2> QED  BY <1>1, <1>2 DEF OriginAt
<1>4. HasMotion(t) => HasMotion(s)
    BY <1>1, <1>2 DEF HasMotion
<1>5. ASSUME InOrder(s, up) PROVE InOrder(t, up)
    <2> SUFFICES ASSUME NEW k \in 1 .. n, t[k].origin # <<>>
                 PROVE  Follows(t[k].origin, OriginAt(t, k + 1, up))
        BY <1>1 DEF InOrder
    <2>1. t[k] = s[k + d] /\ k + d \in 1 .. n + d
        BY <1>2
    <2>2. Follows(s[k + d].origin, OriginAt(s, (k + d) + 1, up))
        BY <1>1, <1>5, <2>1 DEF InOrder
    <2>3. (k + d) + 1 = (k + 1) + d /\ k + 1 \in Nat /\ k + 1 # 0
        BY <1>1
    <2>4. OriginAt(t, k + 1, up) = OriginAt(s, (k + 1) + d, up)
        BY <1>3, <2>3
    <2> QED  BY <2>1, <2>2, <2>3, <2>4
<1>6. ASSUME Whole(s, up), OriginAt(s, d + 1, up)[2] = 0 PROVE Whole(t, up)
    <2>1. \A k \in 1 .. Len(t) : t[k].origin # <<>>
        BY <1>1, <1>2, <1>6 DEF Whole
    <2>2. OriginAt(t, 1, up) = OriginAt(s, 1 + d, up) /\ 1 + d = d + 1
        BY <1>3
    <2> QED  BY <1>6, <2>1, <2>2 DEF Whole
<1> QED  BY <1>4, <1>5, <1>6

\* Without a movement there is nothing to keep in order.
LEMMA QuietIs ==
    ASSUME NEW s \in Seq(Bytes), ~ HasMotion(s), NEW up, NEW next
    PROVE  /\ InOrder(s, next)
           /\ Whole(s, up) => s = <<>> /\ up[2] = 0
           /\ Whole(s, up) /\ next[2] = 0 => Whole(s, next)
<1>1. Len(s) \in Nat /\ (s # <<>> => 1 \in 1 .. Len(s))
    BY EmptySeq
<1>2. \A k \in 1 .. Len(s) : s[k].origin = <<>>
    BY DEF HasMotion
<1>3. InOrder(s, next)
    BY <1>2 DEF InOrder
<1>4. ASSUME Whole(s, up) PROVE s = <<>> /\ up[2] = 0
    <2>1. s = <<>>
        BY <1>1, <1>2, <1>4 DEF Whole
    <2>2. OriginAt(s, 1, up) = up
        BY <2>1 DEF OriginAt
    <2> QED  BY <1>4, <2>1, <2>2 DEF Whole
<1>5. ASSUME s = <<>>, next[2] = 0 PROVE Whole(s, next)
    <2>1. OriginAt(s, 1, next) = next
        BY <1>5 DEF OriginAt
    <2> QED  BY <1>5, <2>1 DEF Whole
<1> QED  BY <1>3, <1>4, <1>5


------------------------------------------------------------------------------
(* Steps that put no byte into the queue.                                  *)

\* A step that leaves the port alone.
LEMMA PortSame ==
    ASSUME PacketInv, UNCHANGED <<output, last, motions, sending, part, reports, cfg>>,
           UNCHANGED <<packetVars, stray, misled>>, latched' \subseteq latched,
           unmasked \subseteq unmasked'
    PROVE  PacketInv'
<1>1. /\ queue' = queue /\ bytes' = bytes /\ event' = event /\ dropped' = dropped /\ stray' = stray
      /\ misled' = misled
    BY DEF packetVars
<1>2. Stream' = Stream /\ Upcoming' = Upcoming
    BY <1>1 DEF Stream, Upcoming
<1>3. PacketTypes'
    BY <1>1 DEF PacketInv, PacketTypes
<1>4. BytesAreGenuine'
    BY <1>1, <1>2 DEF PacketInv, BytesAreGenuine
<1>5. MotionsComeLast'
    BY <1>2 DEF PacketInv, MotionsComeLast
<1>6. QueueIsFed'
    BY <1>2 DEF PacketInv, QueueIsFed
<1>7. Chain'
    BY <1>1, <1>2 DEF PacketInv, Chain
<1>8. EventIsGenuine'
    BY <1>1 DEF PacketInv, EventIsGenuine, ClearMotions
<1> QED  BY <1>3, <1>4, <1>5, <1>6, <1>7, <1>8 DEF PacketInv

\* The boot code or the keyboard's handler takes the byte at the port: a byte of a
\* movement is counted as stray, and with movements in the queue it is a key.
LEMMA PortTaken ==
    ASSUME PortInv, PacketInv, output # <<>>,
           output' = Tail(output), last' = output[1],
           UNCHANGED <<motions, sending, part, reports, cfg, input, unmasked, packetVars, misled>>,
           stray' \in BOOLEAN, ~ stray' => ~ stray /\ output[1].origin = <<>>,
           HasMotion(Stream) =>
               Len(output) = 1 /\ output[1].origin = <<>> /\ latched' = {}
    PROVE  PacketInv'
<1>1. queue' = queue /\ bytes' = bytes /\ event' = event /\ dropped' = dropped
    BY DEF packetVars
<1>2. Stream' = Stream
    BY <1>1 DEF Stream
<1>3. /\ Len(output) \in Nat \ {0} /\ output' \in Seq(Bytes) /\ Len(output') = Len(output) - 1
      /\ \A k \in 1 .. Len(output') : k + 1 \in 1 .. Len(output) /\ output'[k] = output[k + 1]
      /\ Len(output) = 1 => output' = <<>>
    BY FrontIs DEF PortInv, Types
<1>4. 1 \in 1 .. Len(output)
    BY <1>3
<1>5. HasMotion(output') => HasMotion(output)
    BY <1>3 DEF HasMotion
<1>6. ~ HasMotion(output')
    <2>1. CASE Len(output) = 1
        <3>1. \A k \in 1 .. Len(output') : FALSE
            BY <1>3, <2>1
        <3> QED  BY <3>1 DEF HasMotion
    <2>2. CASE Len(output) # 1
        <3>1. ~ HasMotion(output)
            BY <2>2 DEF PacketInv, MotionsComeLast
        <3> QED  BY <1>5, <3>1
    <2> QED  BY <2>1, <2>2
<1>7. output' # <<>> => 1 \in 1 .. Len(output')
    BY <1>3, EmptySeq
<1>8. Upcoming' = <<sending, part>>
    BY <1>6, <1>7 DEF Upcoming, HasMotion
<1>9. PacketTypes'
    BY <1>1 DEF PacketInv, PacketTypes
<1>10. BytesAreGenuine'
    <2>1. Genuine(last', motions)
        BY <1>4 DEF PacketInv, BytesAreGenuine
    <2>2. \A k \in 1 .. Len(output') : Genuine(output'[k], motions)
        BY <1>3 DEF PacketInv, BytesAreGenuine
    <2> QED  BY <1>1, <1>2, <2>1, <2>2 DEF PacketInv, BytesAreGenuine
<1>11. MotionsComeLast'
    <2>1. ~ reports => last'.origin = <<>>
        BY <1>4 DEF PacketInv, MotionsComeLast, HasMotion
    <2>2. last'.origin # <<>> => Follows(last'.origin, <<sending, part>>)
        BY <1>4 DEF PacketInv, MotionsComeLast, HasMotion
    <2>3. ~ reports => ~ HasMotion(Stream)
        BY DEF PacketInv, MotionsComeLast
    <2> QED  BY <1>2, <1>6, <2>1, <2>2, <2>3 DEF MotionsComeLast
<1>12. QueueIsFed'
    <2> SUFFICES ASSUME HasMotion(Stream) PROVE QueueIsFed'
        BY <1>2 DEF QueueIsFed
    <2>1. output' = <<>> /\ Len(output') <= 1
        BY <1>3
    <2> QED  BY <1>2, <2>1 DEF PacketInv, QueueIsFed
<1>13. Chain'
    <2>1. Stream \in Seq(Bytes)
        BY StreamIs DEF PacketInv
    <2>2. ASSUME ~ dropped PROVE InOrder(Stream, Upcoming')
        <3>1. CASE HasMotion(Stream)
            <4>1. Upcoming = <<sending, part>>
                BY <3>1 DEF Upcoming
            <4> QED  BY <1>8, <2>2, <4>1 DEF PacketInv, Chain
        <3>2. CASE ~ HasMotion(Stream)
            BY <2>1, <3>2, QuietIs
        <3> QED  BY <3>1, <3>2
    <2>3. ASSUME ~ dropped, ~ stray' PROVE Whole(Stream, Upcoming')
        <3>1. Upcoming = <<sending, part>> /\ Whole(Stream, Upcoming)
            BY <2>3 DEF PacketInv, Chain, Upcoming
        <3> QED  BY <1>8, <3>1
    <2> QED  BY <1>1, <1>2, <2>2, <2>3 DEF Chain
<1>14. EventIsGenuine'
    <2>1. ~ stray' => ~ stray
        OBVIOUS
    <2> QED  BY <1>1, <2>1 DEF PacketInv, EventIsGenuine, ClearMotions
<1> QED  BY <1>9, <1>10, <1>11, <1>12, <1>13, <1>14 DEF PacketInv


\* Before interrupts are enabled no movement has been queued.
LEMMA QuietBefore ==
    ASSUME PortInv, PacketInv, ~ enabled
    PROVE  ~ HasMotion(Stream) /\ unmasked = {}
<1>1. unmasked = {}
    BY DEF PortInv
<1>2. ~ HasMotion(Stream)
    BY <1>1 DEF PacketInv, QueueIsFed
<1> QED  BY <1>1, <1>2

\* A step of the boot code that takes no byte.
LEMMA BootSame ==
    ASSUME PacketInv, Handshake, UNCHANGED <<port, cfg, reports>>
    PROVE  PacketInv'
<1>1. /\ output' = output /\ last' = last /\ latched' = latched
      /\ UNCHANGED <<motions, sending, part, reports, cfg>> /\ packetVars' = packetVars
      /\ unmasked' = unmasked /\ misled' = misled
    BY DEF Handshake, port, mouseVars
<1>2. stray \in BOOLEAN /\ ~ Taken
    BY <1>1 DEF Taken, PacketInv, PacketTypes
<1>3. stray' = stray
    BY <1>2 DEF Handshake
<1> QED  BY <1>1, <1>3, PortSame

\* A step of the boot code that takes a byte.
LEMMA BootTakes ==
    ASSUME PortInv, PacketInv, Handshake, TakeByte, ~ enabled, output # <<>>,
           UNCHANGED <<input, cfg, reports>>
    PROVE  PacketInv'
<1>1. /\ UNCHANGED <<motions, sending, part, unmasked>> /\ packetVars' = packetVars
      /\ misled' = misled
      /\ stray' = (stray \/ Taken)
    BY DEF Handshake, mouseVars
<1>2. /\ output' = Tail(output) /\ last' = output[1] /\ Head(output) = output[1]
    BY TakeByteIs DEF PortInv
<1>3. output' # output
    <2>1. Len(output) \in Nat \ {0} /\ Len(output') = Len(output) - 1
        BY <1>2, FrontIs DEF PortInv, Types
    <2> QED  BY <2>1
<1>4. stray \in BOOLEAN
    BY DEF PacketInv, PacketTypes
<1>5. stray' \in BOOLEAN /\ (~ stray' => ~ stray /\ output[1].origin = <<>>)
    BY <1>1, <1>2, <1>3, <1>4 DEF Taken
<1>6. ~ HasMotion(Stream)
    BY QuietBefore
<1> QED  BY <1>1, <1>2, <1>5, <1>6, PortTaken

\* Every step of the boot code takes a byte or leaves the port alone.
LEMMA HandshakePackets ==
    ASSUME PortInv, PacketInv, Handshake
    PROVE  PacketInv'
<1>1. CASE Write \/ Poll \/ Timeout \/ EnableInterrupts
    <2>1. UNCHANGED <<port, cfg, reports>>
        BY <1>1 DEF Write, Poll, Timeout, EnableInterrupts, device
    <2> QED  BY <2>1, BootSame
<1>2. CASE Read
    <2>1. Running /\ output # <<>> /\ TakeByte /\ UNCHANGED <<input, cfg, reports>>
        BY <1>2 DEF Read
    <2>2. ~ enabled
        BY <2>1 DEF PortInv, InStep
    <2> QED  BY <2>1, <2>2, BootTakes
<1>3. CASE Drain
    <2>1. ~ enabled /\ output # <<>> /\ TakeByte /\ UNCHANGED <<input, cfg, reports>>
        BY <1>3 DEF Drain
    <2> QED  BY <2>1, BootTakes
<1> QED  BY <1>1, <1>2, <1>3 DEF Handshake, Kernel

\* enable_runtime and enable_mouse.
LEMMA UnmaskPackets ==
    ASSUME PacketInv, EnableRuntime \/ EnableMouse
    PROVE  PacketInv'
<1>1. /\ UNCHANGED <<output, last, latched, motions, sending, part, reports, cfg, config, input>>
      /\ packetVars' = packetVars /\ stray' = stray /\ misled' = misled
    BY DEF EnableRuntime, EnableMouse, vars, kernel, device, port, mouseVars, history
<1>2. unmasked \subseteq unmasked'
    BY DEF EnableRuntime, EnableMouse
<1> QED  BY <1>1, <1>2, PortSame

\* The keyboard's handler takes no byte of a movement while one is queued: the
\* request it serves is that of a key.
LEMMA KeyboardHandlerPackets ==
    ASSUME PortInv, PacketInv, KeyboardHandler
    PROVE  PacketInv'
<1>1. /\ UNCHANGED <<motions, sending, part, reports, cfg, config, input, unmasked, misled>>
      /\ KEYBOARD_IRQ \in latched /\ packetVars' = packetVars
      /\ last' = AtPort /\ output' = IF output = <<>> THEN <<>> ELSE Tail(output)
      /\ latched' = (latched \ {KEYBOARD_IRQ}) \cup Requested(output', cfg)
      /\ stray' = (stray \/ (output # <<>> /\ AtPort.origin # <<>>))
    BY DEF KeyboardHandler, Serve, kernel, mouseVars
<1>2. stray \in BOOLEAN /\ output \in Seq(Bytes)
    BY DEF PacketInv, PacketTypes, PortInv, Types
<1>3. CASE output = <<>>
    <2>1. output' = output /\ last' = last /\ stray' = stray
        BY <1>1, <1>2, <1>3 DEF AtPort
    <2>2. Requested(output', cfg) = {}
        BY <1>3, <2>1 DEF Requested
    <2>3. latched' \subseteq latched
        BY <1>1, <2>2
    <2> QED  BY <1>1, <2>1, <2>3, PortSame
<1>4. CASE output # <<>>
    <2>1. Head(output) = output[1] /\ 1 \in 1 .. Len(output) /\ Len(output) \in Nat \ {0}
        BY <1>2, <1>4, FrontIs
    <2>2. output' = Tail(output) /\ last' = output[1] /\ AtPort = output[1]
        BY <1>1, <1>4, <2>1 DEF AtPort
    <2>3. stray' \in BOOLEAN /\ (~ stray' => ~ stray /\ output[1].origin = <<>>)
        BY <1>1, <1>2, <1>4, <2>2
    <2>4. ASSUME HasMotion(Stream)
          PROVE  Len(output) = 1 /\ output[1].origin = <<>> /\ latched' = {}
        <3>1. Len(output) = 1 /\ latched \subseteq Requested(output, cfg)
            <4>1. Len(output) <= 1 /\ latched \subseteq Requested(output, cfg)
                BY <2>4 DEF PacketInv, QueueIsFed
            <4> DEFINE n == Len(output)
            <4>2. n \in Nat \ {0} /\ n <= 1
                BY <2>1, <4>1
            <4> HIDE DEF n
            <4>3. n = 1
                BY <4>2
            <4> QED  BY <4>1, <4>3 DEF n
        <3>2. Requested(output, cfg) = {IrqOf(output[1])} \cap cfg
            BY <1>4, <2>1 DEF Requested
        <3>3. IrqOf(output[1]) = KEYBOARD_IRQ /\ latched = {KEYBOARD_IRQ}
            BY <1>1, <3>1, <3>2
        <3>4. output[1].source # "mouse"
            BY <3>3 DEF IrqOf, MOUSE_IRQ, KEYBOARD_IRQ
        <3>5. output[1].origin = <<>>
            BY <2>1, <3>4 DEF PacketInv, BytesAreGenuine, Genuine
        <3>6. output' = <<>>
            BY <1>2, <1>4, <2>2, <3>1, FrontIs
        <3>7. Requested(output', cfg) = {}
            BY <3>6 DEF Requested
        <3> QED  BY <1>1, <3>1, <3>3, <3>5, <3>7
    <2> QED  BY <1>1, <1>4, <2>2, <2>3, <2>4, PortTaken
<1> QED  BY <1>3, <1>4

\* The controller obeys before the mouse reports.
LEMMA AnswerPackets ==
    ASSUME PortInv, PacketInv, Answer
    PROVE  PacketInv'
<1>0. /\ UNCHANGED <<motions, sending, part, unmasked, config, last, stray, misled>> /\ packetVars' = packetVars
      /\ input # <<>> /\ input' = <<>>
    BY DEF Answer, Obey, kernel, mouseVars, history
<1>1. queue' = queue /\ bytes' = bytes /\ event' = event /\ dropped' = dropped
    BY <1>0 DEF packetVars
<1>2. Stream' = Stream
    BY <1>1 DEF Stream
<1>3. ~ reports
    BY <1>0 DEF PortInv, PendingIsExpected
<1>4. ~ HasMotion(Stream) /\ ~ HasMotion(output) /\ last.origin = <<>>
    BY <1>3 DEF PacketInv, MotionsComeLast
<1>6. cfg \in SUBSET (0 .. 7) /\ output \in Seq(Bytes)
    BY DEF PortInv, Types
<1>8. \/ output' = output
      \/ \E b \in Bytes : b.origin = <<>> /\ output' = Append(output, b)
    <2>1. output' \in {output, Append(output, Byte(cfg, "controller")), Append(output, Byte(ACK, "mouse"))}
        BY DEF Answer, Obey
    <2>2. ACK \in SUBSET (0 .. 7)
        BY DEF ACK
    <2>3. /\ Byte(cfg, "controller") \in Bytes /\ Byte(cfg, "controller").origin = <<>>
          /\ Byte(ACK, "mouse") \in Bytes /\ Byte(ACK, "mouse").origin = <<>>
        BY <1>6, <2>2, ByteIs DEF Sources
    <2> QED  BY <2>1, <2>3
<1>9. /\ ~ HasMotion(output')
      /\ \A k \in 1 .. Len(output') : Genuine(output'[k], motions)
    <2>1. CASE output' = output
        BY <1>4, <2>1 DEF PacketInv, BytesAreGenuine
    <2>2. CASE output' # output
        <3>1. PICK b \in Bytes : b.origin = <<>> /\ output' = Append(output, b)
            BY <1>8, <2>2
        <3>2. /\ Len(output) \in Nat /\ Len(output') = Len(output) + 1
              /\ \A k \in 1 .. Len(output') : output'[k] = IF k <= Len(output) THEN output[k] ELSE b
            BY <1>6, <3>1, AppendedIs
        <3>3. Genuine(b, motions)
            BY <3>1 DEF Genuine
        <3>4. \A k \in 1 .. Len(output) : Genuine(output[k], motions) /\ output[k].origin = <<>>
            BY <1>4 DEF PacketInv, BytesAreGenuine, HasMotion
        <3>5. \A k \in 1 .. Len(output') : Genuine(output'[k], motions) /\ output'[k].origin = <<>>
            BY <3>1, <3>2, <3>3, <3>4
        <3> QED  BY <3>5 DEF HasMotion
    <2> QED  BY <2>1, <2>2
<1>10. /\ output # <<>> => 1 \in 1 .. Len(output)
       /\ output' # <<>> => 1 \in 1 .. Len(output')
    <2>1. output' \in Seq(Bytes)
        BY <1>6, <1>8, AppendedIs
    <2> QED  BY <1>6, <2>1, EmptySeq
<1>11. Upcoming' = Upcoming
    BY <1>0, <1>4, <1>9, <1>10 DEF Upcoming, HasMotion
<1>12. PacketTypes'
    BY <1>0, <1>1 DEF PacketInv, PacketTypes
<1>13. BytesAreGenuine'
    BY <1>0, <1>1, <1>2, <1>9 DEF PacketInv, BytesAreGenuine
<1>14. MotionsComeLast'
    BY <1>0, <1>2, <1>4, <1>9 DEF MotionsComeLast
<1>15. QueueIsFed'
    BY <1>0, <1>2, <1>4 DEF PacketInv, QueueIsFed
<1>16. Chain'
    BY <1>0, <1>1, <1>2, <1>11 DEF PacketInv, Chain
<1>17. EventIsGenuine'
    BY <1>0, <1>1 DEF PacketInv, EventIsGenuine, ClearMotions
<1> QED  BY <1>12, <1>13, <1>14, <1>15, <1>16, <1>17 DEF PacketInv

\* The mouse sends what was upcoming.
LEMMA MouseSendsPackets ==
    ASSUME PortInv, PacketInv, MouseSends
    PROVE  PacketInv'
<1> DEFINE byte == [bits |-> Packets!Encoded(sending, part), source |-> "mouse",
                    origin |-> <<sending, part>>]
<1>0. /\ UNCHANGED <<motions, unmasked, config, last, stray, misled, input, cfg, reports>>
      /\ packetVars' = packetVars
      /\ reports /\ output = <<>> /\ output' = <<byte>>
      /\ latched' = latched \cup Requested(output', cfg)
      /\ part' = (part + 1) % 3 /\ (part # 2 => sending' = sending)
    BY DEF MouseSends, kernel
<1>1. queue' = queue /\ bytes' = bytes /\ event' = event /\ dropped' = dropped
    BY <1>0 DEF packetVars
<1>2. Stream' = Stream
    BY <1>1 DEF Stream
<1>3. sending \in motions /\ part \in 0 .. 2 /\ sending \in UNION Mice
    BY DEF PortInv, Types
<1>4. /\ byte.origin = <<sending, part>> /\ byte.source = "mouse" /\ byte \in Bytes
      /\ Genuine(byte, motions) /\ byte.origin # <<>>
    <2>1. <<sending, part>> \in Origins /\ <<sending, part>> # <<>>
        BY <1>3 DEF Origins
    <2>2. Packets!Encoded(sending, part) \in SUBSET (0 .. 7)
        BY <1>3, EncodedIs
    <2>3. byte.origin = <<sending, part>> /\ byte.source = "mouse" /\ byte \in Bytes
        BY <2>1, <2>2 DEF Bytes, Sources
    <2>4. byte.origin[1] = sending /\ byte.origin[2] = part
        OBVIOUS
    <2>5. Genuine(byte, motions)
        BY <1>3, <2>1, <2>3, <2>4 DEF Genuine
    <2> QED  BY <2>1, <2>3, <2>5
<1> HIDE DEF byte
<1>5. output' \in Seq(Bytes) /\ Len(output') = 1 /\ output'[1] = byte /\ output' # <<>>
    BY <1>0, <1>4
<1>6. HasMotion(output')
    BY <1>4, <1>5 DEF HasMotion
<1>7. Follows(<<sending, part>>, <<sending', part'>>)
    <2>1. part' # 0 => sending' = sending
        BY <1>0, <1>3
    <2> QED  BY <1>0, <2>1 DEF Follows
<1>8. Upcoming' = Upcoming
    BY <1>0, <1>4, <1>5 DEF Upcoming
<1>9. PacketTypes'
    BY <1>0, <1>1 DEF PacketInv, PacketTypes
<1>10. BytesAreGenuine'
    <2>2. \A k \in 1 .. Len(output') : Genuine(output'[k], motions)
        BY <1>4, <1>5
    <2> QED  BY <1>0, <1>1, <1>2, <2>2 DEF PacketInv, BytesAreGenuine
<1>11. MotionsComeLast'
    BY <1>0, <1>4, <1>5, <1>7 DEF MotionsComeLast
<1>12. QueueIsFed'
    <2> SUFFICES ASSUME HasMotion(Stream) PROVE QueueIsFed'
        BY <1>2 DEF QueueIsFed
    <2>1. Requested(output, cfg) = {}
        BY <1>0 DEF Requested
    <2>2. latched' \subseteq Requested(output', cfg') /\ MOUSE_IRQ \in unmasked'
        BY <1>0, <2>1 DEF PacketInv, QueueIsFed
    <2> QED  BY <1>4, <1>5, <2>2 DEF QueueIsFed
<1>13. Chain'
    BY <1>0, <1>1, <1>2, <1>8 DEF PacketInv, Chain
<1>14. EventIsGenuine'
    BY <1>0, <1>1 DEF PacketInv, EventIsGenuine, ClearMotions
<1> QED  BY <1>9, <1>10, <1>11, <1>12, <1>13, <1>14 DEF PacketInv

\* A key changes nothing of the movements.
LEMMA KeyPressedPackets ==
    ASSUME PortInv, PacketInv, KeyPressed
    PROVE  PacketInv'
<1>0. /\ UNCHANGED <<motions, sending, part, unmasked, last, stray, misled, cfg, reports>>
      /\ packetVars' = packetVars /\ output = <<>>
      /\ latched' = latched \cup Requested(output', cfg)
    BY DEF KeyPressed, kernel, mouseVars, history
<1>1. queue' = queue /\ bytes' = bytes /\ event' = event /\ dropped' = dropped
    BY <1>0 DEF packetVars
<1>2. Stream' = Stream
    BY <1>1 DEF Stream
<1>3. PICK bits \in Scancodes : output' = <<Byte(bits, "keyboard")>>
    BY DEF KeyPressed
<1> DEFINE byte == Byte(bits, "keyboard")
<1>4. byte \in Bytes /\ byte.origin = <<>> /\ byte.source = "keyboard"
    BY KeyAssumption, ByteIs DEF Sources
<1> HIDE DEF byte
<1>5. output' \in Seq(Bytes) /\ Len(output') = 1 /\ output'[1] = byte /\ output' # <<>>
    BY <1>3, <1>4 DEF byte
<1>6. \A k \in 1 .. Len(output') : output'[k] = byte
    BY <1>5
<1>7. ~ HasMotion(output')
    BY <1>4, <1>6 DEF HasMotion
<1>8. Upcoming' = Upcoming
    BY <1>0, <1>4, <1>5 DEF Upcoming
<1>9. PacketTypes'
    BY <1>0, <1>1 DEF PacketInv, PacketTypes
<1>10. BytesAreGenuine'
    <2>1. \A k \in 1 .. Len(output') : Genuine(output'[k], motions)
        BY <1>4, <1>6 DEF Genuine
    <2> QED  BY <1>0, <1>1, <1>2, <2>1 DEF PacketInv, BytesAreGenuine
<1>11. MotionsComeLast'
    BY <1>0, <1>2, <1>5, <1>7 DEF PacketInv, MotionsComeLast
<1>12. QueueIsFed'
    <2> SUFFICES ASSUME HasMotion(Stream) PROVE QueueIsFed'
        BY <1>2 DEF QueueIsFed
    <2>1. Requested(output, cfg) = {}
        BY <1>0 DEF Requested
    <2>2. latched' \subseteq Requested(output', cfg') /\ MOUSE_IRQ \in unmasked'
        BY <1>0, <2>1 DEF PacketInv, QueueIsFed
    <2> QED  BY <1>4, <1>5, <2>2 DEF QueueIsFed
<1>13. Chain'
    BY <1>0, <1>1, <1>2, <1>8 DEF PacketInv, Chain
<1>14. EventIsGenuine'
    BY <1>0, <1>1 DEF PacketInv, EventIsGenuine, ClearMotions
<1> QED  BY <1>9, <1>10, <1>11, <1>12, <1>13, <1>14 DEF PacketInv

------------------------------------------------------------------------------
(* The queue and the parser.                                               *)

\* The mouse's handler queues the byte at the port: while movements are queued it
\* is the upcoming one, so nothing comes between the bytes of a packet.
LEMMA MouseHandlerPackets ==
    ASSUME PortInv, PacketInv, MouseHandler
    PROVE  PacketInv'
<1>0. /\ UNCHANGED <<motions, sending, part, reports, cfg, config, input, unmasked>>
      /\ MOUSE_IRQ \in latched /\ MOUSE_IRQ \in unmasked /\ KEYBOARD_IRQ \notin latched \cap unmasked
      /\ last' = AtPort /\ output' = IF output = <<>> THEN <<>> ELSE Tail(output)
      /\ latched' = (latched \ {MOUSE_IRQ}) \cup Requested(output', cfg)
      /\ stray' = (stray \/ output = <<>> \/ AtPort.origin = <<>>)
      /\ misled' = (misled \/ (AtPort.origin = <<>> /\ ~ IsNoHeader(AtPort.bits)))
      /\ bytes' = bytes /\ event' = event
      /\ \/ queue' = Append(queue, AtPort) /\ dropped' = dropped
         \/ queue' = queue /\ dropped' = TRUE
    BY DEF MouseHandler, Serve, kernel, mouseVars, Packets!PushMouseByte
<1>1. AtPort \in Bytes /\ output' \in Seq(Bytes)
    BY ServeIs DEF MouseHandler, MOUSE_IRQ
<1>2. /\ output \in Seq(Bytes) /\ queue \in Seq(Bytes) /\ bytes \in Seq(Bytes) /\ Len(bytes) \in 0 .. 2
      /\ stray \in BOOLEAN /\ misled \in BOOLEAN /\ dropped \in BOOLEAN /\ Stream \in Seq(Bytes)
    BY StreamIs DEF PortInv, Types, PacketInv, PacketTypes
<1>3. /\ output # <<>> => /\ Len(output) \in Nat \ {0} /\ 1 \in 1 .. Len(output) /\ AtPort = output[1]
                          /\ output' = Tail(output)
                          /\ \A k \in 1 .. Len(output') :
                                k + 1 \in 1 .. Len(output) /\ output'[k] = output[k + 1]
                          /\ Len(output) = 1 => output' = <<>>
      /\ output = <<>> => AtPort = last /\ output' = <<>>
    BY <1>0, <1>2, FrontIs DEF AtPort
<1>4. PacketTypes'
    <2>1. queue' \in Seq(Bytes)
        <3>1. Append(queue, AtPort) \in Seq(Bytes)
            BY <1>1, <1>2, AppendedIs
        <3>2. queue' = queue \/ queue' = Append(queue, AtPort)
            BY <1>0
        <3> QED  BY <1>2, <3>1, <3>2
    <2>2. dropped' \in BOOLEAN
        BY <1>0, <1>2
    <2>3. stray' \in BOOLEAN /\ misled' \in BOOLEAN
        BY <1>0
    <2> QED  BY <1>0, <1>2, <2>1, <2>2, <2>3 DEF PacketTypes
<1>5. \/ Stream' = Append(Stream, AtPort) /\ dropped' = dropped
      \/ Stream' = Stream /\ dropped'
    <2>1. CASE queue' = queue /\ dropped' = TRUE
        BY <1>0, <2>1 DEF Stream
    <2>2. CASE queue' = Append(queue, AtPort) /\ dropped' = dropped
        <3>1. queue' = queue \o <<AtPort>> /\ Append(Stream, AtPort) = Stream \o <<AtPort>>
            BY <1>1, <1>2, <2>2, AppendIsConcat
        <3>2. <<AtPort>> \in Seq(Bytes)
            BY <1>1
        <3>3. bytes \o (queue \o <<AtPort>>) = (bytes \o queue) \o <<AtPort>>
            BY <1>2, <3>2, ConcatAssociative
        <3> QED  BY <1>0, <2>2, <3>1, <3>3 DEF Stream
    <2> QED  BY <1>0, <2>1, <2>2
<1>6. HasMotion(Stream') => HasMotion(Stream) \/ AtPort.origin # <<>>
    BY <1>1, <1>2, <1>5, PushedIs
\* a byte of a movement in the stream is upcoming or the old one again
<1>7. output # <<>> /\ AtPort.origin # <<>> =>
          /\ output' = <<>> /\ Follows(AtPort.origin, <<sending, part>>) /\ Upcoming = AtPort.origin
    <2> SUFFICES ASSUME output # <<>>, AtPort.origin # <<>>
                 PROVE  /\ output' = <<>> /\ Follows(AtPort.origin, <<sending, part>>)
                        /\ Upcoming = AtPort.origin
        OBVIOUS
    <2>1. HasMotion(output)
        BY <1>3 DEF HasMotion
    <2>2. Len(output) = 1 /\ Follows(output[1].origin, <<sending, part>>)
        BY <2>1 DEF PacketInv, MotionsComeLast
    <2> QED  BY <1>3, <2>2 DEF Upcoming
<1>8. output = <<>> /\ AtPort.origin # <<>> => Follows(AtPort.origin, <<sending, part>>)
    BY <1>3 DEF PacketInv, MotionsComeLast
<1>9. HasMotion(Stream) => output # <<>> /\ AtPort.origin # <<>>
    <2> SUFFICES ASSUME HasMotion(Stream) PROVE output # <<>> /\ AtPort.origin # <<>>
        OBVIOUS
    <2>1. /\ Len(output) <= 1 /\ latched \subseteq Requested(output, cfg)
          /\ output # <<>> => output[1].origin # <<>> \/ output[1].source = "keyboard"
        BY DEF PacketInv, QueueIsFed
    <2>2. output # <<>>
        BY <1>0, <2>1 DEF Requested
    <2>3. Head(output) = output[1]
        BY <1>2, <2>2, FrontIs
    <2>4. IrqOf(output[1]) = MOUSE_IRQ
        BY <1>0, <2>1, <2>2, <2>3 DEF Requested
    <2>5. output[1].source = "mouse"
        BY <2>4 DEF IrqOf, MOUSE_IRQ, KEYBOARD_IRQ
    <2> QED  BY <1>3, <2>1, <2>2, <2>5
<1>10. output' = <<>> => Upcoming' = <<sending, part>>
    BY <1>0 DEF Upcoming
<1>11. AtPort.origin # <<>> => output' = <<>>
    BY <1>3, <1>7
<1>12. BytesAreGenuine'
    <2>1. Genuine(AtPort, motions)
        BY <1>3 DEF PacketInv, BytesAreGenuine
    <2>2. \A k \in 1 .. Len(output') : Genuine(output'[k], motions)
        <3>1. CASE output = <<>>
            BY <1>3, <3>1
        <3>2. CASE output # <<>>
            BY <1>3, <3>2 DEF PacketInv, BytesAreGenuine
        <3> QED  BY <3>1, <3>2
    <2>3. \A k \in 1 .. Len(Stream') : Genuine(Stream'[k], motions)
        <3>1. CASE Stream' = Stream
            BY <3>1 DEF PacketInv, BytesAreGenuine
        <3>2. CASE Stream' = Append(Stream, AtPort)
            <4>1. /\ Len(Stream) \in Nat /\ Len(Stream') = Len(Stream) + 1
                  /\ \A k \in 1 .. Len(Stream') :
                        Stream'[k] = IF k <= Len(Stream) THEN Stream[k] ELSE AtPort
                BY <1>1, <1>2, <3>2, AppendedIs
            <4>2. \A k \in 1 .. Len(Stream) : Genuine(Stream[k], motions)
                BY DEF PacketInv, BytesAreGenuine
            <4> QED  BY <2>1, <4>1, <4>2
        <3> QED  BY <1>5, <3>1, <3>2
    <2>4. ASSUME ~ misled', NEW k \in 1 .. Len(Stream'), Stream'[k].origin = <<>>
          PROVE  IsNoHeader(Stream'[k].bits)
        <3>1. ~ misled /\ (AtPort.origin = <<>> => IsNoHeader(AtPort.bits))
            BY <1>0, <1>2, <2>4
        <3>2. \A n \in 1 .. Len(Stream) : Stream[n].origin = <<>> => IsNoHeader(Stream[n].bits)
            BY <3>1 DEF PacketInv, BytesAreGenuine
        <3>3. CASE Stream' = Stream
            BY <2>4, <3>2, <3>3
        <3>4. CASE Stream' = Append(Stream, AtPort)
            <4>1. /\ Len(Stream) \in Nat /\ Len(Stream') = Len(Stream) + 1
                  /\ Stream'[k] = IF k <= Len(Stream) THEN Stream[k] ELSE AtPort
                BY <1>1, <1>2, <3>4, AppendedIs
            <4>2. k <= Len(Stream) => k \in 1 .. Len(Stream)
                BY <4>1
            <4> QED  BY <2>4, <3>1, <3>2, <4>1, <4>2
        <3> QED  BY <1>5, <3>3, <3>4
    <2> QED  BY <1>0, <2>1, <2>2, <2>3, <2>4 DEF PacketInv, BytesAreGenuine
<1>13. ~ HasMotion(output')
    <2>0. \A k \in 1 .. Len(<<>>) : FALSE
        OBVIOUS
    <2>1. CASE output = <<>>
        BY <1>3, <2>0, <2>1 DEF HasMotion
    <2>2. CASE output # <<>> /\ Len(output) = 1
        BY <1>3, <2>0, <2>2 DEF HasMotion
    <2>3. CASE output # <<>> /\ Len(output) # 1
        <3>1. ~ HasMotion(output)
            BY <2>3 DEF PacketInv, MotionsComeLast
        <3> QED  BY <1>3, <2>3, <3>1 DEF HasMotion
    <2> QED  BY <2>1, <2>2, <2>3
<1>14. MotionsComeLast'
    <2>1. ~ reports => AtPort.origin = <<>> /\ ~ HasMotion(Stream)
        <3> SUFFICES ASSUME ~ reports PROVE AtPort.origin = <<>> /\ ~ HasMotion(Stream)
            OBVIOUS
        <3>1. ~ HasMotion(Stream) /\ ~ HasMotion(output) /\ last.origin = <<>>
            BY DEF PacketInv, MotionsComeLast
        <3> QED  BY <1>3, <3>1 DEF HasMotion
    <2>2. AtPort.origin # <<>> => Follows(AtPort.origin, <<sending, part>>)
        BY <1>7, <1>8
    <2> QED  BY <1>0, <1>6, <1>13, <2>1, <2>2 DEF MotionsComeLast
<1>15. QueueIsFed'
    <2> SUFFICES ASSUME HasMotion(Stream') PROVE QueueIsFed'
        BY DEF QueueIsFed
    <2>1. output' = <<>> /\ Len(<<>>) <= 1
        BY <1>6, <1>9, <1>11
    <2>2. Requested(output', cfg) = {}
        BY <2>1 DEF Requested
    <2>3. KEYBOARD_IRQ \notin latched /\ latched \subseteq {0, 1}
        BY <1>0 DEF PortInv, Types
    <2>4. latched' = {}
        BY <1>0, <2>2, <2>3 DEF KEYBOARD_IRQ, MOUSE_IRQ
    <2> QED  BY <1>0, <2>1, <2>4 DEF QueueIsFed
<1>16. Chain'
    <2> SUFFICES ASSUME ~ dropped'
                 PROVE  InOrder(Stream', Upcoming') /\ (~ stray' => Whole(Stream', Upcoming'))
        BY DEF Chain
    <2>1. Stream' = Append(Stream, AtPort) /\ ~ dropped
        BY <1>5
    <2>2. InOrder(Stream, Upcoming) /\ (~ stray => Whole(Stream, Upcoming))
        BY <2>1 DEF PacketInv, Chain
    <2>3. HasMotion(Stream) => AtPort.origin = Upcoming
        BY <1>7, <1>9
    <2>4. AtPort.origin # <<>> => Follows(AtPort.origin, Upcoming')
        BY <1>7, <1>8, <1>10, <1>11
    <2>5. InOrder(Stream', Upcoming')
        BY <1>1, <1>2, <2>1, <2>2, <2>3, <2>4, PushedIs
    <2>6. ASSUME ~ stray' PROVE Whole(Stream', Upcoming')
        <3>1. ~ stray /\ output # <<>> /\ AtPort.origin # <<>>
            BY <1>0, <1>2, <2>6
        <3> QED  BY <1>1, <1>2, <1>7, <2>1, <2>2, <3>1, PushedIs
    <2> QED  BY <2>5, <2>6
<1>17. EventIsGenuine'
    <2>1. (~ stray' => ~ stray) /\ (~ misled' => ~ misled) /\ (~ dropped' => ~ dropped)
        BY <1>0, <1>2
    <2> QED  BY <1>0, <2>1 DEF PacketInv, EventIsGenuine, ClearMotions
<1> QED  BY <1>4, <1>12, <1>14, <1>15, <1>16, <1>17 DEF PacketInv


\* what poll takes from the stream, and what it returns
Takes(taken) ==
    /\ Stream' \in Seq(Bytes) /\ Len(Stream) = Len(Stream') + taken
    /\ \A k \in 1 .. Len(Stream') : Stream'[k] = Stream[k + taken]
    /\ taken = 1 => 3 \notin Stream[1].bits
    /\ taken \in {0, 1} => event' = Packets!None
    /\ taken = 3 => /\ 3 \in Stream[1].bits
                    /\ event' = Packets!Decoded(<<Stream[1], Stream[2], Stream[3]>>)

\* poll takes nothing from the stream while it assembles a packet, a byte that is no
\* header, or the three bytes of a packet.
LEMMA PollIs ==
    ASSUME PacketInv, Packets!Poll, stray' = stray, misled' = misled
    PROVE  /\ PacketTypes' /\ dropped' = dropped
           /\ bytes' # <<>> => 3 \in bytes'[1].bits
           /\ Takes(0) \/ Takes(1) \/ Takes(3)
<1> DEFINE b == Head(queue)
           packet == Append(bytes, b)
<1>1. /\ queue \in Seq(Bytes) /\ bytes \in Seq(Bytes) /\ Len(bytes) \in 0 .. 2
      /\ dropped \in BOOLEAN /\ stray \in BOOLEAN /\ misled \in BOOLEAN
      /\ bytes # <<>> => 3 \in bytes[1].bits
    BY DEF PacketInv, PacketTypes, BytesAreGenuine
<1>2. /\ queue # <<>> /\ queue' = Tail(queue) /\ dropped' = dropped
    BY DEF Packets!Poll
<1>3. \/ bytes = <<>> /\ 3 \notin b.bits /\ event' = Packets!None /\ bytes' = bytes
      \/ /\ bytes # <<>> \/ 3 \in b.bits
         /\ Len(packet) < 3 /\ event' = Packets!None /\ bytes' = packet
      \/ /\ bytes # <<>> \/ 3 \in b.bits
         /\ ~ (Len(packet) < 3) /\ event' = Packets!Decoded(packet) /\ bytes' = <<>>
    BY DEF Packets!Poll, Packets!OutOfSync
<1>4. /\ Len(queue) \in Nat \ {0} /\ b = queue[1] /\ b \in Bytes
      /\ queue' \in Seq(Bytes) /\ Len(queue') = Len(queue) - 1
      /\ \A k \in 1 .. Len(queue') : k + 1 \in 1 .. Len(queue) /\ queue'[k] = queue[k + 1]
    BY <1>1, <1>2, FrontIs
<1>5. /\ packet \in Seq(Bytes) /\ packet # <<>> /\ Len(packet) = Len(bytes) + 1
      /\ \A k \in 1 .. Len(packet) : packet[k] = IF k <= Len(bytes) THEN bytes[k] ELSE b
    BY <1>1, <1>4, AppendedIs
<1>6. /\ Len(Stream) = Len(bytes) + Len(queue)
      /\ \A k \in 1 .. Len(Stream) :
            Stream[k] = IF k <= Len(bytes) THEN bytes[k] ELSE queue[k - Len(bytes)]
    BY StreamIs DEF PacketInv
<1>7. bytes = <<>> <=> Len(bytes) = 0
    BY <1>1, EmptySeq
<1> HIDE DEF b, packet
\* the stream afterwards, given what the parser holds
<1>8. ASSUME bytes' \in Seq(Bytes), Len(bytes') \in 0 .. 2
      PROVE  /\ Stream' \in Seq(Bytes) /\ Len(Stream') = Len(bytes') + Len(queue')
             /\ \A k \in 1 .. Len(Stream') :
                   Stream'[k] = IF k <= Len(bytes') THEN bytes'[k] ELSE queue'[k - Len(bytes')]
    <2> DEFINE c == bytes'
               q == queue'
    <2>1. c \in Seq(Bytes) /\ q \in Seq(Bytes) /\ Stream' = c \o q
        BY <1>4, <1>8 DEF Stream
    <2> HIDE DEF c, q
    <2>2. /\ c \o q \in Seq(Bytes) /\ Len(c \o q) = Len(c) + Len(q)
          /\ \A k \in 1 .. Len(c \o q) : (c \o q)[k] = IF k <= Len(c) THEN c[k] ELSE q[k - Len(c)]
        BY <2>1
    <2> QED  BY <2>1, <2>2 DEF c, q
\* a byte that cannot be a header is thrown away
<1>9. CASE bytes = <<>> /\ 3 \notin b.bits /\ event' = Packets!None /\ bytes' = bytes
    <2>1. /\ bytes' \in Seq(Bytes) /\ Len(bytes') = 0 /\ Len(bytes) = 0 /\ Len(bytes') \in 0 .. 2
          /\ bytes' = <<>>
        BY <1>1, <1>7, <1>9
    <2>2. /\ Stream' \in Seq(Bytes) /\ Len(Stream') = Len(queue') /\ Len(Stream) = Len(queue)
          /\ \A k \in 1 .. Len(Stream') : Stream'[k] = queue'[k]
          /\ \A k \in 1 .. Len(Stream) : Stream[k] = queue[k]
        <3>1. /\ Stream' \in Seq(Bytes) /\ Len(Stream') = 0 + Len(queue')
              /\ \A k \in 1 .. Len(Stream') : Stream'[k] = IF k <= 0 THEN bytes'[k] ELSE queue'[k - 0]
            BY <1>8, <2>1
        <3>2. /\ Len(Stream) = 0 + Len(queue)
              /\ \A k \in 1 .. Len(Stream) : Stream[k] = IF k <= 0 THEN bytes[k] ELSE queue[k - 0]
            BY <1>6, <2>1
        <3>3. Len(queue) \in Nat /\ Len(queue') \in Nat
            BY <1>4
        <3>4. \A k \in Nat \ {0} : k - 0 = k /\ ~ (k <= 0)
            OBVIOUS
        <3>5. (\A k \in 1 .. Len(Stream) : k \in Nat \ {0}) /\ (\A k \in 1 .. Len(Stream') : k \in Nat \ {0})
            BY <3>1, <3>2, <3>3
        <3>6. 0 + Len(queue) = Len(queue) /\ 0 + Len(queue') = Len(queue')
            BY <3>3
        <3> QED  BY <3>1, <3>2, <3>4, <3>5, <3>6
    <2>3. /\ Len(Stream) = Len(Stream') + 1
          /\ Stream[1] = b /\ \A k \in 1 .. Len(Stream') : Stream'[k] = Stream[k + 1]
        BY <1>4, <2>2
    <2>4. PacketTypes'
        BY <1>1, <1>2, <1>4, <2>1 DEF PacketTypes
    <2>5. Takes(1)
        BY <1>9, <2>2, <2>3 DEF Takes
    <2> QED  BY <1>2, <2>1, <2>4, <2>5
\* a byte of a packet moves from the queue to the parser
<1>10. CASE /\ bytes # <<>> \/ 3 \in b.bits
            /\ Len(packet) < 3 /\ event' = Packets!None /\ bytes' = packet
    <2>1. /\ bytes' \in Seq(Bytes) /\ Len(bytes') = Len(bytes) + 1 /\ Len(bytes') \in 0 .. 2
        BY <1>1, <1>5, <1>10
    <2>2. 3 \in bytes'[1].bits
        BY <1>1, <1>5, <1>7, <1>10
    <2>3. /\ Stream' \in Seq(Bytes) /\ Len(Stream') = Len(Stream)
        BY <1>1, <1>4, <1>6, <1>8, <2>1
    <2>4. ASSUME NEW k \in 1 .. Len(Stream') PROVE Stream'[k] = Stream[k]
        <3>1. CASE k <= Len(bytes)
            BY <1>1, <1>4, <1>5, <1>6, <1>8, <1>10, <2>1, <2>3, <3>1
        <3>2. CASE k = Len(bytes) + 1
            <4>1. k \in 1 .. Len(packet) /\ ~ (k <= Len(bytes)) /\ k - Len(bytes) = 1 /\ k <= Len(bytes')
                BY <1>1, <1>5, <2>1, <3>2
            <4>2. Stream'[k] = bytes'[k] /\ bytes'[k] = b
                BY <1>5, <1>8, <1>10, <2>1, <4>1
            <4>3. Stream[k] = queue[1]
                BY <1>6, <2>3, <4>1
            <4> QED  BY <1>4, <4>2, <4>3
        <3>3. CASE k > Len(bytes) + 1
            <4>1. Stream[k] = queue[k - Len(bytes)] /\ Stream'[k] = queue'[k - (Len(bytes) + 1)]
                BY <1>1, <1>4, <1>6, <1>8, <2>1, <2>3, <3>3
            <4>2. /\ k - (Len(bytes) + 1) \in 1 .. Len(queue')
                  /\ (k - (Len(bytes) + 1)) + 1 = k - Len(bytes)
                BY <1>1, <1>4, <1>6, <2>3, <3>3
            <4> QED  BY <1>4, <4>1, <4>2
        <3> QED  BY <1>1, <3>1, <3>2, <3>3
    <2>5. Len(Stream) = Len(Stream') + 0 /\ \A k \in 1 .. Len(Stream') : k + 0 = k
        <3>1. Len(Stream') \in Nat
            BY <2>3
        <3> QED  BY <2>3, <3>1
    <2>6. PacketTypes'
        BY <1>1, <1>2, <1>4, <2>1 DEF PacketTypes
    <2>7. Takes(0)
        BY <1>10, <2>3, <2>4, <2>5 DEF Takes
    <2> QED  BY <1>2, <2>2, <2>6, <2>7
\* the third byte completes one
<1>11. CASE /\ bytes # <<>> \/ 3 \in b.bits
            /\ ~ (Len(packet) < 3) /\ event' = Packets!Decoded(packet) /\ bytes' = <<>>
    <2>1. /\ Len(packet) = 3 /\ Len(bytes) = 2 /\ bytes # <<>>
        <3> DEFINE n == Len(bytes)
        <3>1. ~ (n + 1 < 3) /\ Len(packet) = n + 1 /\ n \in 0 .. 2
            BY <1>1, <1>5, <1>11
        <3> HIDE DEF n
        <3>2. Len(packet) = 3 /\ n = 2
            BY <3>1
        <3>3. Len(packet) = 3 /\ Len(bytes) = 2
            BY <3>2 DEF n
        <3> QED  BY <1>7, <3>3
    <2>2. /\ bytes' \in Seq(Bytes) /\ Len(bytes') = 0 /\ Len(bytes') \in 0 .. 2
        BY <1>11, EmptySeq
    <2>3. /\ Stream' \in Seq(Bytes) /\ Len(Stream') = Len(queue')
          /\ \A k \in 1 .. Len(Stream') : Stream'[k] = queue'[k]
        BY <1>4, <1>8, <2>2
    <2>4. /\ Len(Stream) = Len(queue) + 2 /\ Stream[1] = bytes[1] /\ Stream[2] = bytes[2]
          /\ Stream[3] = b
          /\ \A k \in 1 .. Len(queue) : Stream[k + 2] = queue[k]
        BY <1>4, <1>6, <2>1
    <2>5. /\ Len(Stream) = Len(Stream') + 3
          /\ \A k \in 1 .. Len(Stream') : Stream'[k] = Stream[k + 3]
        <3>1. Len(Stream) = Len(Stream') + 3
            BY <1>4, <2>3, <2>4
        <3>2. ASSUME NEW k \in 1 .. Len(Stream') PROVE Stream'[k] = Stream[k + 3]
            <4>1. k + 1 \in 1 .. Len(queue) /\ (k + 1) + 2 = k + 3
                BY <1>4, <2>3
            <4>2. Stream[(k + 1) + 2] = queue[k + 1]
                BY <2>4, <4>1
            <4> QED  BY <1>4, <2>3, <4>1, <4>2
        <3> QED  BY <3>1, <3>2
    <2>6. packet = <<Stream[1], Stream[2], Stream[3]>>
        <3>1. packet[1] = Stream[1] /\ packet[2] = Stream[2] /\ packet[3] = Stream[3]
            BY <1>5, <2>1, <2>4
        <3> QED  BY <1>5, <2>1, <3>1
    <2>7. PacketTypes'
        BY <1>1, <1>2, <1>4, <2>2 DEF PacketTypes
    <2>8. 3 \in Stream[1].bits
        BY <1>1, <2>1, <2>4
    <2>9. Takes(3)
        BY <1>11, <2>3, <2>5, <2>6, <2>8 DEF Takes
    <2> QED  BY <1>2, <1>11, <2>7, <2>9
<1> QED  BY <1>3, <1>9, <1>10, <1>11


\* An origin is a movement and a part; a header of a movement has bit 3.
LEMMA OriginIs ==
    ASSUME PortInv, NEW b \in Bytes, Genuine(b, motions), b.origin # <<>>
    PROVE  /\ b.origin = <<b.origin[1], b.origin[2]>> /\ b.origin[2] \in 0 .. 2
           /\ b.origin[1] \in motions /\ b.bits = Packets!Encoded(b.origin[1], b.origin[2])
           /\ b.origin[2] = 0 => 3 \in b.bits
           /\ b.origin[2] # 0 /\ ClearMotions => 3 \notin b.bits
<1>1. b.origin \in (UNION Mice) \X (0 .. 2)
    BY DEF Bytes, Origins
<1>2. /\ b.origin = <<b.origin[1], b.origin[2]>> /\ b.origin[2] \in 0 .. 2
    BY <1>1
<1>3. b.origin[1] \in motions /\ b.bits = Packets!Encoded(b.origin[1], b.origin[2])
    BY DEF Genuine
<1>4. b.origin[1] \in Movements
    BY <1>3, MouseAssumption DEF PortInv, Types
<1>5. b.origin[2] = 0 => 3 \in b.bits
    <2>1. 3 \in Packets!Encoded(b.origin[1], 0)
        BY <1>4, DecodedIs
    <2> QED  BY <1>3, <2>1
<1>6. b.origin[2] # 0 => b.origin[2] \in {1, 2}
    BY <1>2
<1>7. b.origin[2] # 0 /\ ClearMotions => 3 \notin b.bits
    BY <1>3, <1>6 DEF ClearMotions
<1> QED  BY <1>2, <1>3, <1>5, <1>7

\* Three bytes in sequence after a header are a movement, and the next is a header.
LEMMA ThreeAre ==
    ASSUME NEW a, NEW b, NEW c, NEW d, Follows(a, b), Follows(b, c), Follows(c, d),
           a[2] = 0
    PROVE  b[2] = 1 /\ b[1] = a[1] /\ c[2] = 2 /\ c[1] = a[1] /\ d[2] = 0
<1>1. b[2] = 1 /\ b[1] = a[1]
    BY DEF Follows
<1>2. c[2] = 2 /\ c[1] = a[1]
    BY <1>1 DEF Follows
<1>3. d[2] = 0
    BY <1>2 DEF Follows
<1> QED  BY <1>1, <1>2, <1>3

\* A packet is decoded to the movement its three bytes come from.
LEMMA PacketIs ==
    ASSUME NEW m \in Movements,
           NEW p, p[1].bits = Packets!Encoded(m, 0), p[2].bits = Packets!Encoded(m, 1),
           p[3].bits = Packets!Encoded(m, 2), Packets!Decoded(p).packet # <<>>
    PROVE  /\ Packets!Decoded(p).packet = p /\ ~ m.overflow
           /\ Packets!Decoded(p).dx = m.dx /\ Packets!Decoded(p).dy = -m.dy
<1>1. {6, 7} \cap p[1].bits = {}
    BY DEF Packets!Decoded, Packets!None
<1> DEFINE x == Packets!Value(p[2].bits) - (IF 4 \in p[1].bits THEN 256 ELSE 0)
           y == Packets!Value(p[3].bits) - (IF 5 \in p[1].bits THEN 256 ELSE 0)
<1>2. Packets!Decoded(p) = [dx |-> x, dy |-> -y, packet |-> p]
    BY <1>1 DEF Packets!Decoded
<1>3. x = m.dx /\ y = m.dy /\ ~ m.overflow
    <2> DEFINE e(part_) == Packets!Encoded(m, part_)
    <2>1. /\ {6, 7} \cap e(0) = {} => ~ m.overflow
          /\ Packets!Value(e(1)) - (IF 4 \in e(0) THEN 256 ELSE 0) = m.dx
          /\ Packets!Value(e(2)) - (IF 5 \in e(0) THEN 256 ELSE 0) = m.dy
        BY DecodedIs
    <2>2. p[1].bits = e(0) /\ p[2].bits = e(1) /\ p[3].bits = e(2)
        OBVIOUS
    <2> HIDE DEF e
    <2> QED  BY <1>1, <2>1, <2>2
<1> HIDE DEF x, y
<1> QED  BY <1>2, <1>3


\* poll keeps the stream in sequence, and what it returns is a movement.
LEMMA ShellPollsPackets ==
    ASSUME PortInv, PacketInv, ShellPolls
    PROVE  PacketInv'
<1>0. /\ UNCHANGED <<output, last, latched, motions, sending, part, reports, cfg, config, input>>
      /\ unmasked' = unmasked /\ stray' = stray /\ misled' = misled /\ Packets!Poll
    BY DEF ShellPolls, vars, kernel, device, port, mouseVars, history
<1>1. /\ PacketTypes' /\ dropped' = dropped
      /\ bytes' # <<>> => 3 \in bytes'[1].bits
      /\ Takes(0) \/ Takes(1) \/ Takes(3)
    BY <1>0, PollIs
<1>2. PICK d \in {0, 1, 3} : Takes(d)
    BY <1>1
<1>3. /\ Stream' \in Seq(Bytes) /\ Stream \in Seq(Bytes) /\ Len(Stream) = Len(Stream') + d
      /\ \A k \in 1 .. Len(Stream') : Stream'[k] = Stream[k + d]
    BY <1>2, StreamIs DEF Takes, PacketInv
<1>4. d \in Nat /\ Len(Stream') \in Nat
    BY <1>3
<1>5. Upcoming' = Upcoming
    BY <1>0 DEF Upcoming
<1>6. \A k \in 1 .. Len(Stream) : Genuine(Stream[k], motions) /\ Stream[k] \in Bytes
    BY <1>3 DEF PacketInv, BytesAreGenuine
<1>7. HasMotion(Stream') => HasMotion(Stream)
    BY <1>3, <1>4, ShiftedIs
<1>8. BytesAreGenuine'
    <2>1. \A k \in 1 .. Len(Stream') : Genuine(Stream'[k], motions)
        <3> SUFFICES ASSUME NEW k \in 1 .. Len(Stream') PROVE Genuine(Stream'[k], motions)
            OBVIOUS
        <3>1. k + d \in 1 .. Len(Stream)
            BY <1>3, <1>4
        <3> QED  BY <1>3, <1>6, <3>1
    <2>2. ASSUME ~ misled, NEW k \in 1 .. Len(Stream'), Stream'[k].origin = <<>>
          PROVE  IsNoHeader(Stream'[k].bits)
        <3>1. k + d \in 1 .. Len(Stream) /\ Stream'[k] = Stream[k + d]
            BY <1>3, <1>4
        <3> QED  BY <2>2, <3>1 DEF PacketInv, BytesAreGenuine
    <2> QED  BY <1>0, <1>1, <2>1, <2>2 DEF PacketInv, BytesAreGenuine
<1>9. MotionsComeLast'
    BY <1>0, <1>7 DEF PacketInv, MotionsComeLast
<1>10. QueueIsFed'
    BY <1>0, <1>7 DEF PacketInv, QueueIsFed
\* the bytes of the stream, and what comes after them, in sequence
<1>11. ASSUME ~ dropped, NEW k \in 1 .. Len(Stream), Stream[k].origin # <<>>
       PROVE  Follows(Stream[k].origin, OriginAt(Stream, k + 1, Upcoming))
    BY <1>11 DEF PacketInv, Chain, InOrder
\* if none is missing the first byte is a header
<1>12. ASSUME ~ dropped, ~ stray, 1 \in 1 .. Len(Stream)
       PROVE  Stream[1].origin # <<>> /\ Stream[1].origin[2] = 0 /\ 3 \in Stream[1].bits
    <2>1. Stream[1].origin # <<>> /\ OriginAt(Stream, 1, Upcoming)[2] = 0
        BY <1>12 DEF PacketInv, Chain, Whole
    <2>2. Stream[1].origin[2] = 0
        BY <1>12, <2>1 DEF OriginAt
    <2>3. 3 \in Stream[1].bits
        BY <1>6, <1>12, <2>1, <2>2, OriginIs
    <2> QED  BY <2>1, <2>2, <2>3
\* the three bytes of a packet
<1>13. ASSUME d = 3, ~ dropped, Stream[1].origin # <<>>, Stream[1].origin[2] = 0
       PROVE  /\ Stream[2].origin # <<>> /\ Stream[3].origin # <<>>
              /\ Stream[2].origin[1] = Stream[1].origin[1] /\ Stream[2].origin[2] = 1
              /\ Stream[3].origin[1] = Stream[1].origin[1] /\ Stream[3].origin[2] = 2
              /\ OriginAt(Stream, 4, Upcoming)[2] = 0
    <2>1. 1 \in 1 .. Len(Stream) /\ 2 \in 1 .. Len(Stream) /\ 3 \in 1 .. Len(Stream)
        BY <1>3, <1>4, <1>13
    <2>2. /\ OriginAt(Stream, 1 + 1, Upcoming) = Stream[2].origin
          /\ OriginAt(Stream, 2 + 1, Upcoming) = Stream[3].origin
          /\ OriginAt(Stream, 3 + 1, Upcoming) = OriginAt(Stream, 4, Upcoming)
        BY <2>1 DEF OriginAt
    <2>3. Follows(Stream[1].origin, Stream[2].origin)
        BY <1>11, <1>13, <2>1, <2>2
    <2>4. Stream[2].origin # <<>>
        BY <2>3 DEF Follows
    <2>5. Follows(Stream[2].origin, Stream[3].origin)
        BY <1>11, <1>13, <2>1, <2>2, <2>4
    <2>6. Stream[3].origin # <<>>
        BY <2>5 DEF Follows
    <2>7. Follows(Stream[3].origin, OriginAt(Stream, 4, Upcoming))
        BY <1>11, <1>13, <2>1, <2>2, <2>6
    <2> QED  BY <1>13, <2>3, <2>4, <2>5, <2>6, <2>7, ThreeAre
<1>14. Chain'
    <2> SUFFICES ASSUME ~ dropped
                 PROVE  InOrder(Stream', Upcoming) /\ (~ stray => Whole(Stream', Upcoming))
        BY <1>0, <1>1, <1>5 DEF Chain
    <2>1. InOrder(Stream, Upcoming) /\ (~ stray => Whole(Stream, Upcoming))
        BY DEF PacketInv, Chain
    <2>2. InOrder(Stream', Upcoming)
        BY <1>3, <1>4, <2>1, ShiftedIs
    <2>3. ASSUME ~ stray PROVE OriginAt(Stream, d + 1, Upcoming)[2] = 0
        <3>1. CASE d = 0
            BY <2>1, <2>3, <3>1 DEF Whole
        <3>2. CASE d = 1
            <4>1. 1 \in 1 .. Len(Stream) /\ 3 \notin Stream[1].bits
                BY <1>2, <1>3, <1>4, <3>2 DEF Takes
            <4> QED  BY <1>12, <2>3, <4>1
        <3>3. CASE d = 3
            <4>1. 1 \in 1 .. Len(Stream) /\ d + 1 = 4
                BY <1>3, <1>4, <3>3
            <4> QED  BY <1>12, <1>13, <2>3, <3>3, <4>1
        <3> QED  BY <3>1, <3>2, <3>3
    <2>4. ~ stray => Whole(Stream', Upcoming)
        BY <1>3, <1>4, <2>1, <2>3, ShiftedIs
    <2> QED  BY <2>2, <2>4
<1>15. EventIsGenuine'
    <2> DEFINE p == <<Stream[1], Stream[2], Stream[3]>>
    <2> SUFFICES ASSUME event'.packet # <<>>, ~ dropped, ~ misled, ClearMotions \/ ~ stray
                 PROVE  \E m \in motions :
                           /\ \A k \in 1 .. 3 : event'.packet[k].origin = <<m, k - 1>>
                           /\ ~ m.overflow
                           /\ event'.dx = m.dx /\ event'.dy = -m.dy
        BY <1>0, <1>1 DEF EventIsGenuine, ClearMotions
    <2>1. d = 3
        BY <1>2 DEF Takes, Packets!None
    <2>2. /\ 3 \in Stream[1].bits /\ event' = Packets!Decoded(p)
          /\ 1 \in 1 .. Len(Stream) /\ 2 \in 1 .. Len(Stream) /\ 3 \in 1 .. Len(Stream)
        BY <1>2, <1>3, <1>4, <2>1 DEF Takes
    <2>3. p[1] = Stream[1] /\ p[2] = Stream[2] /\ p[3] = Stream[3]
        OBVIOUS
    <2> HIDE DEF p
    <2>4. {6, 7} \cap Stream[1].bits = {}
        BY <2>2, <2>3 DEF Packets!Decoded, Packets!None
    <2>5. Stream[1].origin # <<>>
        BY <2>2, <2>4 DEF PacketInv, BytesAreGenuine, IsNoHeader
    <2>6. Stream[1].origin[2] = 0
        BY <1>6, <1>12, <2>2, <2>5, OriginIs
    <2>7. /\ Stream[2].origin # <<>> /\ Stream[3].origin # <<>>
          /\ Stream[2].origin[1] = Stream[1].origin[1] /\ Stream[2].origin[2] = 1
          /\ Stream[3].origin[1] = Stream[1].origin[1] /\ Stream[3].origin[2] = 2
        BY <1>13, <2>1, <2>5, <2>6
    <2> DEFINE m == Stream[1].origin[1]
    <2>8. /\ Stream[1].origin = <<m, 0>> /\ Stream[2].origin = <<m, 1>> /\ Stream[3].origin = <<m, 2>>
          /\ m \in motions /\ Stream[1].bits = Packets!Encoded(m, 0)
          /\ Stream[2].bits = Packets!Encoded(m, 1) /\ Stream[3].bits = Packets!Encoded(m, 2)
        <3>1. /\ Stream[1].origin = <<m, 0>> /\ m \in motions /\ Stream[1].bits = Packets!Encoded(m, 0)
            BY <1>6, <2>2, <2>5, <2>6, OriginIs
        <3>2. Stream[2].origin = <<m, 1>> /\ Stream[2].bits = Packets!Encoded(m, 1)
            BY <1>6, <2>2, <2>7, OriginIs
        <3>3. Stream[3].origin = <<m, 2>> /\ Stream[3].bits = Packets!Encoded(m, 2)
            BY <1>6, <2>2, <2>7, OriginIs
        <3> QED  BY <3>1, <3>2, <3>3
    <2> HIDE DEF m
    <2>9. m \in Movements
        BY <2>8, MouseAssumption DEF PortInv, Types
    <2>10. event'.packet = p /\ ~ m.overflow /\ event'.dx = m.dx /\ event'.dy = -m.dy
        <3>1. Packets!Decoded(p).packet # <<>>
            BY <2>2
        <3>2. /\ Packets!Decoded(p).packet = p /\ ~ m.overflow
              /\ Packets!Decoded(p).dx = m.dx /\ Packets!Decoded(p).dy = -m.dy
            BY <2>3, <2>8, <2>9, <3>1, PacketIs
        <3> QED  BY <2>2, <3>2
    <2>11. \A k \in 1 .. 3 : p[k].origin = <<m, k - 1>>
        <3> SUFFICES ASSUME NEW k \in 1 .. 3 PROVE p[k].origin = <<m, k - 1>>
            OBVIOUS
        <3>1. k = 1 \/ k = 2 \/ k = 3
            OBVIOUS
        <3> QED  BY <2>3, <2>8, <3>1
    <2> QED  BY <2>8, <2>10, <2>11
<1> QED  BY <1>1, <1>8, <1>9, <1>10, <1>14, <1>15 DEF PacketInv


\* The invariant holds when the handshake starts.
LEMMA PacketInvInit == DriverInit => PacketInv
<1> SUFFICES ASSUME DriverInit PROVE PacketInv
    OBVIOUS
<1>0. /\ config = {} /\ input = <<>> /\ reports = FALSE /\ cfg \in Firmware
      /\ output \in Stale /\ last = Byte({}, "firmware")
      /\ part = 0 /\ unmasked = {} /\ stray = FALSE /\ misled = FALSE
      /\ queue = <<>> /\ bytes = <<>> /\ dropped = FALSE /\ event = Packets!None
    BY DEF DriverInit, Init, Packets!Init
<1>1. PacketTypes
    <2>1. queue \in Seq(Bytes) /\ bytes \in Seq(Bytes)
        BY <1>0, EmptySeq
    <2>2. Len(bytes) = 0 /\ 0 \in 0 .. 2
        BY <1>0
    <2> QED  BY <1>0, <2>1, <2>2 DEF PacketTypes
<1>2. Stream = <<>> /\ Stream \in Seq(Bytes) /\ ~ HasMotion(Stream)
    <2>1. Stream = <<>>
        BY <1>0, EmptySeq, ConcatEmptySeq DEF Stream
    <2>2. \A k \in 1 .. Len(<<>>) : FALSE
        OBVIOUS
    <2> QED  BY <2>1, <2>2, EmptySeq DEF HasMotion
<1>3. \A k \in 1 .. Len(output) : output[k].origin = <<>>
    <2>1. CASE output = <<>>
        BY <2>1
    <2>2. CASE output # <<>>
        <3>1. PICK bits \in SUBSET (0 .. 7), source \in {"firmware", "keyboard", "mouse"} :
                  output = <<Byte(bits, source)>>
            BY <1>0, <2>2, FirmwareAssumption
        <3>2. Len(output) = 1 /\ output[1] = Byte(bits, source)
            BY <3>1
        <3> QED  BY <3>2 DEF Byte
    <2> QED  BY <2>1, <2>2
<1>4. last.origin = <<>>
    BY <1>0 DEF Byte
<1>5. BytesAreGenuine
    <2>1. \A k \in 1 .. Len(Stream) : FALSE
        BY <1>2
    <2>2. (\A k \in 1 .. Len(output) : Genuine(output[k], motions)) /\ Genuine(last, motions)
        BY <1>3, <1>4 DEF Genuine
    <2> QED  BY <1>0, <1>4, <2>1, <2>2 DEF BytesAreGenuine
<1>6. ~ HasMotion(output)
    BY <1>3 DEF HasMotion
<1>7. MotionsComeLast
    BY <1>2, <1>4, <1>6 DEF MotionsComeLast
<1>8. QueueIsFed
    BY <1>0, <1>2 DEF QueueIsFed
<1>9. Chain
    <2>1. output # <<>> => output[1].origin = <<>>
        <3>1. output \in Seq(Bytes)
            BY PortInvInit DEF PortInv, Types
        <3>2. output # <<>> => 1 \in 1 .. Len(output)
            BY <3>1, EmptySeq
        <3> QED  BY <1>3, <3>2
    <2>2. Upcoming[2] = 0
        BY <1>0, <2>1 DEF Upcoming
    <2>3. OriginAt(Stream, 1, Upcoming) = Upcoming
        BY <1>2 DEF OriginAt
    <2>4. InOrder(Stream, Upcoming) /\ Whole(Stream, Upcoming)
        BY <1>2, <2>2, <2>3 DEF InOrder, Whole
    <2> QED  BY <2>4 DEF Chain
<1>10. EventIsGenuine
    BY <1>0 DEF EventIsGenuine, Packets!None
<1> QED  BY <1>1, <1>5, <1>7, <1>8, <1>9, <1>10 DEF PacketInv

\* Every step keeps it.
LEMMA PacketInvNext == PortInv /\ PacketInv /\ [DriverNext]_allVars => PacketInv'
<1> SUFFICES ASSUME PortInv, PacketInv, [DriverNext]_allVars PROVE PacketInv'
    OBVIOUS
<1>1. CASE Idle \/ UNCHANGED allVars
    <2>1. /\ UNCHANGED <<output, last, latched, motions, sending, part, reports, cfg, config, input>>
          /\ packetVars' = packetVars /\ stray' = stray /\ misled' = misled /\ unmasked' = unmasked
        BY <1>1 DEF Idle, allVars, vars, kernel, device, port, mouseVars, history
    <2> QED  BY <2>1, PortSame
<1>2. CASE Handshake
    BY <1>2, HandshakePackets
<1>3. CASE Answer
    BY <1>3, AnswerPackets
<1>4. CASE EnableRuntime \/ EnableMouse
    BY <1>4, UnmaskPackets
<1>9. CASE KeyPressed
    BY <1>9, KeyPressedPackets
<1>5. CASE MouseSends
    BY <1>5, MouseSendsPackets
<1>6. CASE KeyboardHandler
    BY <1>6, KeyboardHandlerPackets
<1>7. CASE MouseHandler
    BY <1>7, MouseHandlerPackets
<1>8. CASE ShellPolls
    BY <1>8, ShellPollsPackets
<1> QED  BY <1>1, <1>2, <1>3, <1>4, <1>5, <1>6, <1>7, <1>8, <1>9 DEF DriverNext

\* Every movement the shell sees is one the mouse made, with its signs, for every
\* mouse, every set of keys, every capacity of the ring buffer and every limit of the
\* handshake: if no byte was dropped, and either no stray byte came or no byte of a
\* movement, and no stray one, looks like a header; and with such a mouse a packet
\* never starts inside a movement, even after drops (push_mouse_byte, poll and
\* decode_packet).
THEOREM PacketsStayGenuine == DriverSpec => []PacketsAreGenuine
<1>1. PortInv /\ PacketInv => PacketsAreGenuine
    <2> SUFFICES ASSUME PortInv, PacketInv PROVE PacketsAreGenuine
        OBVIOUS
    <2>1. ASSUME bytes # <<>>, ClearMotions, bytes[1].origin # <<>> PROVE bytes[1].origin[2] = 0
        <3>1. /\ bytes \in Seq(Bytes) /\ Len(bytes) \in Nat \ {0} /\ 3 \in bytes[1].bits
            BY <2>1, EmptySeq DEF PacketInv, PacketTypes, BytesAreGenuine
        <3>2. 1 \in 1 .. Len(Stream) /\ Stream[1] = bytes[1]
            BY <3>1, StreamIs DEF PacketInv
        <3>3. Genuine(bytes[1], motions) /\ bytes[1] \in Bytes
            BY <3>1, <3>2 DEF PacketInv, BytesAreGenuine
        <3> QED  BY <2>1, <3>1, <3>3, OriginIs
    <2> QED  BY <2>1 DEF PacketInv, EventIsGenuine, PacketsAreGenuine
<1>2. DriverSpec => []PacketInv
    BY PacketInvInit, PacketInvNext, PortInvAlways, PTL DEF DriverSpec
<1> QED  BY <1>1, <1>2, PortInvAlways, PTL

==============================================================================
