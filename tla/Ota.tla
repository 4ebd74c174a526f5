--------------------------------- MODULE Ota ---------------------------------
(***************************************************************************)
(* OtaManager (ota.rs): a firmware image received in chunks, checked and   *)
(* made the one to boot, with the two update partitions and the boot       *)
(* loader, which are external.                                             *)
(*                                                                         *)
(* The stream is a sequence of units: the two halves of an image's header, *)
(* the front with its magic, version, size and hash and the back with its  *)
(* signature and key, and blocks of firmware.  A hash is the sequence of   *)
(* blocks it was made of.  Chunks arrive cut anywhere, out of order, twice *)
(* or not at all.                                                          *)
(***************************************************************************)
EXTENDS Integers, Sequences, SequencesExt

CONSTANTS
    Images,         \* headers: magic, version, size, hash, key, signed
    MaxFirmware,    \* MAX_FIRMWARE_SIZE
    MaxChunk,       \* bound: units in a chunk
    Owners,         \* keys the program adds, in this order
    Factory,        \* the firmware both partitions start from
    MinVersions,    \* the program sets min_version to
    Partitioned     \* whether the flash has update partitions: {TRUE, FALSE}

\* The keys come in a sequence, sizes are compared, and a firmware is its blocks.
ASSUME OtaAssumption ==
    /\ Owners \in Seq(ToSet(Owners))
    /\ MaxFirmware \in Nat /\ \A i \in Images : i.size \in Nat
    /\ \A i \in Images : i.hash \in Seq(ToSet(i.hash)) /\ i.hash # << >>

VARIABLES
    ota,            \* state, header_buf, header, hasher (and bytes_received,
                    \* its length), handle - ota_handle # 0, keys, min_version
    flash,          \* per partition its content; running, boot - which ones;
                    \* open - an update is open; present - there are any
    doubtful        \* history: an update was begun over one that was complete
                    \* and had not been booted

otaVars == <<ota, flash, doubtful>>

Halves == {[image |-> i, half |-> h] : i \in Images, h \in {"front", "back"}}

\* What a sender cuts into chunks, external: the header, the firmware and one
\* block too much.  The chunks may then be lost, repeated or swapped.
Stream(i) == <<[image |-> i, half |-> "front"], [image |-> i, half |-> "back"]>>
                 \o i.hash \o <<i.hash[1]>>

Chunks ==
    {chunk \in UNION {{SubSeq(Stream(i), m, n) : m, n \in 1 .. Len(Stream(i))} : i \in Images} :
         Len(chunk) <= MaxChunk}

NewOta == [state |-> "Idle", header_buf |-> << >>, header |-> << >>, hasher |-> << >>,
           handle |-> FALSE, keys |-> << >>, min_version |-> 0]

OtaInit ==
    /\ ota = NewOta
    /\ flash \in [content : {[p \in {0, 1} |-> Factory]}, running : {0}, boot : {0},
                  open : {FALSE}, present : Partitioned]
    /\ doubtful = FALSE

OtaStates == {"Idle", "ReceivingHeader", "Receiving", "Complete", "Error"}

OtaTypeOK ==
    /\ ota.state \in OtaStates
    /\ Len(ota.header_buf) <= 2 /\ Len(ota.header) <= 1 /\ Len(ota.keys) <= 2
    /\ ota.state = "Receiving" => ota.header # << >> /\ ota.handle
    /\ flash.open => ota.handle
    /\ flash.running \in {0, 1} /\ flash.boot \in {0, 1}
-----------------------------------------------------------------------------
AddTrustedKey ==
    /\ Len(ota.keys) < 2 /\ Len(ota.keys) < Len(Owners)
    /\ ota' = [ota EXCEPT !.keys = Append(@, Owners[Len(@) + 1])]
    /\ UNCHANGED <<flash, doubtful>>

SetMinVersion(v) ==
    /\ ota' = [ota EXCEPT !.min_version = v]
    /\ UNCHANGED <<flash, doubtful>>

NextPartition == 1 - flash.running

\* begin: the partition after the running one is erased, and opened.
Begin(ok) ==
    /\ ota.state = "Idle"
    /\ IF flash.present /\ ok
       THEN /\ flash' = [flash EXCEPT !.content[NextPartition] = << >>, !.open = TRUE]
            /\ ota' = [ota EXCEPT !.state = "ReceivingHeader", !.header_buf = << >>,
                                  !.header = << >>, !.hasher = << >>, !.handle = TRUE]
            /\ doubtful' = (doubtful \/ flash.boot # flash.running)
       ELSE /\ ota' = [ota EXCEPT !.header_buf = << >>, !.header = << >>, !.hasher = << >>]
            /\ UNCHANGED <<flash, doubtful>>

\* abort, from any state.
Aborted(o) == [o EXCEPT !.state = "Idle", !.handle = FALSE]

Abort ==
    /\ ota' = Aborted(ota)
    /\ flash' = [flash EXCEPT !.open = FALSE]
    /\ UNCHANGED doubtful

Failed(o) == [o EXCEPT !.state = "Error"]
-----------------------------------------------------------------------------
(***************************************************************************)
(* verify_and_finish, with what is written so far in `o` and `f`: how far  *)
(* it gets, "finish" being that the chip does not end the update or make   *)
(* the partition the one to boot.                                          *)
(***************************************************************************)
Finish(o, f, fails) ==
    IF o.hasher # o.header[1].hash
    THEN [ota |-> Aborted(o), flash |-> [f EXCEPT !.open = FALSE]]
    ELSE IF fails = "finish"
    THEN [ota |-> Failed(o), flash |-> [f EXCEPT !.open = FALSE]]
    ELSE [ota |-> [o EXCEPT !.state = "Complete"],
          flash |-> [f EXCEPT !.open = FALSE, !.boot = NextPartition]]

\* The bug of an image made the one to boot before it is checked.
WriteFirmwareBootsFirst(o, f, data, fails) ==
    LET left  == o.header[1].size - Len(o.hasher)
        taken == SubSeq(data, 1, IF Len(data) < left THEN Len(data) ELSE left)
        o2    == [o EXCEPT !.hasher = @ \o taken]
        f2    == [f EXCEPT !.content[NextPartition] = @ \o taken]
    IN  IF taken = << >> THEN [ota |-> o, flash |-> f]
        ELSE IF Len(taken) < left THEN [ota |-> o2, flash |-> f2]
        ELSE Finish(o2, [f2 EXCEPT !.boot = NextPartition], fails)

\* write_firmware: up to the size in the header, hashed before it is written.
WriteFirmware(o, f, data, fails) ==
    LET left  == o.header[1].size - Len(o.hasher)
        taken == SubSeq(data, 1, IF Len(data) < left THEN Len(data) ELSE left)
        o2    == [o EXCEPT !.hasher = @ \o taken]
        f2    == [f EXCEPT !.content[NextPartition] = @ \o taken]
    IN  IF taken = << >> THEN [ota |-> o, flash |-> f]
        ELSE IF fails = "write" THEN [ota |-> Failed(o2), flash |-> f]
        ELSE IF Len(taken) < left THEN [ota |-> o2, flash |-> f2]
        ELSE Finish(o2, f2, fails)

\* verify_signature, of the hash alone, under the key in the header.
Trusted(front, back) ==
    /\ front.image = back.image /\ back.half = "back"
    /\ front.image.signed /\ front.image.key \in ToSet(ota.keys)

\* write_header: without its magic a header is refused and the state stays.
WriteHeader(data, fails) ==
    LET need  == 2 - Len(ota.header_buf)
        taken == SubSeq(data, 1, IF Len(data) < need THEN Len(data) ELSE need)
        rest  == SubSeq(data, Len(taken) + 1, Len(data))
        buf   == ota.header_buf \o taken
        o     == [ota EXCEPT !.header_buf = buf]
        valid == buf[1] \in Halves /\ buf[1].half = "front" /\ buf[1].image.magic
        image == buf[1].image
    IN  IF Len(buf) < 2 \/ ~ valid THEN [ota |-> o, flash |-> flash]
        ELSE IF \/ image.size > MaxFirmware \/ ota.keys = << >>
                \/ image.version < ota.min_version
                \/ buf[2] \notin Halves
                \/ ~ Trusted(buf[1], buf[2])
        THEN [ota |-> Failed(o), flash |-> flash]
        ELSE WriteFirmware([o EXCEPT !.header = <<image>>, !.state = "Receiving"],
                           flash, rest, fails)

Apply(result) ==
    /\ ota' = result.ota
    /\ flash' = result.flash
    /\ UNCHANGED doubtful

Failures == {"none", "write", "finish"}

\* write: what comes after the header in the same chunk is firmware already.
Write(data) ==
    \/ /\ ota.state = "ReceivingHeader" /\ Len(ota.header_buf) + Len(data) <= 2
       /\ Apply(WriteHeader(data, "none"))
    \/ \E fails \in Failures :
          \/ /\ ota.state = "ReceivingHeader" /\ Len(ota.header_buf) + Len(data) > 2
             /\ Apply(WriteHeader(data, fails))
          \/ /\ ota.state = "Receiving"
             /\ Apply(WriteFirmware(ota, flash, data, fails))
-----------------------------------------------------------------------------
(***************************************************************************)
(* A restart at any time: the boot loader, external, starts the partition  *)
(* set to boot, or the other one when it finds no image there.             *)
(***************************************************************************)
OtaReboot ==
    /\ ota' = NewOta
    /\ \E p \in {0, 1} :
          /\ p = flash.boot \/ doubtful
          /\ flash' = [flash EXCEPT !.running = p, !.boot = p, !.open = FALSE]
    /\ UNCHANGED doubtful

OtaNext ==
    \/ AddTrustedKey
    \/ \E v \in MinVersions : SetMinVersion(v)
    \/ \E ok \in BOOLEAN : Begin(ok)
    \/ Abort
    \/ \E data \in Chunks : Write(data)
    \/ OtaReboot

OtaSpec == OtaInit /\ [][OtaNext]_otaVars
-----------------------------------------------------------------------------
(***************************************************************************)
(* What boots is the factory firmware or exactly the blocks of an image    *)
(* signed by a trusted key and not larger than the partition, however the  *)
(* chunks were cut, lost or repeated and whatever calls failed, and never  *)
(* a partition that is being written, unless an update was begun over one  *)
(* that was complete and not yet booted: begin erases the partition that   *)
(* is set to boot.                                                         *)
(***************************************************************************)
BootsVerified ==
    doubtful \/ flash.content[flash.boot] = Factory
             \/ \E i \in Images :
                   /\ i.signed /\ i.key \in ToSet(Owners)
                   /\ i.size <= MaxFirmware
                   /\ flash.content[flash.boot] = i.hash
=============================================================================
