----------------------------- MODULE OtaUpdate -----------------------------
(***************************************************************************)
(* firmware-esp32/src/http.rs, POST /ota: the HTTP workers write uploaded    *)
(* firmware into flash, verify it and switch the slot the board boots from.  *)
(*                                                                         *)
(* The workers are tasks of one executor: between two awaits a worker runs   *)
(* alone, which cpu keeps track of where flash operations follow each other. *)
(* The power may fail at any of them.  A chunk of the upload fills one flash *)
(* sector; a sector holds a chunk of an image or garbage.                   *)
(***************************************************************************)
EXTENDS Integers, Sequences

CONSTANTS
  WORKERS,      \* HTTP_WORKERS
  SECTORS,      \* sectors of a slot
  Images,       \* environment: what clients upload, [id, sectors, signed]
  Factory       \* the image the board was first flashed with

ASSUME OtaConstants ==
  /\ "nobody" \notin WORKERS /\ SECTORS \in Nat \ {0}
  /\ \A i \in Images \cup {Factory} : i.sectors \in Nat /\ i.signed \in BOOLEAN
  /\ Factory.signed /\ Factory.sectors \in 1..SECTORS
  /\ \A i, j \in Images \cup {Factory} : i.id = j.id => i = j

VARIABLES
  slots,           \* flash: the sectors of ota_0 and ota_1
  otadata,         \* flash: the slot the bootloader selects
  booted,          \* the slot the running firmware came from
  FLASH,           \* the worker that holds the flash mutex
  OTA_REBOOTING,
  OTA_HASHER,      \* the chunks hashed so far
  worker,          \* per worker: where it is, and its request
  cpu,             \* the worker that has not reached an await yet
  clean            \* history: so far every upload began with otadata = booted

ram == <<FLASH, OTA_REBOOTING, OTA_HASHER, worker, cpu>>
vars == <<slots, otadata, booted, ram, clean>>

Slots == {0, 1}
Nobody == "nobody"
Garbage == <<"garbage">>
Chunk(img, i) == <<img.id, i>>
Chunks(img) == [n \in 1..img.sectors |-> Chunk(img, n - 1)]

Idle == [at |-> "idle"]
Replying(status) == [at |-> "reply", reboot |-> status = 200]

Init ==
  /\ slots = [s \in Slots |-> [i \in 0..(SECTORS - 1) |->
                IF s = 0 /\ i < Factory.sectors THEN Chunk(Factory, i) ELSE Garbage]]
  /\ otadata = 0 /\ booted = 0
  /\ FLASH = Nobody /\ OTA_REBOOTING = FALSE /\ OTA_HASHER = <<>>
  /\ worker = [w \in WORKERS |-> Idle]
  /\ cpu = Nobody /\ clean = TRUE

-----------------------------------------------------------------------------
(* handle_ota. *)

At(w, place) == worker[w].at = place /\ cpu \in {Nobody, w}
Goes(w, state) == worker' = [worker EXCEPT ![w] = state]
Moves(w, place) == worker' = [worker EXCEPT ![w].at = place]

\* An early return: the guard of the mutex goes with the function's frame.
Return(w, status) ==
  /\ Goes(w, Replying(status))
  /\ FLASH' = IF FLASH = w THEN Nobody ELSE FLASH
  /\ cpu' = Nobody

\* The flag is read, then the mutex is waited for.
Request(w, img) ==
  /\ At(w, "idle")
  /\ Goes(w, IF OTA_REBOOTING THEN Replying(503)
             ELSE IF img.sectors = 0 THEN Replying(400)
             ELSE [at |-> "lock", img |-> img])
  /\ UNCHANGED <<slots, otadata, booted, FLASH, OTA_REBOOTING, OTA_HASHER, cpu, clean>>

\* External (OtaUpdater::next_partition): the slot that is not in use.  Once
\* otadata and the running firmware disagree it is one of the two.
NextPartition == {s \in Slots : s # otadata \/ s # booted}

Start(w, target) ==
  /\ Goes(w, [at |-> "chunk", img |-> worker[w].img, target |-> target, written |-> 0])
  /\ FLASH' = w
  /\ OTA_HASHER' = <<>>
  /\ clean' = (clean /\ otadata = booted)
  /\ UNCHANGED <<slots, otadata, booted, OTA_REBOOTING, cpu>>

\* Mutant: the mutex is not awaited.
StartUnlocked(w) ==
  /\ At(w, "lock")
  /\ \E s \in NextPartition : Start(w, s)

TakeFlash(w) ==
  /\ At(w, "lock") /\ FLASH = Nobody
  /\ \E s \in NextPartition : Start(w, s)

\* The partition table or otadata cannot be read.
NoPartition(w) ==
  /\ At(w, "lock") /\ FLASH = Nobody
  /\ Return(w, 500)
  /\ OTA_HASHER' = <<>>
  /\ UNCHANGED <<slots, otadata, booted, OTA_REBOOTING, clean>>

\* Mutant: no chunk is refused for being beyond the slot's end.
ReadChunkAnywhere(w) ==
  LET u == worker[w]
      last == u.written + 1 = u.img.sectors
  IN  /\ At(w, "chunk")
      /\ OTA_HASHER' = Append(OTA_HASHER, Chunk(u.img, u.written))
      /\ slots' = [slots EXCEPT ![u.target][u.written] = Chunk(u.img, u.written)]
      /\ Goes(w, [u EXCEPT !.written = @ + 1, !.at = IF last THEN "sig" ELSE "chunk"])
      /\ UNCHANGED <<otadata, booted, FLASH, OTA_REBOOTING, cpu, clean>>

\* A chunk is read, hashed and written.
ReadChunk(w) ==
  LET u == worker[w]
      last == u.written + 1 = u.img.sectors
  IN  /\ At(w, "chunk") /\ u.written < SECTORS
      /\ OTA_HASHER' = Append(OTA_HASHER, Chunk(u.img, u.written))
      /\ slots' = [slots EXCEPT ![u.target][u.written] = Chunk(u.img, u.written)]
      /\ Goes(w, [u EXCEPT !.written = @ + 1, !.at = IF last THEN "sig" ELSE "chunk"])
      /\ UNCHANGED <<otadata, booted, FLASH, OTA_REBOOTING, cpu, clean>>

\* The write fails: beyond the slot, or in flash with the sector lost.
WriteFails(w) ==
  LET u == worker[w]
  IN  /\ At(w, "chunk")
      /\ OTA_HASHER' = Append(OTA_HASHER, Chunk(u.img, u.written))
      /\ slots' = IF u.written < SECTORS
                  THEN [slots EXCEPT ![u.target][u.written] = Garbage] ELSE slots
      /\ Return(w, 500)
      /\ UNCHANGED <<otadata, booted, OTA_REBOOTING, clean>>

\* Mutant: reads have no timeout, and a client that is gone is never noticed.
ReadWaits(w) ==
  /\ FALSE /\ At(w, "chunk")
  /\ UNCHANGED vars

\* The client is gone, or slower than the read timeout, or the signature is
\* malformed: the slot keeps what was written.
ReadFails(w) ==
  /\ At(w, "chunk") \/ At(w, "sig")
  /\ Return(w, 400)
  /\ UNCHANGED <<slots, otadata, booted, OTA_REBOOTING, OTA_HASHER, clean>>

Verifies(img) == img.signed /\ OTA_HASHER = Chunks(img)

\* The signature: a good one is followed by the switch without an await.
ReadSignature(w) ==
  LET u == worker[w]
  IN  /\ At(w, "sig")
      /\ OTA_HASHER' = <<>>
      /\ IF Verifies(u.img)
         THEN Moves(w, "erase") /\ cpu' = w /\ UNCHANGED <<slots, FLASH>>
         ELSE /\ Return(w, 403)
              /\ \/ slots' = [slots EXCEPT ![u.target][0] = Garbage]
                 \/ UNCHANGED slots   \* the erase failed, which is ignored
      /\ UNCHANGED <<otadata, booted, OTA_REBOOTING, clean>>

\* What lies behind the image is erased, but for the slot's last sector; a
\* failure is not fatal.
EraseTail(w) ==
  LET u == worker[w]
      tail == u.img.sectors..(SECTORS - 2)
  IN  /\ At(w, "erase")
      /\ \E done \in {{}, tail} :
           slots' = [slots EXCEPT ![u.target] =
                       [i \in DOMAIN @ |-> IF i \in done THEN Garbage ELSE @[i]]]
      /\ Moves(w, "activate")
      /\ UNCHANGED <<otadata, booted, FLASH, OTA_REBOOTING, OTA_HASHER, cpu, clean>>

\* activate_next_partition writes a new entry next to the current one.
Activate(w) ==
  /\ At(w, "activate")
  /\ \/ /\ otadata' = worker[w].target
        /\ Moves(w, "state")
        /\ UNCHANGED <<FLASH, cpu>>
     \/ Return(w, 500) /\ UNCHANGED otadata
  /\ UNCHANGED <<slots, booted, OTA_REBOOTING, OTA_HASHER, clean>>

\* set_current_ota_state; its failure leaves the switch made and the flag clear.
SetState(w) ==
  /\ At(w, "state")
  /\ \/ Return(w, 200) /\ OTA_REBOOTING' = TRUE
     \/ Return(w, 500) /\ UNCHANGED OTA_REBOOTING
  /\ UNCHANGED <<slots, otadata, booted, OTA_HASHER, clean>>

-----------------------------------------------------------------------------
(* call_method_handler_service, and what ends in a boot. *)

\* The response is written; a client that is gone ends the handler here.
Reply(w) ==
  /\ At(w, "reply")
  /\ \/ Goes(w, IF worker[w].reboot THEN [at |-> "drain"] ELSE Idle)
     \/ Goes(w, Idle)
  /\ UNCHANGED <<slots, otadata, booted, FLASH, OTA_REBOOTING, OTA_HASHER, cpu, clean>>

Boot ==
  /\ booted' = otadata'
  /\ FLASH' = Nobody /\ OTA_REBOOTING' = FALSE /\ OTA_HASHER' = <<>>
  /\ worker' = [w \in WORKERS |-> Idle] /\ cpu' = Nobody
  /\ UNCHANGED clean

SoftwareReset(w) ==
  /\ At(w, "drain")
  /\ UNCHANGED <<slots, otadata>>
  /\ Boot

\* Mutant: no periodic reboot.
RebootTaskOff == FALSE /\ UNCHANGED vars

\* reboot_task, every 72 hours.
RebootTask ==
  /\ cpu = Nobody
  /\ UNCHANGED <<slots, otadata>>
  /\ Boot

\* Power fails, maybe within a flash write: the sector of a chunk, the first
\* sector, or the current entry of otadata, which leaves the other one.
PowerFails ==
  /\ \/ UNCHANGED <<slots, otadata>>
     \/ \E w \in WORKERS :
          /\ worker[w].at = "chunk" /\ worker[w].written < SECTORS
          /\ slots' = [slots EXCEPT ![worker[w].target][worker[w].written] = Garbage]
          /\ UNCHANGED otadata
     \/ \E w \in WORKERS :
          /\ worker[w].at = "state"
          /\ otadata' = 1 - otadata
          /\ UNCHANGED slots
  /\ Boot

Worker(w) ==
  \/ TakeFlash(w) \/ NoPartition(w)
  \/ ReadChunk(w) \/ WriteFails(w) \/ ReadFails(w) \/ ReadSignature(w)
  \/ EraseTail(w) \/ Activate(w) \/ SetState(w)
  \/ Reply(w) \/ SoftwareReset(w)

Next ==
  \/ \E w \in WORKERS : Worker(w) \/ \E img \in Images : Request(w, img)
  \/ RebootTask
  \/ PowerFails

Spec == Init /\ [][Next]_vars

\* The executor runs every worker that can go on, and a read ends by its timeout,
\* whatever clients do.
FairSpec ==
  /\ Spec
  /\ \A w \in WORKERS : /\ WF_vars(ReadFails(w))
                        /\ WF_vars(EraseTail(w) \/ Activate(w) \/ SetState(w))

-----------------------------------------------------------------------------
(* Properties. *)

Uploading == {"chunk", "sig", "erase", "activate", "state"}

Contents ==
  {Garbage} \cup UNION {{Chunk(i, n) : n \in 0..(i.sectors - 1)} : i \in Images \cup {Factory}}

TypeOK ==
  /\ slots \in [Slots -> [0..(SECTORS - 1) -> Contents]]
  /\ {otadata, booted} \subseteq Slots
  /\ {FLASH, cpu} \subseteq WORKERS \cup {Nobody}
  /\ \A w \in WORKERS :
       /\ worker[w].at \in {"idle", "lock", "reply", "drain"} \cup Uploading
       /\ worker[w].at \in Uploading => FLASH = w /\ worker[w].written \in 0..SECTORS

\* A slot's sectors hold a whole signed image.
Whole(content) ==
  \E img \in Images \cup {Factory} :
    /\ img.signed /\ img.sectors \in 1..SECTORS
    /\ \A i \in 0..(img.sectors - 1) : content[i] = Chunk(img, i)

\* The slot the bootloader would select now, and the one the firmware runs from,
\* each hold a whole verified image, whatever upload, failure or power loss comes
\* (http.rs 16-20, 371-388, 411-443); as long as no upload began between a switch
\* and the boot that ends it.
BootsVerified == clean => Whole(slots[otadata]) /\ Whole(slots[booted])

\* A dead peer does not hold the flash mutex for ever (http.rs 485-493).
FlashReleased == (FLASH # Nobody) ~> (FLASH = Nobody)

\* Once uploads are refused for a reboot, it comes, be it by the 72-hour timer when
\* the client was gone before its answer (http.rs 58-61, 308-316; reboot.rs 12-23).
RebootComes == WF_vars(RebootTask) => (OTA_REBOOTING ~> ~OTA_REBOOTING)
=============================================================================
