---------------------------- MODULE OtaUpdateProof ----------------------------
(***************************************************************************)
(* What the board boots is a whole verified image, for any number of HTTP   *)
(* workers, any slot size and any set of uploaded images.                   *)
(*                                                                         *)
(* The argument follows the one upload that may be under way, which is the  *)
(* holder's of the flash mutex: its slot is not the running one and, up to   *)
(* the switch, not the selected one; what it has written so far is its       *)
(* image; behind the signature it has written all of a signed one.  Neither *)
(* the hasher nor the executor's turns are needed.                          *)
(***************************************************************************)
EXTENDS OtaUpdate, TLAPS

Requests == [at : {"lock"}, img : Images]
Uploads == [at : Uploading, img : Images, target : Slots, written : 0..SECTORS]
WorkerStates ==
  [at : {"idle", "drain"}] \cup [at : {"reply"}, reboot : BOOLEAN] \cup Requests \cup Uploads

FieldsOK ==
  /\ slots \in [Slots -> [0..(SECTORS - 1) -> Contents]]
  /\ otadata \in Slots /\ booted \in Slots
  /\ FLASH \in WORKERS \cup {Nobody} /\ cpu \in WORKERS \cup {Nobody}
  /\ worker \in [WORKERS -> WorkerStates]
  /\ clean \in BOOLEAN
  /\ \A w \in WORKERS : worker[w].at \in {"lock"} \cup Uploading => worker[w].img.sectors > 0

\* An upload u into a slot that now holds content.
Progress(u, content) ==
  /\ u.at = "chunk" => u.written < u.img.sectors
  /\ u.at # "chunk" => u.written = u.img.sectors
  /\ u.at \in {"erase", "activate", "state"} => u.img.signed
  /\ \A i \in 0..(u.written - 1) : content[i] = Chunk(u.img, i)

\* Where u's slot stands to the selected and the running one.
Aside(u) ==
  /\ u.target # booted
  /\ otadata = IF u.at = "state" THEN u.target ELSE booted

UploadsOK ==
  \A w \in WORKERS : worker[w].at \in Uploading =>
    /\ FLASH = w
    /\ Progress(worker[w], slots[worker[w].target])
    /\ clean => Aside(worker[w])

IInv == FieldsOK /\ UploadsOK /\ BootsVerified

-----------------------------------------------------------------------------
\* The factory image is whole.
LEMMA InitHolds == Init => IInv
<1> SUFFICES ASSUME Init PROVE IInv
  OBVIOUS
<1>1. 0 \in Slots /\ Idle \in WorkerStates /\ Idle.at = "idle"
  BY DEF Slots, Idle, WorkerStates
<1>2. \A s \in Slots, i \in 0..(SECTORS - 1) :
        (IF s = 0 /\ i < Factory.sectors THEN Chunk(Factory, i) ELSE Garbage) \in Contents
  BY OtaConstants DEF Contents
<1>3. FieldsOK
  BY <1>1, <1>2 DEF Init, FieldsOK, Uploading
<1>4. UploadsOK
  BY <1>1 DEF Init, UploadsOK, Uploading
<1>5. Whole(slots[0])
  <2>1. /\ Factory.signed /\ Factory.sectors \in 1..SECTORS
        /\ \A i \in 0..(Factory.sectors - 1) : slots[0][i] = Chunk(Factory, i)
    BY <1>1, OtaConstants DEF Init
  <2>. QED BY <2>1 DEF Whole
<1>6. BootsVerified
  BY <1>5 DEF Init, BootsVerified
<1>. QED BY <1>3, <1>4, <1>6 DEF IInv

\* At most one worker is uploading.
LEMMA OneUpload ==
  ASSUME UploadsOK, NEW v \in WORKERS, NEW w \in WORKERS,
         worker[v].at \in Uploading, FLASH = w
  PROVE  v = w
BY DEF UploadsOK

\* The uploader's step.  It goes on with its upload, writes nothing behind what
\* it has, and only Activate touches otadata.
LEMMA UploadStep ==
  ASSUME IInv, NEW w \in WORKERS, worker[w].at \in Uploading,
         NEW u \in Uploads, NEW content \in [0..(SECTORS - 1) -> Contents],
         u.target = worker[w].target, u.img = worker[w].img,
         worker' = [worker EXCEPT ![w] = u],
         slots' = [slots EXCEPT ![u.target] = content],
         Progress(u, content),
         \/ otadata' = otadata /\ worker[w].at # "state" /\ u.at # "state"
         \/ otadata' = u.target /\ u.at = "state",
         cpu' \in WORKERS \cup {Nobody},
         UNCHANGED <<booted, FLASH, clean>>
  PROVE  IInv'
<1>1. /\ worker[w] \in WorkerStates /\ worker' \in [WORKERS -> WorkerStates]
      /\ worker'[w] = u /\ u.target \in Slots /\ u.at \in Uploading /\ u.img \in Images
  BY DEF IInv, FieldsOK, WorkerStates, Uploads
<1>2. FieldsOK'
  BY <1>1 DEF IInv, FieldsOK
<1>3. FLASH = w /\ (clean => Aside(worker[w]))
  BY DEF IInv, UploadsOK
<1>4. slots'[u.target] = content
  BY DEF IInv, FieldsOK, Uploads
<1>5. clean => u.target # booted' /\ otadata' = IF u.at = "state" THEN u.target ELSE booted'
  BY <1>3 DEF Aside
<1>6. UploadsOK'
  <2> SUFFICES ASSUME NEW v \in WORKERS, worker'[v].at \in Uploading
               PROVE  /\ FLASH' = v
                      /\ Progress(worker'[v], slots'[worker'[v].target])
                      /\ clean => (u.target # booted' /\ otadata' = IF worker'[v].at = "state" THEN worker'[v].target ELSE booted')
                      /\ v = w
    BY <1>1 DEF UploadsOK, Aside
  <2>1. v = w
    <3>1. CASE v # w
      <4>1. worker'[v] = worker[v]
        BY <3>1 DEF IInv, FieldsOK
      <4>. QED BY <4>1, <1>3, OneUpload DEF IInv
    <3>. QED BY <3>1
  <2>. QED BY <2>1, <1>1, <1>3, <1>4, <1>5
<1>7. BootsVerified'
  <2> SUFFICES ASSUME clean PROVE Whole(slots'[otadata']) /\ Whole(slots'[booted'])
    BY DEF BootsVerified
  <2>1. slots'[booted'] = slots[booted] /\ Whole(slots[booted])
    BY <1>3 DEF Aside, IInv, FieldsOK, BootsVerified
  <2>2. CASE u.at # "state"
    BY <1>5, <2>1, <2>2
  <2>3. CASE u.at = "state"
    <3>1. /\ u.img.signed /\ u.img.sectors \in 1..SECTORS
          /\ \A i \in 0..(u.img.sectors - 1) : content[i] = Chunk(u.img, i)
      <4>1. u.img.sectors > 0 /\ u.img.sectors \in Nat
        BY <1>1, OtaConstants DEF IInv, FieldsOK
      <4>2. u.written = u.img.sectors /\ u.img.signed /\ u.written \in 0..SECTORS
        BY <2>3 DEF Progress, Uploads
      <4>. QED BY <4>1, <4>2, OtaConstants DEF Progress
    <3>2. Whole(content)
      BY <3>1, <1>1 DEF Whole
    <3>. QED BY <3>2, <2>1, <2>3, <1>4, <1>5
  <2>. QED BY <2>2, <2>3
<1>. QED BY <1>2, <1>6, <1>7 DEF IInv

\* A step of a worker that is not uploading, before or after.
LEMMA AsideStep ==
  ASSUME IInv, NEW w \in WORKERS, worker[w].at \notin Uploading,
         NEW u \in WorkerStates, u.at \notin Uploading,
         u.at = "lock" => u.img.sectors > 0,
         worker' = [worker EXCEPT ![w] = u],
         UNCHANGED <<slots, otadata, booted, clean, FLASH, cpu>>
  PROVE  IInv'
<1>1. FieldsOK'
  BY DEF IInv, FieldsOK
<1>2. UploadsOK'
  <2> SUFFICES ASSUME NEW v \in WORKERS, worker'[v].at \in Uploading
               PROVE  worker'[v] = worker[v]
    BY DEF IInv, UploadsOK, Aside
  <2>. QED BY DEF IInv, FieldsOK
<1>3. BootsVerified'
  BY DEF IInv, BootsVerified
<1>. QED BY <1>1, <1>2, <1>3 DEF IInv

\* A worker answers: with the mutex given back, if it held it, there is no upload.
LEMMA ReturnStep ==
  ASSUME IInv, NEW w \in WORKERS, worker[w].at \in {"lock"} \cup Uploading,
         worker[w].at = "lock" => FLASH = Nobody,
         NEW status \in Nat, Return(w, status),
         \/ slots' = slots
         \/ /\ worker[w].at \in Uploading /\ worker[w].at # "state"
            /\ \E content \in [0..(SECTORS - 1) -> Contents] :
                 slots' = [slots EXCEPT ![worker[w].target] = content],
         UNCHANGED <<otadata, booted, clean>>
  PROVE  IInv'
<1>1. worker' = [worker EXCEPT ![w] = Replying(status)] /\ FLASH' = Nobody /\ cpu' = Nobody
  BY DEF Return, Goes, IInv, UploadsOK
<1>2. Replying(status) \in WorkerStates /\ Replying(status).at = "reply"
  BY DEF Replying, WorkerStates
<1>3. worker[w].at \in Uploading => worker[w].target \in Slots
  BY DEF IInv, FieldsOK, WorkerStates, Requests, Uploads, Uploading
<1>4. FieldsOK'
  BY <1>1, <1>2, <1>3 DEF IInv, FieldsOK, Uploading
<1>5. UploadsOK'
  <2> SUFFICES ASSUME NEW v \in WORKERS PROVE worker'[v].at \notin Uploading
    BY DEF UploadsOK
  <2>1. CASE v = w
    BY <2>1, <1>1, <1>2 DEF IInv, FieldsOK, Uploading
  <2>2. CASE v # w
    <3>1. worker'[v] = worker[v]
      BY <1>1, <2>2 DEF IInv, FieldsOK
    <3>2. worker[v].at \in Uploading => FLASH = v
      BY DEF IInv, UploadsOK
    <3>3. worker[w].at \in Uploading => FLASH = w
      BY DEF IInv, UploadsOK
    <3>. QED BY <3>1, <3>2, <3>3, <2>2, OtaConstants DEF Nobody
  <2>. QED BY <2>1, <2>2
<1>6. BootsVerified'
  <2>1. clean => slots'[otadata] = slots[otadata] /\ slots'[booted] = slots[booted]
    <3>1. worker[w].at \in Uploading /\ worker[w].at # "state" /\ clean
            => worker[w].target # otadata /\ worker[w].target # booted
      BY DEF IInv, UploadsOK, Aside
    <3>. QED BY <3>1, <1>3 DEF IInv, FieldsOK
  <2>. QED BY <2>1 DEF IInv, BootsVerified
<1>. QED BY <1>4, <1>5, <1>6 DEF IInv

\* A boot from the selected slot ends every upload.
LEMMA BootStep ==
  ASSUME IInv, Boot, otadata' \in Slots,
         slots' \in [Slots -> [0..(SECTORS - 1) -> Contents]],
         clean => Whole(slots'[otadata'])
  PROVE  IInv'
<1>1. Idle \in WorkerStates /\ Idle.at = "idle"
  BY DEF Idle, WorkerStates
<1>2. FieldsOK'
  BY <1>1 DEF Boot, IInv, FieldsOK, Uploading
<1>3. UploadsOK'
  BY <1>1 DEF Boot, UploadsOK, Uploading
<1>4. BootsVerified'
  BY DEF Boot, BootsVerified
<1>. QED BY <1>2, <1>3, <1>4 DEF IInv

-----------------------------------------------------------------------------
\* What an uploading worker's state is, and what it may write.
LEMMA Uploader ==
  ASSUME IInv, NEW w \in WORKERS, worker[w].at \in Uploading
  PROVE  /\ worker[w] \in Uploads /\ worker[w].target \in Slots /\ FLASH = w
         /\ worker[w].img \in Images /\ worker[w].img.sectors \in Nat \ {0}
         /\ worker[w].written \in 0..SECTORS
         /\ slots[worker[w].target] \in [0..(SECTORS - 1) -> Contents]
         /\ Progress(worker[w], slots[worker[w].target])
         /\ clean => Aside(worker[w])
         /\ Garbage \in Contents
<1>1. worker[w] \in Uploads
  BY DEF IInv, FieldsOK, WorkerStates, Requests, Uploading
<1>2. worker[w].img.sectors > 0
  BY DEF IInv, FieldsOK
<1>3. Garbage \in Contents
  BY DEF Contents
<1>. QED BY <1>1, <1>2, <1>3, OtaConstants DEF Uploads, IInv, FieldsOK, UploadsOK

LEMMA RequestKeeps ==
  ASSUME IInv, NEW w \in WORKERS, NEW img \in Images, Request(w, img)
  PROVE  IInv'
<1> DEFINE u == IF OTA_REBOOTING THEN Replying(503)
                ELSE IF img.sectors = 0 THEN Replying(400)
                ELSE [at |-> "lock", img |-> img]
<1>1. /\ u \in WorkerStates /\ u.at \notin Uploading
      /\ u.at = "lock" => u.img.sectors > 0
  BY OtaConstants DEF Replying, WorkerStates, Requests, Uploading
<1>2. worker[w].at \notin Uploading
  BY DEF Request, At, Uploading
<1>3. /\ worker' = [worker EXCEPT ![w] = u]
      /\ UNCHANGED <<slots, otadata, booted, clean, FLASH, cpu>>
  BY DEF Request, Goes
<1> HIDE DEF u
<1>. QED BY <1>1, <1>2, <1>3, AsideStep

LEMMA ReplyKeeps ==
  ASSUME IInv, NEW w \in WORKERS, Reply(w)
  PROVE  IInv'
<1>1. /\ [at |-> "drain"] \in WorkerStates /\ Idle \in WorkerStates
      /\ [at |-> "drain"].at \notin Uploading /\ Idle.at \notin Uploading
      /\ Idle.at # "lock"
  BY DEF Idle, WorkerStates, Uploading
<1>2. worker[w].at \notin Uploading
  BY DEF Reply, At, Uploading
<1>. QED BY <1>1, <1>2, AsideStep DEF Reply, Goes

\* The mutex is free, so nobody uploads; the new upload's slot is the one that is
\* neither running nor selected, unless these differ.
LEMMA TakeFlashKeeps ==
  ASSUME IInv, NEW w \in WORKERS, TakeFlash(w)
  PROVE  IInv'
<1> PICK s \in NextPartition : Start(w, s)
  BY DEF TakeFlash
<1> DEFINE u == [at |-> "chunk", img |-> worker[w].img, target |-> s, written |-> 0]
<1>1. /\ worker[w].at = "lock" /\ FLASH = Nobody /\ s \in Slots
      /\ worker[w].img \in Images /\ worker[w].img.sectors > 0
  BY DEF TakeFlash, At, NextPartition, IInv, FieldsOK, WorkerStates, Requests, Uploads, Uploading
<1>2. u \in WorkerStates /\ u.at = "chunk" /\ u.target = s
  BY <1>1, OtaConstants DEF WorkerStates, Uploads, Uploading
<1>3. worker' = [worker EXCEPT ![w] = u] /\ worker' \in [WORKERS -> WorkerStates] /\ worker'[w] = u
  BY <1>2 DEF Start, Goes, IInv, FieldsOK
<1>4. FieldsOK'
  BY <1>1, <1>2, <1>3 DEF Start, IInv, FieldsOK
<1>5. UploadsOK'
  <2> SUFFICES ASSUME NEW v \in WORKERS, worker'[v].at \in Uploading
               PROVE  /\ FLASH' = v /\ v = w
                      /\ Progress(u, slots'[s])
                      /\ clean' => s # booted' /\ otadata' = booted'
    BY <1>2, <1>3 DEF UploadsOK, Aside
  <2>1. v = w
    <3>1. v # w => worker'[v] = worker[v] /\ FLASH = v
      BY <1>3 DEF IInv, FieldsOK, UploadsOK
    <3>. QED BY <3>1, <1>1, OtaConstants DEF Nobody
  <2>2. Progress(u, slots'[s])
    BY <1>1, OtaConstants DEF Progress
  <2>. QED BY <2>1, <2>2 DEF Start, NextPartition
<1>6. BootsVerified'
  BY DEF Start, IInv, BootsVerified
<1>. QED BY <1>4, <1>5, <1>6 DEF IInv

LEMMA ReadChunkKeeps ==
  ASSUME IInv, NEW w \in WORKERS, ReadChunk(w)
  PROVE  IInv'
<1> DEFINE u == worker[w]
           v == [u EXCEPT !.written = @ + 1,
                          !.at = IF u.written + 1 = u.img.sectors THEN "sig" ELSE "chunk"]
           content == [slots[u.target] EXCEPT ![u.written] = Chunk(u.img, u.written)]
<1>1. u.at = "chunk" /\ u.at \in Uploading /\ u.written < SECTORS
  BY DEF ReadChunk, At, Uploading
<1>2. /\ u \in Uploads /\ u.written \in Nat /\ u.img.sectors \in Nat
      /\ slots[u.target] \in [0..(SECTORS - 1) -> Contents]
      /\ Progress(u, slots[u.target])
  BY <1>1, Uploader
<1>3. u.written < u.img.sectors
  BY <1>1, <1>2 DEF Progress
<1>4. Chunk(u.img, u.written) \in Contents
  BY <1>2, <1>3 DEF Contents, Uploads
<1>5. content \in [0..(SECTORS - 1) -> Contents]
  BY <1>2, <1>4
<1>6. /\ v \in Uploads /\ v.target = u.target /\ v.img = u.img
      /\ v.at = IF u.written + 1 = u.img.sectors THEN "sig" ELSE "chunk"
      /\ v.written = u.written + 1
  <2>1. /\ u.written + 1 \in 0..SECTORS
        /\ (IF u.written + 1 = u.img.sectors THEN "sig" ELSE "chunk") \in Uploading
    BY <1>1, <1>2, OtaConstants DEF Uploading
  <2>. QED BY <2>1, <1>2 DEF Uploads
<1>7. Progress(v, content)
  <2>1. \A i \in 0..(v.written - 1) : content[i] = Chunk(v.img, i)
    BY <1>1, <1>2, <1>6, OtaConstants DEF Progress
  <2>. QED BY <2>1, <1>2, <1>3, <1>6 DEF Progress
<1>8. slots' = [slots EXCEPT ![v.target] = content] /\ worker' = [worker EXCEPT ![w] = v]
  BY <1>6 DEF ReadChunk, Goes
<1>9. /\ otadata' = otadata /\ worker[w].at # "state" /\ v.at # "state"
      /\ cpu' \in WORKERS \cup {Nobody}
      /\ UNCHANGED <<booted, FLASH, clean>>
  BY <1>1, <1>6 DEF ReadChunk, IInv, FieldsOK
<1> HIDE DEF v, content
<1>. QED BY <1>1, <1>5, <1>6, <1>7, <1>8, <1>9, UploadStep

LEMMA NoPartitionKeeps ==
  ASSUME IInv, NEW w \in WORKERS, NoPartition(w)
  PROVE  IInv'
<1>1. worker[w].at \in {"lock"} \cup Uploading /\ (worker[w].at = "lock" => FLASH = Nobody)
  BY DEF NoPartition, At
<1>. QED BY <1>1, ReturnStep DEF NoPartition

\* Garbage at one place of the upload's slot.
LEMMA Spoiled ==
  ASSUME IInv, NEW w \in WORKERS, worker[w].at \in Uploading, NEW i \in 0..(SECTORS - 1),
         slots' = [slots EXCEPT ![worker[w].target][i] = Garbage]
  PROVE  \E content \in [0..(SECTORS - 1) -> Contents] :
           slots' = [slots EXCEPT ![worker[w].target] = content]
<1> DEFINE content == [slots[worker[w].target] EXCEPT ![i] = Garbage]
<1>1. content \in [0..(SECTORS - 1) -> Contents]
  BY Uploader
<1>2. slots' = [slots EXCEPT ![worker[w].target] = content]
  BY Uploader DEF IInv, FieldsOK
<1>. QED BY <1>1, <1>2

LEMMA WriteFailsKeeps ==
  ASSUME IInv, NEW w \in WORKERS, WriteFails(w)
  PROVE  IInv'
<1>1. worker[w].at = "chunk" /\ worker[w].at \in Uploading /\ worker[w].at # "lock"
  BY DEF WriteFails, At, Uploading
<1>2. \/ slots' = slots
      \/ \E content \in [0..(SECTORS - 1) -> Contents] :
           slots' = [slots EXCEPT ![worker[w].target] = content]
  <2>1. CASE worker[w].written < SECTORS
    <3>1. worker[w].written \in 0..(SECTORS - 1)
      BY <1>1, <2>1, Uploader, OtaConstants
    <3>. QED BY <1>1, <2>1, <3>1, Spoiled DEF WriteFails
  <2>2. CASE ~(worker[w].written < SECTORS)
    BY <2>2 DEF WriteFails
  <2>. QED BY <2>1, <2>2
<1>3. Return(w, 500) /\ UNCHANGED <<otadata, booted, clean>>
  BY DEF WriteFails
<1>. QED BY <1>1, <1>2, <1>3, ReturnStep

LEMMA ReadFailsKeeps ==
  ASSUME IInv, NEW w \in WORKERS, ReadFails(w)
  PROVE  IInv'
<1>1. worker[w].at \in Uploading /\ worker[w].at # "lock"
  BY DEF ReadFails, At, Uploading
<1>. QED BY <1>1, ReturnStep DEF ReadFails

\* Behind a good signature there is all of a signed image in the slot.
LEMMA ReadSignatureKeeps ==
  ASSUME IInv, NEW w \in WORKERS, ReadSignature(w)
  PROVE  IInv'
<1> DEFINE u == worker[w]
           v == [u EXCEPT !.at = "erase"]
<1>1. u.at = "sig" /\ u.at \in Uploading /\ u.at # "lock"
  BY DEF ReadSignature, At, Uploading
<1>2. CASE Verifies(u.img)
  <2>1. /\ v \in Uploads /\ v.target = u.target /\ v.img = u.img /\ v.written = u.written
        /\ v.at = "erase"
    BY <1>1, Uploader DEF Uploads, Uploading
  <2>2. slots[u.target] \in [0..(SECTORS - 1) -> Contents] /\ u.target \in Slots
        /\ Progress(v, slots[u.target])
    BY <1>1, <1>2, <2>1, Uploader DEF Progress, Verifies
  <2>3. /\ worker' = [worker EXCEPT ![w] = v]
        /\ slots' = [slots EXCEPT ![v.target] = slots[u.target]]
        /\ otadata' = otadata /\ cpu' \in WORKERS \cup {Nobody}
        /\ UNCHANGED <<booted, FLASH, clean>>
    BY <1>2, <2>1, <2>2 DEF ReadSignature, Moves, IInv, FieldsOK
  <2> HIDE DEF v
  <2>. QED BY <1>1, <2>1, <2>2, <2>3, UploadStep
<1>3. CASE ~Verifies(u.img)
  <2>1. 0 \in 0..(SECTORS - 1)
    BY OtaConstants
  <2>2. \/ slots' = slots
        \/ \E content \in [0..(SECTORS - 1) -> Contents] :
             slots' = [slots EXCEPT ![worker[w].target] = content]
    BY <1>1, <1>3, <2>1, Spoiled DEF ReadSignature
  <2>3. Return(w, 403) /\ UNCHANGED <<otadata, booted, clean>>
    BY <1>3 DEF ReadSignature
  <2>. QED BY <1>1, <2>2, <2>3, ReturnStep
<1>. QED BY <1>2, <1>3

\* The erase begins behind the image.
LEMMA EraseTailKeeps ==
  ASSUME IInv, NEW w \in WORKERS, EraseTail(w)
  PROVE  IInv'
<1> DEFINE u == worker[w]
           v == [u EXCEPT !.at = "activate"]
           tail == u.img.sectors..(SECTORS - 2)
<1>1. u.at = "erase" /\ u.at \in Uploading
  BY DEF EraseTail, At, Uploading
<1> PICK done \in {{}, tail} :
      slots' = [slots EXCEPT ![u.target] =
                  [i \in DOMAIN @ |-> IF i \in done THEN Garbage ELSE @[i]]]
  BY DEF EraseTail
<1> DEFINE content == [i \in 0..(SECTORS - 1) |-> IF i \in done THEN Garbage ELSE slots[u.target][i]]
<1>2. /\ slots[u.target] \in [0..(SECTORS - 1) -> Contents] /\ u.target \in Slots
      /\ Progress(u, slots[u.target]) /\ u \in Uploads /\ Garbage \in Contents
      /\ u.img.sectors \in Nat /\ u.written \in 0..SECTORS
  BY <1>1, Uploader
<1>3. content \in [0..(SECTORS - 1) -> Contents]
  BY <1>2
<1>4. slots' = [slots EXCEPT ![u.target] = content]
  <2>1. [i \in DOMAIN slots[u.target] |-> IF i \in done THEN Garbage ELSE slots[u.target][i]] = content
    BY <1>2
  <2>. QED BY <2>1, <1>2 DEF IInv, FieldsOK
<1>5. /\ v \in Uploads /\ v.target = u.target /\ v.img = u.img /\ v.written = u.written
      /\ v.at = "activate"
  BY <1>2 DEF Uploads, Uploading
<1>6. Progress(v, content)
  <2>1. u.written = u.img.sectors /\ u.img.signed
    BY <1>1, <1>2 DEF Progress
  <2>2. \A i \in 0..(u.written - 1) : i \notin done /\ i \in 0..(SECTORS - 1)
    BY <1>2, <2>1, OtaConstants
  <2>3. \A i \in 0..(u.written - 1) : content[i] = Chunk(u.img, i)
    BY <1>2, <2>2 DEF Progress
  <2>. QED BY <1>5, <2>1, <2>3 DEF Progress
<1>7. /\ worker' = [worker EXCEPT ![w] = v]
      /\ otadata' = otadata /\ cpu' \in WORKERS \cup {Nobody}
      /\ UNCHANGED <<booted, FLASH, clean>>
  BY DEF EraseTail, Moves, IInv, FieldsOK
<1>8. slots' = [slots EXCEPT ![v.target] = content]
  BY <1>4, <1>5
<1> HIDE DEF v, content
<1>. QED BY <1>1, <1>3, <1>5, <1>6, <1>7, <1>8, UploadStep

LEMMA ActivateKeeps ==
  ASSUME IInv, NEW w \in WORKERS, Activate(w)
  PROVE  IInv'
<1> DEFINE u == worker[w]
           v == [u EXCEPT !.at = "state"]
<1>1. u.at = "activate" /\ u.at \in Uploading /\ u.at # "lock"
  BY DEF Activate, At, Uploading
<1>2. CASE otadata' = u.target /\ Moves(w, "state") /\ UNCHANGED <<FLASH, cpu>>
  <2>1. /\ v \in Uploads /\ v.target = u.target /\ v.img = u.img /\ v.written = u.written
        /\ v.at = "state"
    BY <1>1, Uploader DEF Uploads, Uploading
  <2>2. slots[u.target] \in [0..(SECTORS - 1) -> Contents] /\ u.target \in Slots
        /\ Progress(v, slots[u.target])
    BY <1>1, <2>1, Uploader DEF Progress
  <2>3. /\ worker' = [worker EXCEPT ![w] = v]
        /\ slots' = [slots EXCEPT ![v.target] = slots[u.target]]
        /\ otadata' = v.target /\ cpu' \in WORKERS \cup {Nobody}
        /\ UNCHANGED <<booted, FLASH, clean>>
    BY <1>2, <2>1, <2>2 DEF Activate, Moves, IInv, FieldsOK
  <2> HIDE DEF v
  <2>. QED BY <1>1, <2>1, <2>2, <2>3, UploadStep
<1>3. CASE Return(w, 500) /\ UNCHANGED otadata
  BY <1>1, <1>3, ReturnStep DEF Activate
<1>. QED BY <1>2, <1>3 DEF Activate

LEMMA SetStateKeeps ==
  ASSUME IInv, NEW w \in WORKERS, SetState(w)
  PROVE  IInv'
<1>1. worker[w].at \in Uploading /\ worker[w].at # "lock"
  BY DEF SetState, At, Uploading
<1>. QED BY <1>1, ReturnStep DEF SetState

-----------------------------------------------------------------------------
\* A reset as such: flash stays as it is.
LEMMA ResetKeeps ==
  ASSUME IInv, Boot, UNCHANGED <<slots, otadata>>
  PROVE  IInv'
BY BootStep DEF IInv, FieldsOK, BootsVerified

\* A sector lost with the power is the upload's; an entry of otadata lost behind
\* the switch leaves the running slot's.
LEMMA PowerFailsKeeps ==
  ASSUME IInv, PowerFails
  PROVE  IInv'
<1>1. CASE UNCHANGED <<slots, otadata>>
  BY <1>1, ResetKeeps DEF PowerFails
<1>2. ASSUME NEW w \in WORKERS, worker[w].at = "chunk", worker[w].written < SECTORS,
             slots' = [slots EXCEPT ![worker[w].target][worker[w].written] = Garbage],
             UNCHANGED otadata
      PROVE  IInv'
  <2>1. worker[w].at \in Uploading
    BY <1>2 DEF Uploading
  <2>2. worker[w].written \in 0..(SECTORS - 1)
    BY <1>2, <2>1, Uploader, OtaConstants
  <2>3. PICK content \in [0..(SECTORS - 1) -> Contents] :
          slots' = [slots EXCEPT ![worker[w].target] = content]
    BY <1>2, <2>1, <2>2, Spoiled
  <2>4. clean => worker[w].target # otadata
    BY <1>2, <2>1, Uploader DEF Aside
  <2>5. clean => Whole(slots'[otadata'])
    BY <1>2, <2>3, <2>4 DEF IInv, FieldsOK, BootsVerified
  <2>. QED BY <1>2, <2>3, <2>5, BootStep DEF IInv, FieldsOK, PowerFails
<1>3. ASSUME NEW w \in WORKERS, worker[w].at = "state", otadata' = 1 - otadata, UNCHANGED slots
      PROVE  IInv'
  <2>1. worker[w].at \in Uploading
    BY <1>3 DEF Uploading
  <2>2. clean => otadata' = booted
    BY <1>3, <2>1, Uploader DEF Aside, IInv, FieldsOK, Slots
  <2>3. otadata' \in Slots
    BY <1>3 DEF IInv, FieldsOK, Slots
  <2>. QED BY <1>3, <2>2, <2>3, BootStep DEF IInv, FieldsOK, BootsVerified, PowerFails
<1>. QED BY <1>1, <1>2, <1>3 DEF PowerFails

-----------------------------------------------------------------------------
LEMMA Inductive == IInv /\ [Next]_vars => IInv'
<1> SUFFICES ASSUME IInv, [Next]_vars PROVE IInv'
  OBVIOUS
<1>1. ASSUME NEW w \in WORKERS, Worker(w) PROVE IInv'
  <2>1. CASE TakeFlash(w) \/ NoPartition(w)
    BY <2>1, TakeFlashKeeps, NoPartitionKeeps
  <2>2. CASE ReadChunk(w) \/ WriteFails(w) \/ ReadFails(w) \/ ReadSignature(w)
    BY <2>2, ReadChunkKeeps, WriteFailsKeeps, ReadFailsKeeps, ReadSignatureKeeps
  <2>3. CASE EraseTail(w) \/ Activate(w) \/ SetState(w)
    BY <2>3, EraseTailKeeps, ActivateKeeps, SetStateKeeps
  <2>4. CASE Reply(w)
    BY <2>4, ReplyKeeps
  <2>5. CASE SoftwareReset(w)
    BY <2>5, ResetKeeps DEF SoftwareReset
  <2>. QED BY <1>1, <2>1, <2>2, <2>3, <2>4, <2>5 DEF Worker
<1>2. ASSUME NEW w \in WORKERS, NEW img \in Images, Request(w, img) PROVE IInv'
  BY <1>2, RequestKeeps
<1>3. CASE RebootTask
  BY <1>3, ResetKeeps DEF RebootTask
<1>4. CASE PowerFails
  BY <1>4, PowerFailsKeeps
<1>5. CASE UNCHANGED vars
  BY <1>5 DEF vars, ram, IInv, FieldsOK, UploadsOK, Aside, BootsVerified
<1>. QED BY <1>1, <1>2, <1>3, <1>4, <1>5 DEF Next

LEMMA Invariant == Spec => []IInv
BY InitHolds, Inductive, PTL DEF Spec

\* Fields keep their types, and a worker that touches flash, the chunk buffer or
\* the hasher holds the flash mutex (http.rs 57, 63-66, 338, 347-349).
THEOREM TypeCorrect == Spec => []TypeOK
<1>1. IInv => TypeOK
  <2> SUFFICES ASSUME IInv PROVE TypeOK
    OBVIOUS
  <2>1. ASSUME NEW w \in WORKERS
        PROVE  /\ worker[w].at \in {"idle", "lock", "reply", "drain"} \cup Uploading
               /\ worker[w].at \in Uploading => FLASH = w /\ worker[w].written \in 0..SECTORS
    <3>1. worker[w] \in WorkerStates
      BY DEF IInv, FieldsOK
    <3>2. worker[w].at \in {"idle", "lock", "reply", "drain"} \cup Uploading
      BY <3>1 DEF WorkerStates, Requests, Uploads
    <3>. QED BY <3>2, Uploader
  <2>. QED BY <2>1 DEF TypeOK, IInv, FieldsOK
<1>. QED BY <1>1, Invariant, PTL

\* As long as every upload began with the selected slot running (`clean`), what the
\* bootloader would select and what runs are whole verified images, whichever flash
\* operation fails and whenever power does (http.rs 16-20, 371-388, 411-443).
\* Without that the code does not ensure it: see README.
THEOREM BootsVerifiedAlways == Spec => []BootsVerified
<1>1. IInv => BootsVerified
  BY DEF IInv
<1>. QED BY <1>1, Invariant, PTL
=============================================================================
