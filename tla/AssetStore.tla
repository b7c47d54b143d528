----------------------------- MODULE AssetStore -----------------------------
(***************************************************************************)
(* The web interface in the LittleFS partition: mounting at start, the     *)
(* upload POST /api/fs, and what GET / then delivers.  LittleFS itself and  *)
(* the flash are external; a partition is the file it was written from and  *)
(* how much of it is there.                                                *)
(***************************************************************************)
EXTENDS Integers, FiniteSetsExt

CONSTANTS Sites,    \* sound LittleFS images with an index.html
          Torn,     \* files that begin like a LittleFS image and are damaged
          Others,   \* every other file
          Size,     \* units in a sound image, and in the partition
          Head,     \* units the header check needs
          Buffer,   \* units in the receive buffer
          Formatted, Blank

ASSUME AssetAssumption == /\ Size \in Nat /\ Head \in Nat /\ Buffer \in Nat
                          /\ 0 < Head /\ Head <= Buffer /\ Head <= Size

VARIABLES part,     \* content of the partition
          mounted,  \* m_mounted
          upload,   \* the upload the httpd task works on
          reply     \* how the last upload of this run was answered

uiVars == <<part, mounted, upload, reply>>

Bodies == Sites \cup Torn \cup Others

Holds(f, n) == [img |-> f, have |-> n]
Empty == Holds(Formatted, 0)
Wiped == Holds(Blank, 0)

NoUpload == [at |-> "idle", file |-> Blank, total |-> 0, received |-> 0,
             pending |-> 0, written |-> 0, was |-> FALSE]
NoReply == [status |-> "none", file |-> Blank, total |-> 0]

UiTypeOK == /\ part \in [img : Sites \cup Torn \cup {Formatted, Blank}, have : 0..Size]
            /\ mounted \in BOOLEAN
            /\ upload \in [at : {"idle", "head", "body", "mount"}, file : Bodies \cup {Blank},
                           total : 0..Size, received : 0..Size, pending : 0..Buffer,
                           written : 0..Size, was : BOOLEAN]
            /\ reply \in [status : {"none", "ok", "error"}, file : Bodies \cup {Blank}, total : 0..Size]

UiInit == /\ part = Wiped
          /\ mounted = FALSE
          /\ upload = NoUpload
          /\ reply = NoReply

-----------------------------------------------------------------------------
(* LittleFS. *)

Whole(p) == p.img \in Sites /\ p.have = Size

\* Can esp_vfs_littlefs_register() mount this without formatting?  What has
\* only its beginning may pass: the superblock and the directory come first.
Mountable(p) == IF p = Empty \/ Whole(p) THEN {TRUE}
                ELSE IF p.have = 0 THEN {FALSE} ELSE BOOLEAN

\* AssetStore::mount() on p, which formats what it cannot mount; formatting can
\* fail, too.
Mount(p) == \E mountable \in Mountable(p) :
               \/ mountable /\ part' = p /\ mounted' = TRUE
               \/ ~mountable /\ \/ part' = Empty /\ mounted' = TRUE
                                \/ part' = Wiped /\ mounted' = FALSE

\* What GET / delivers: a file that is there, else the built-in page.
Page == IF ~mounted \/ part = Empty THEN "emergency"
        ELSE IF Whole(part) THEN part.img ELSE "pieces"

-----------------------------------------------------------------------------
UiBoot == /\ Mount(part)
          /\ upload' = NoUpload
          /\ reply' = NoReply

UiOff == /\ mounted' = FALSE
         /\ upload' = NoUpload
         /\ reply' = NoReply
         /\ UNCHANGED part

\* A mutant: erase first, then look at the beginning.
OfferErasing(f, n) == /\ upload.at = "idle"
                      /\ n \in Head..Size
                      /\ upload' = [NoUpload EXCEPT !.at = "head", !.file = f, !.total = n]
                      /\ reply' = NoReply
                      /\ part' = Wiped
                      /\ UNCHANGED mounted

\* A body that is empty, shorter than a header or larger than the partition
\* is refused and changes nothing.
Offer(f, n) == /\ upload.at = "idle"
               /\ n \in Head..Size
               /\ upload' = [NoUpload EXCEPT !.at = "head", !.file = f, !.total = n]
               /\ reply' = NoReply
               /\ UNCHANGED <<part, mounted>>

Answer(s) == /\ reply' = [status |-> s, file |-> upload.file, total |-> upload.total]
             /\ upload' = NoUpload

Room == Min({Buffer - upload.pending, upload.total - upload.received})

Take(n) == upload' = [upload EXCEPT !.received = @ + n, !.pending = @ + n]

FetchHead(n) == /\ upload.at = "head" /\ upload.pending < Head
                /\ n \in 1..Room
                /\ Take(n)
                /\ UNCHANGED <<part, mounted, reply>>

LooksLikeLittleFs == upload.file \notin Others

\* "Zuerst den Anfang holen und pruefen, ERST DANN loeschen."
Refused == /\ upload.at = "head"
           /\ upload.pending >= Head => ~LooksLikeLittleFs
           /\ Answer("error")
           /\ UNCHANGED <<part, mounted>>

\* Mount again what was mounted before the upload.
Restore(was, p) == IF was THEN Mount(p) ELSE part' = p /\ mounted' = FALSE

\* The way out of every failure once the file system is unmounted.
Fail(p) == /\ Answer("error")
           /\ Restore(upload.was, p)

Erase == /\ upload.at = "head" /\ upload.pending >= Head
         /\ LooksLikeLittleFs
         /\ part' = Wiped
         /\ mounted' = FALSE
         /\ upload' = [upload EXCEPT !.at = "body", !.was = mounted]
         /\ UNCHANGED reply

\* esp_partition_erase_range() fails, with the old content still there or not.
EraseFails == /\ upload.at = "head" /\ upload.pending >= Head
              /\ LooksLikeLittleFs
              /\ Answer("error")
              /\ \E p \in {part, Wiped} : Restore(mounted, p)

Due == upload.pending = Buffer \/ upload.received = upload.total

WriteChunk == /\ upload.at = "body" /\ Due /\ upload.pending > 0
              /\ part' = Holds(upload.file, upload.written + upload.pending)
              /\ upload' = [upload EXCEPT !.written = @ + upload.pending, !.pending = 0]
              /\ UNCHANGED <<mounted, reply>>

WriteFails == upload.at = "body" /\ Due /\ upload.pending > 0 /\ Fail(part)

FetchBody(n) == /\ upload.at = "body" /\ ~Due
                /\ n \in 1..Room
                /\ Take(n)
                /\ UNCHANGED <<part, mounted, reply>>

Aborted == upload.at = "body" /\ ~Due /\ Fail(part)

\* A mutant: the loop ends with the last byte received, not written.
CompleteReceived == upload.received = upload.total

Complete == upload.received = upload.total /\ upload.pending = 0

Remount == /\ upload.at = "body" /\ Complete
           /\ Mount(part)
           /\ Answer(IF mounted' THEN "ok" ELSE "error")

UiUpload == \/ \E f \in Bodies, n \in Head..Size : Offer(f, n)
            \/ \E n \in 1..Buffer : FetchHead(n) \/ FetchBody(n)
            \/ Refused \/ Erase \/ EraseFails
            \/ WriteChunk \/ WriteFails \/ Aborted \/ Remount

-----------------------------------------------------------------------------
(* Properties. *)

\* A whole interface is lost only to an upload whose beginning has been
\* checked: a wrong file, a transfer that ends before the check, a start or a
\* power cut never touch it.
WrongFileHarmless ==
    [][ Whole(part) /\ part' # part
          => upload.pending >= Head /\ upload.file \in Sites \cup Torn ]_uiVars

\* An upload answered "ok" has put a sound image into the partition to the last
\* unit, and that image is what the probe delivers from then on.
UploadAnswer == /\ reply.status = "ok" => mounted
                /\ reply.status = "ok" /\ reply.file \in Sites /\ reply.total = Size
                     => Page = reply.file

\* docs/protocol.md:152: after an aborted upload "the probe keeps running, serves
\* the emergency page" -- violated: what has its beginning may mount.
AbortedShowsEmergency ==
    [][ upload.at = "body" /\ upload'.at = "idle" /\ reply'.status = "error"
          => Page' = "emergency" ]_uiVars
=============================================================================
