-------------------------- MODULE PrivateResources --------------------------
(***************************************************************************)
(* The ROM and the disk image are downloaded when the application becomes  *)
(* active and has none (B2PrivateResources.mm, with activateMainScreen of  *)
(* B2AppDelegate.mm).  Two stages follow each other, each of which shows a *)
(* dialog and calls its completion: the next stage, and in the end the     *)
(* boot.  A download runs on a background queue; the session's queue takes *)
(* the ZIP archive apart as the chunks come in, and writes the first entry *)
(* to a temporary file, which then is moved to its place.                  *)
(*                                                                         *)
(* A unit of an archive stands for some of its bytes, and a unit of an     *)
(* entry for what such a unit is inflated to.  The archive goes on after   *)
(* the entry, with its directory.  Removing and moving a file are atomic,  *)
(* and a dialog goes away in no time.                                      *)
(***************************************************************************)
EXTENDS Naturals, Sequences

CONSTANTS
  HeaderSize,  \* the local header, of 30 bytes
  MaxSize,     \* the largest size of 32 bits, which also says that there is a larger one
  MaxChunk,    \* bound: units that arrive at once
  Missing,     \* no file
  Offers       \* what is considered: what is there, and what the servers do

Kinds == {"rom", "disk"}

\* there: in the documents from the beginning; known: the name of the download has
\* an extension that is looked for; readable: the header is one of those supported;
\* breaks: the transfer or the move may fail; imports: an
\* import may fail; early: the settings may be opened before the first activation.
Source == [there : BOOLEAN, url : {"none", "invalid", "valid"}, known : BOOLEAN,
           readable : BOOLEAN, stored : BOOLEAN, name : Nat, size : Nat,
           damaged : BOOLEAN, breaks : BOOLEAN]

ASSUME ResourcesAssumption ==
  /\ HeaderSize \in Nat \ {0} /\ MaxSize \in Nat \ {0} /\ MaxChunk \in Nat \ {0}
  /\ Missing \notin Seq(Nat)
  /\ Offers \subseteq [rom : Source, disk : Source, imports : BOOLEAN, early : BOOLEAN]

VARIABLES
  offer,       \* one of Offers, for good
  file,        \* the downloaded, or imported, file of each kind
  temporary,   \* its .download file
  defaults,    \* kinds that the user defaults name a file for
  didPrepare, preparationActive, busy, activationInProgress,
  preparing,   \* the kind whose completion is to come
  stage,       \* where its stage is
  presented,   \* what the root view controller presents, and what that presents, ...
  zip          \* the B2ZipDownload

onDisk    == <<file, temporary, defaults>>
flags     == <<didPrepare, preparationActive, busy, activationInProgress>>
resources == <<offer, onDisk, flags, preparing, stage, presented, zip>>

\* at, upto: the next unit to be looked at, the end of the chunk; pending: what is
\* inflated and does not fit into the output yet.
ZipDownload == [at : Nat, upto : Nat, headerData : 0 .. HeaderSize, headerRead : BOOLEAN,
                bytesToSkip : Nat, remaining : Nat, pending : Nat, error : BOOLEAN,
                finishedEntry : BOOLEAN]

NewZip == [at |-> 0, upto |-> 0, headerData |-> 0, headerRead |-> FALSE, bytesToSkip |-> 0,
           remaining |-> 0, pending |-> 0, error |-> FALSE, finishedEntry |-> FALSE]

Entry(k) == [i \in 1 .. offer[k].size |-> i]
Total(k) == HeaderSize + offer[k].name + offer[k].size + 1

\* With both files there nothing is prepared, whether didPrepare is set or not.
ResourcesInit ==
  /\ offer \in Offers
  /\ file = [k \in Kinds |-> IF offer[k].there THEN Entry(k) ELSE Missing]
  /\ temporary = [k \in Kinds |-> Missing]
  /\ defaults = {k \in Kinds : offer[k].there}
  /\ didPrepare = \A k \in Kinds : offer[k].there
  /\ preparationActive = FALSE /\ busy = FALSE /\ activationInProgress = FALSE
  /\ preparing = "none" /\ stage = "none" /\ presented = <<>>
  /\ zip = NewZip

-----------------------------------------------------------------------------
\* The stages, on the main thread.  A completion is called with the user defaults d
\* and with p presented.

Exists(k, d) == k \in d /\ file[k] # Missing

configureExistingResource(k, d) ==
  IF file[k] # Missing /\ (offer[k].there \/ offer[k].known) THEN d \cup {k} ELSE d

allRequiredResourcesConfigured == \A k \in Kinds : Exists(k, defaults)

showAlert(p) == Append(p, "alert")

\* activateMainScreen goes on with bootOrShowSettingsIfNeeded.
Finish(p) ==
  /\ presented' = p
  /\ preparationActive' = FALSE /\ activationInProgress' = FALSE /\ busy' = FALSE
  /\ preparing' = "none" /\ stage' = "none"

\* The stage presents its dialog on the root view controller, which UIKit refuses when
\* that presents something; then neither is a button pressed, nor the presentation
\* complete.
PresentDialog(k, p) ==
  LET download == offer[k].url = "valid" IN
  /\ presented' = IF p # <<>> THEN p ELSE IF download THEN <<"progress">> ELSE <<"missing">>
  /\ stage' = IF p # <<>> THEN "refused" ELSE IF download THEN "present" ELSE "missing"
  /\ busy' = download
  /\ preparationActive' = TRUE /\ activationInProgress' = TRUE
  /\ preparing' = k

prepareDisk(d, p) ==
  /\ defaults' = configureExistingResource("disk", d)
  /\ IF Exists("disk", defaults') THEN Finish(p)
     ELSE IF offer.disk.url = "invalid" THEN Finish(showAlert(p))
     ELSE PresentDialog("disk", p)

prepareROM(d, p) ==
  LET e == configureExistingResource("rom", d) IN
  IF Exists("rom", e) THEN prepareDisk(e, p)
  ELSE IF offer.rom.url = "invalid" THEN prepareDisk(e, showAlert(p))
  ELSE defaults' = e /\ PresentDialog("rom", p)

completion(d, p) ==
  IF preparing = "rom" THEN prepareDisk(d, p) ELSE defaults' = d /\ Finish(p)

\* activateMainScreen, with no emulator running and no settings presented.  When the
\* preparation is refused although it is not this activation's, nothing ends it.
activateMainScreen ==
  /\ presented = <<>> /\ ~activationInProgress
  /\ didPrepare' = TRUE
  /\ IF preparationActive \/ busy
       THEN /\ activationInProgress' = TRUE
            /\ UNCHANGED <<defaults, preparationActive, busy, preparing, stage, presented>>
     ELSE IF didPrepare
       THEN UNCHANGED <<defaults, preparationActive, busy, activationInProgress, preparing,
                        stage, presented>>
     ELSE prepareROM(defaults, presented)
  /\ UNCHANGED <<offer, file, temporary, zip>>

\* OK is tapped.
Dismiss ==
  /\ presented # <<>>
  /\ LET top == presented[Len(presented)]
         rest == SubSeq(presented, 1, Len(presented) - 1)
     IN \/ /\ top = "alert"
           /\ presented' = rest
           /\ UNCHANGED <<onDisk, flags, preparing, stage>>
        \/ /\ top = "missing"
           /\ completion(defaults, rest)
           /\ UNCHANGED <<file, temporary, didPrepare>>
  /\ UNCHANGED <<offer, zip>>

\* A file from another application cannot be imported, and an alert says so.
ImportFails ==
  /\ offer.imports /\ presented = <<"progress">>
  /\ presented' = showAlert(presented)
  /\ UNCHANGED <<offer, onDisk, flags, preparing, stage, zip>>

\* The dialog is there, and a queue is given the download.
Presented ==
  /\ stage = "present"
  /\ stage' = "run"
  /\ UNCHANGED <<offer, onDisk, flags, preparing, presented, zip>>

\* The download has ended.  To dismiss a dialog that itself presents an alert is to
\* dismiss the alert.
Downloaded ==
  /\ stage \in {"succeeded", "failed"}
  /\ LET rest == SubSeq(presented, 1, Len(presented) - 1) IN
     IF stage = "succeeded" THEN completion(defaults \cup {preparing}, rest)
                            ELSE completion(defaults, showAlert(rest))
  /\ UNCHANGED <<offer, file, temporary, didPrepare, zip>>

Main == Presented \/ Downloaded

-----------------------------------------------------------------------------
\* B2ZipDownload: run, on a background queue.

Goes(to) ==
  /\ stage' = to
  /\ UNCHANGED <<offer, defaults, flags, preparing, presented>>

StartSession ==
  /\ stage = "run"
  /\ zip' = NewZip
  /\ \/ Goes("response") /\ temporary' = [temporary EXCEPT ![preparing] = <<>>]
     \/ /\ offer[preparing].breaks
        /\ Goes("failed") /\ temporary' = [temporary EXCEPT ![preparing] = Missing]
  /\ UNCHANGED file

\* Mutated form: an archive that ends before its entry does is not noticed.
EndSessionUnfinished ==
  /\ stage = "completed"
  /\ IF zip.error
       THEN Goes("failed") /\ temporary' = [temporary EXCEPT ![preparing] = Missing]
       ELSE Goes("remove") /\ UNCHANGED temporary
  /\ UNCHANGED <<file, zip>>

\* The semaphore is signalled.
EndSession ==
  /\ stage = "completed"
  /\ IF zip.error \/ ~zip.finishedEntry
       THEN Goes("failed") /\ temporary' = [temporary EXCEPT ![preparing] = Missing]
       ELSE Goes("remove") /\ UNCHANGED temporary
  /\ UNCHANGED <<file, zip>>

RemoveOld ==
  /\ stage = "remove"
  /\ Goes("move")
  /\ file' = [file EXCEPT ![preparing] = Missing]
  /\ UNCHANGED <<temporary, zip>>

Install ==
  /\ stage = "move"
  /\ \/ Goes("succeeded") /\ file' = [file EXCEPT ![preparing] = temporary[preparing]]
     \/ offer[preparing].breaks /\ Goes("failed") /\ UNCHANGED file
  /\ temporary' = [temporary EXCEPT ![preparing] = Missing]
  /\ UNCHANGED zip

-----------------------------------------------------------------------------
\* B2ZipDownload: the session's queue.

didReceiveResponse ==
  /\ stage = "response"
  /\ \/ Goes("loading") /\ UNCHANGED zip
     \/ /\ offer[preparing].breaks
        /\ Goes("completed") /\ zip' = [zip EXCEPT !.error = TRUE]
  /\ UNCHANGED <<file, temporary>>

Start(k) == HeaderSize + offer[k].name
End(k) == Start(k) + offer[k].size

Least(m, n) == IF m < n THEN m ELSE n
Units(from, n) == [i \in 1 .. n |-> from + i]

writeData(from, n) ==
  temporary' = [temporary EXCEPT ![preparing] = @ \o Units(from, n)]

\* What is left of a chunk after the end, or an error, is not looked at.
Over(z) == [z EXCEPT !.at = z.upto]
Fails(z) == Over([z EXCEPT !.error = TRUE])
FinishesEntry(z) == Over([z EXCEPT !.finishedEntry = TRUE])

didReceiveData ==
  /\ stage = "loading" /\ zip.at = zip.upto
  /\ \E n \in 1 .. MaxChunk :
       /\ zip.upto + n <= Total(preparing)
       /\ LET z == [zip EXCEPT !.upto = @ + n] IN
          zip' = IF zip.error \/ zip.finishedEntry THEN Over(z) ELSE z
  /\ UNCHANGED <<offer, onDisk, flags, preparing, stage, presented>>

didCompleteWithError ==
  /\ stage = "loading" /\ zip.at = zip.upto
  /\ \/ zip.upto = Total(preparing) /\ UNCHANGED zip
     \/ /\ offer[preparing].breaks
        /\ \E e \in {zip.error, TRUE} : zip' = [zip EXCEPT !.error = e]
  /\ Goes("completed")
  /\ UNCHANGED <<file, temporary>>

\* processBytes, one round of its loop.
Processing ==
  /\ stage = "loading" /\ zip.at < zip.upto
  /\ UNCHANGED <<offer, file, defaults, flags, preparing, stage, presented>>

Given(need) == Least(need, zip.upto - zip.at)

readHeader(z) ==
  IF ~offer[preparing].readable THEN Fails(z)
  ELSE [z EXCEPT !.headerRead = TRUE, !.bytesToSkip = offer[preparing].name,
                 !.remaining = IF offer[preparing].stored
                               THEN Least(offer[preparing].size, MaxSize) ELSE 0]

CollectHeader ==
  /\ Processing /\ ~zip.headerRead
  /\ LET count == Given(HeaderSize - zip.headerData)
         z == [zip EXCEPT !.at = @ + count, !.headerData = @ + count]
     IN zip' = IF z.headerData = HeaderSize THEN readHeader(z) ELSE z
  /\ UNCHANGED temporary

SkipName ==
  /\ Processing /\ zip.headerRead /\ zip.bytesToSkip > 0
  /\ LET count == Given(zip.bytesToSkip) IN
     zip' = [zip EXCEPT !.at = @ + count, !.bytesToSkip = @ - count]
  /\ UNCHANGED temporary

CopyStored ==
  /\ Processing /\ zip.headerRead /\ zip.bytesToSkip = 0 /\ offer[preparing].stored
  /\ LET count == Given(zip.remaining)
         z == [zip EXCEPT !.at = @ + count, !.remaining = @ - count]
     IN /\ writeData(zip.at - Start(preparing), count)
        /\ zip' = IF z.remaining = 0 THEN FinishesEntry(z) ELSE z

\* inflateBytes, one call of inflate: count units are taken and produced ones come out,
\* which are all unless the output is full.
InflateBytes ==
  /\ Processing /\ zip.headerRead /\ zip.bytesToSkip = 0 /\ ~offer[preparing].stored
  /\ LET available == Given(End(preparing) - zip.at) IN
     \E count \in 0 .. available : \E produced \in 0 .. zip.pending + count :
       LET z == [zip EXCEPT !.at = @ + count, !.pending = @ + count - produced] IN
       /\ produced > 0 \/ (count = available /\ z.pending = 0)
       /\ count < available => produced > 0
       /\ writeData(zip.at - Start(preparing) - zip.pending, produced)
       /\ zip' = IF offer[preparing].damaged /\ z.at = End(preparing) THEN Fails(z)
                 ELSE IF z.at = End(preparing) /\ z.pending = 0 THEN FinishesEntry(z)
                 ELSE z

-----------------------------------------------------------------------------
processBytes == CollectHeader \/ SkipName \/ CopyStored \/ InflateBytes

Download ==
  \/ StartSession \/ didReceiveResponse \/ didReceiveData \/ processBytes
  \/ didCompleteWithError \/ EndSession \/ RemoveOld \/ Install

-----------------------------------------------------------------------------
\* Besides the types: the gate of activateMainScreen is shut just as long as the
\* preparation goes on, so none of its early returns leaves it shut.
ResourcesTypeOK ==
  /\ offer \in Offers
  /\ file \in [Kinds -> Seq(Nat) \cup {Missing}]
  /\ temporary \in [Kinds -> Seq(Nat) \cup {Missing}]
  /\ defaults \subseteq Kinds
  /\ didPrepare \in BOOLEAN /\ preparationActive \in BOOLEAN /\ busy \in BOOLEAN
  /\ activationInProgress = preparationActive
  /\ busy => preparationActive
  /\ preparing \in Kinds \cup {"none"}
  /\ stage \in {"none", "present", "missing", "refused", "run", "response", "loading",
                "completed", "remove", "move", "succeeded", "failed"}
  /\ presented \in Seq({"progress", "missing", "alert"})
  /\ zip \in ZipDownload

\* "When the download finishes, the file is ready to use!" (README.md:83)  A file that
\* is there is the whole entry, without a gap or a repetition, however the chunks fall
\* into the parts of the archive, whatever fails, and if the application is killed in
\* between.  A stored entry of 2^32 bytes or more makes an exception: only as many
\* bytes are copied as its size field says.
InstalledIsWhole ==
  \A k \in Kinds : file[k] # Missing /\ (offer[k].stored => offer[k].size <= MaxSize) =>
    file[k] = Entry(k)

\* What can keep the preparation from its end: the alert that the ROM cannot be had is
\* presented when the disk's stage wants to present its dialog (B2PrivateResources.mm:478),
\* and an alert on a progress dialog is dismissed in its stead (:474).
MayFail(k) ==
  /\ ~offer[k].there /\ offer[k].url # "none"
  /\ \/ offer[k].url = "invalid" \/ offer[k].breaks \/ ~offer[k].readable
     \/ offer[k].damaged

MayHang == (MayFail("rom") /\ ~offer.disk.there) \/ offer.imports
=============================================================================
