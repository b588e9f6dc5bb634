---------------------------- MODULE Launch_proofs ----------------------------
(***************************************************************************)
(* Proofs about the application as a whole: the life cycle and the disk    *)
(* images keep what is proved of them, and for archives, chunks and files  *)
(* of any size a downloaded file is the whole entry.                       *)
(***************************************************************************)
EXTENDS Launch, DiskImageSnapshots_proofs

\* To the disk images a step of the application is one of theirs, or nothing.
LEMMA LaunchAndVolumes == [LaunchNext]_launchVars => [VolumesNext]_volumeVars
<1> SUFFICES ASSUME [LaunchNext]_launchVars PROVE [VolumesNext]_volumeVars
  OBVIOUS
<1>1. ASSUME BootOrShowSettings PROVE [VolumesNext]_volumeVars
  BY <1>1 DEF BootOrShowSettings, VolumesNext, VolumesAct
<1>2. ASSUME Activate PROVE [VolumesNext]_volumeVars
  BY <1>1, <1>2 DEF Activate
<1>3. ASSUME Prepares(Main \/ Download \/ Dismiss \/ ImportFails) PROVE [VolumesNext]_volumeVars
  BY <1>1, <1>3 DEF Prepares
<1>4. ASSUME Elsewhere PROVE VolumesNext
  BY <1>4 DEF Elsewhere, VolumesNext
<1>5. ASSUME KilledAtAll PROVE VolumesNext
  BY <1>5 DEF KilledAtAll, VolumesNext
<1>6. CASE UNCHANGED launchVars
  BY <1>6 DEF launchVars
<1> QED BY <1>2, <1>3, <1>4, <1>5, <1>6 DEF LaunchNext

\* The application as a whole does with the emulator and the disk images what they
\* would do by themselves: what is proved of them holds in it.
THEOREM LaunchImplementsVolumes == LaunchSpec => VolumesSpec
<1>1. LaunchInit => VolumesInit
  BY DEF LaunchInit
<1> QED BY <1>1, LaunchAndVolumes, PTL DEF LaunchSpec, LaunchFairness, VolumesSpec
-----------------------------------------------------------------------------
Fits(k) == offer[k].stored => offer[k].size <= MaxSize

\* How many units of the entry have been taken from the archive.
Taken(k) == zip.at + zip.bytesToSkip - Start(k)

\* What the reader has written agrees with what it has read, unless it has failed.
ReaderOK(k) ==
  /\ zip.at <= zip.upto
  /\ zip.error \/ zip.finishedEntry => zip.at = zip.upto
  /\ ~zip.error /\ ~zip.finishedEntry /\ ~zip.headerRead =>
       /\ zip.headerData = zip.at /\ zip.at < HeaderSize /\ zip.pending = 0
       /\ temporary[k] = Units(0, 0)
  /\ ~zip.error /\ ~zip.finishedEntry /\ zip.headerRead =>
       /\ Taken(k) \in Nat
       /\ zip.bytesToSkip > 0 => Taken(k) = 0
       /\ offer[k].stored =>
            /\ zip.remaining + Taken(k) = Least(offer[k].size, MaxSize)
            /\ temporary[k] = Units(0, Taken(k))
       /\ ~offer[k].stored =>
            /\ Taken(k) <= offer[k].size
            /\ zip.pending \in 0 .. Taken(k)
            /\ temporary[k] = Units(0, Taken(k) - zip.pending)
  /\ zip.finishedEntry /\ Fits(k) => temporary[k] = Entry(k)

Reading == {"response", "loading", "completed"}
Downloading == Reading \cup {"present", "run", "remove", "move", "succeeded", "failed"}

WholeInv ==
  /\ offer \in Offers /\ zip \in ZipDownload
  /\ file \in [Kinds -> Seq(Nat) \cup {Missing}]
  /\ temporary \in [Kinds -> Seq(Nat) \cup {Missing}]
  /\ stage \in Downloading => preparing \in Kinds
  /\ stage = "response" => zip = NewZip
  /\ stage \in Reading => ReaderOK(preparing) /\ temporary[preparing] \in Seq(Nat)
  /\ stage \in {"remove", "move"} =>
       /\ temporary[preparing] \in Seq(Nat)
       /\ Fits(preparing) => temporary[preparing] = Entry(preparing)
  /\ InstalledIsWhole

\* What is offered for a kind.
LEMMA OfferFacts ==
  ASSUME offer \in Offers, NEW k \in Kinds
  PROVE  /\ offer[k].stored \in BOOLEAN /\ offer[k].there \in BOOLEAN
         /\ offer[k].name \in Nat /\ offer[k].size \in Nat
         /\ offer[k].damaged \in BOOLEAN /\ offer[k].readable \in BOOLEAN
<1>1. offer[k] \in Source
  BY ResourcesAssumption DEF Kinds
<1> QED BY <1>1 DEF Source

\* The sizes are those that the assumption says.
LEMMA SizeFacts == HeaderSize \in Nat /\ HeaderSize > 0 /\ MaxSize \in Nat /\ MaxChunk \in Nat
BY ResourcesAssumption

\* Units that follow each other are one run of units.
LEMMA UnitsFacts ==
  ASSUME NEW m \in Nat, NEW n \in Nat
  PROVE  /\ Units(m, n) \in Seq(Nat)
         /\ Units(0, m) \o Units(m, n) = Units(0, m + n)
<1>1. Units(m, n) \in Seq(Nat)
  BY DEF Units
<1>2. Units(0, m) \in Seq(Nat) /\ Len(Units(0, m)) = m /\ Len(Units(m, n)) = n
  BY <1>1 DEF Units
<1>3. Units(0, m) \o Units(m, n) = [i \in 1 .. m + n |-> i]
  BY <1>1, <1>2 DEF Units
<1>4. Units(0, m + n) = [i \in 1 .. m + n |-> i]
  BY DEF Units
<1> QED BY <1>1, <1>3, <1>4

\* The fields of the reader's record, and what becomes of them.
LEMMA FieldFacts ==
  ASSUME NEW z \in ZipDownload
  PROVE  /\ z.at \in Nat /\ z.upto \in Nat /\ z.bytesToSkip \in Nat /\ z.remaining \in Nat
         /\ z.pending \in Nat /\ z.headerData \in 0 .. HeaderSize /\ z.headerRead \in BOOLEAN
         /\ z.error \in BOOLEAN /\ z.finishedEntry \in BOOLEAN
BY DEF ZipDownload

\* What is left of a chunk is not looked at after an end, whichever it is.
LEMMA OverFacts ==
  ASSUME NEW z \in ZipDownload
  PROVE  /\ Over(z) \in ZipDownload /\ Over(z).at = z.upto /\ Over(z).upto = z.upto
         /\ Over(z).error = z.error /\ Over(z).finishedEntry = z.finishedEntry
         /\ Fails(z) \in ZipDownload /\ Fails(z).at = z.upto /\ Fails(z).upto = z.upto
         /\ Fails(z).error /\ Fails(z).finishedEntry = z.finishedEntry
         /\ FinishesEntry(z) \in ZipDownload /\ FinishesEntry(z).at = z.upto
         /\ FinishesEntry(z).upto = z.upto
         /\ FinishesEntry(z).error = z.error /\ FinishesEntry(z).finishedEntry
<1>1. Over(z) \in ZipDownload /\ Over(z).at = z.upto /\ Over(z).upto = z.upto
  BY DEF Over, ZipDownload
<1>2. Over(z).error = z.error /\ Over(z).finishedEntry = z.finishedEntry
  BY DEF Over, ZipDownload
<1>3. /\ Fails(z) \in ZipDownload /\ Fails(z).at = z.upto /\ Fails(z).upto = z.upto
      /\ Fails(z).error /\ Fails(z).finishedEntry = z.finishedEntry
  BY DEF Over, Fails, ZipDownload
<1>4. /\ FinishesEntry(z) \in ZipDownload /\ FinishesEntry(z).at = z.upto
      /\ FinishesEntry(z).upto = z.upto
      /\ FinishesEntry(z).error = z.error /\ FinishesEntry(z).finishedEntry
  BY DEF Over, FinishesEntry, ZipDownload
<1> QED BY <1>1, <1>2, <1>3, <1>4

\* A whole entry is the run of all its units.
LEMMA EntryFacts ==
  ASSUME offer \in Offers, NEW k \in Kinds
  PROVE  Entry(k) = Units(0, offer[k].size) /\ Entry(k) \in Seq(Nat)
BY OfferFacts DEF Entry, Units
-----------------------------------------------------------------------------
\* A completion ends the preparation, or presents the dialog of the next stage.
LEMMA CompletionSteps ==
  ASSUME NEW d, NEW p, completion(d, p) \/ prepareROM(d, p)
  PROVE  /\ stage' \in {"none", "present", "missing", "refused"}
         /\ stage' = "present" => preparing' \in Kinds
BY DEF completion, prepareROM, prepareDisk, PresentDialog, Finish, Kinds

\* The dialogs leave the files alone.
LEMMA DialogsKeepFiles ==
  ASSUME WholeInv,
         activateMainScreen \/ Dismiss \/ ImportFails \/ Main \/ KilledAtAll
           \/ UNCHANGED resources
  PROVE  WholeInv'
<1>1. UNCHANGED <<offer, file, temporary>>
  BY DEF activateMainScreen, Dismiss, ImportFails, Main, Presented, Downloaded, KilledAtAll,
     onDisk, resources
<1>2. \/ UNCHANGED <<stage, preparing, zip>>
      \/ stage' \in {"none", "missing", "refused"}
      \/ stage' = "present" /\ preparing' \in Kinds
      \/ stage' = "run" /\ preparing' = preparing /\ preparing \in Kinds
  <2>1. CASE activateMainScreen
    BY <2>1, CompletionSteps DEF activateMainScreen
  <2>2. CASE Dismiss
    BY <2>2, CompletionSteps DEF Dismiss
  <2>3. CASE ImportFails
    BY <2>3 DEF ImportFails
  <2>4. CASE Presented
    BY <2>4 DEF Presented, WholeInv, Downloading
  <2>5. CASE Downloaded
    BY <2>5, CompletionSteps DEF Downloaded
  <2>6. CASE KilledAtAll
    BY <2>6 DEF KilledAtAll
  <2>7. CASE UNCHANGED resources
    BY <2>7 DEF resources
  <2> QED BY <2>1, <2>2, <2>3, <2>4, <2>5, <2>6, <2>7 DEF Main
<1>3. InstalledIsWhole' /\ zip' \in ZipDownload
  <2>1. NewZip \in ZipDownload
    BY SizeFacts DEF NewZip, ZipDownload
  <2> QED BY <1>1, <2>1 DEF WholeInv, InstalledIsWhole, Entry, activateMainScreen, Dismiss,
             ImportFails, Main, Presented, Downloaded, KilledAtAll, resources
<1>4. CASE UNCHANGED <<stage, preparing, zip>>
  BY <1>1, <1>3, <1>4 DEF WholeInv, ReaderOK, Fits, Taken, Start, Entry
<1>5. CASE stage' \in {"none", "missing", "refused", "present", "run"}
  BY <1>1, <1>2, <1>3, <1>5 DEF WholeInv, Reading, Downloading
<1> QED BY <1>2, <1>4, <1>5

\* The download, before and after the archive comes.
LEMMA SessionKeepsWhole ==
  ASSUME WholeInv,
         StartSession \/ EndSession \/ RemoveOld \/ Install \/ didReceiveResponse
  PROVE  WholeInv'
<1> USE DEF WholeInv, Goes, Reading, Downloading
<1>1. CASE StartSession
  <2>1. offer' = offer /\ preparing' = preparing /\ preparing \in Kinds /\ zip' = NewZip
    BY <1>1 DEF StartSession
  <2>2. temporary' \in [Kinds -> Seq(Nat) \cup {Missing}]
    <3>1. temporary' \in {[temporary EXCEPT ![preparing] = <<>>],
                          [temporary EXCEPT ![preparing] = Missing]}
      BY <1>1 DEF StartSession
    <3>2. <<>> \in Seq(Nat)
      OBVIOUS
    <3> QED BY <2>1, <3>1, <3>2
  <2>3. InstalledIsWhole'
    BY <1>1, <2>1 DEF StartSession, InstalledIsWhole, Entry
  <2>4. ASSUME stage' = "response" PROVE ReaderOK(preparing)' /\ temporary'[preparing] \in Seq(Nat)
    <3>1. temporary'[preparing] = <<>>
      BY <1>1, <2>1, <2>4 DEF StartSession
    <3>2. Units(0, 0) = <<>>
      BY DEF Units
    <3> QED BY <2>1, <3>1, <3>2, SizeFacts DEF ReaderOK, NewZip
  <2>5. zip' \in ZipDownload
    BY <2>1, SizeFacts DEF NewZip, ZipDownload
  <2> QED BY <1>1, <2>1, <2>2, <2>3, <2>4, <2>5 DEF StartSession
<1>2. CASE EndSession
  BY <1>2 DEF EndSession, ReaderOK, Fits, Entry, InstalledIsWhole
<1>3. CASE RemoveOld
  BY <1>3 DEF RemoveOld, Fits, Entry, InstalledIsWhole
<1>4. CASE Install
  BY <1>4 DEF Install, Fits, Entry, InstalledIsWhole
<1>5. CASE didReceiveResponse
  <2>1. UNCHANGED <<offer, file, temporary, preparing>> /\ preparing \in Kinds
    BY <1>5 DEF didReceiveResponse
  <2>2. InstalledIsWhole'
    BY <2>1 DEF InstalledIsWhole, Entry
  <2>3. CASE stage' = "loading" /\ zip' = zip
    <3>1. ReaderOK(preparing)'
      BY <1>5, <2>1, <2>3 DEF didReceiveResponse, ReaderOK, Taken, Start, Fits, Entry
    <3> QED BY <1>5, <2>1, <2>2, <2>3, <3>1 DEF didReceiveResponse
  <2>4. CASE stage' = "completed" /\ zip' = [zip EXCEPT !.error = TRUE]
    <3>1. /\ zip' \in ZipDownload /\ zip'.error /\ ~zip'.finishedEntry
          /\ zip'.at = 0 /\ zip'.upto = 0
      <4>1. zip = NewZip /\ zip \in ZipDownload
        BY <1>5 DEF didReceiveResponse
      <4> QED BY ONLY <2>4, <4>1 DEF NewZip, ZipDownload
    <3>2. ReaderOK(preparing)'
      BY <2>1, <3>1 DEF ReaderOK
    <3> QED BY <1>5, <2>1, <2>2, <2>4, <3>1, <3>2 DEF didReceiveResponse
  <2> QED BY <1>5, <2>3, <2>4 DEF didReceiveResponse
<1> QED BY <1>1, <1>2, <1>3, <1>4, <1>5
-----------------------------------------------------------------------------
\* A round of the reader, or a chunk, is right when the reader agrees with it after it.
LEMMA LoadingKeepsWhole ==
  ASSUME WholeInv, stage = "loading",
         UNCHANGED <<offer, file, preparing>>, stage' \in {"loading", "completed"},
         zip' \in ZipDownload, ReaderOK(preparing)',
         NEW t \in Seq(Nat), temporary' = [temporary EXCEPT ![preparing] = t]
  PROVE  WholeInv'
<1>1. temporary' \in [Kinds -> Seq(Nat) \cup {Missing}] /\ temporary'[preparing] = t
  BY DEF WholeInv, Downloading, Reading
<1>2. InstalledIsWhole'
  BY DEF WholeInv, InstalledIsWhole, Entry
<1>3. preparing' \in Kinds
  BY DEF WholeInv, Downloading, Reading
<1> QED BY <1>1, <1>2, <1>3 DEF WholeInv, Reading, Downloading

\* What is there to go on while an archive is loaded.
LEMMA LoadingFacts ==
  ASSUME WholeInv, stage = "loading"
  PROVE  /\ preparing \in Kinds /\ ReaderOK(preparing) /\ zip \in ZipDownload
         /\ temporary[preparing] \in Seq(Nat)
         /\ temporary = [temporary EXCEPT ![preparing] = temporary[preparing]]
         /\ Start(preparing) \in Nat
         /\ End(preparing) = Start(preparing) + offer[preparing].size
         /\ offer[preparing].size \in Nat /\ offer[preparing].name \in Nat
         /\ offer[preparing].stored \in BOOLEAN
<1>1. preparing \in Kinds /\ ReaderOK(preparing) /\ temporary[preparing] \in Seq(Nat)
  BY DEF WholeInv, Reading, Downloading
<1> QED BY <1>1, OfferFacts, SizeFacts DEF WholeInv, Start, End

\* No more is taken than is needed, nor than the chunk has.
LEMMA GivenFacts ==
  ASSUME zip \in ZipDownload, zip.at <= zip.upto, NEW need \in Nat
  PROVE  Given(need) \in Nat /\ Given(need) <= need /\ zip.at + Given(need) <= zip.upto
BY FieldFacts DEF Given, Least

\* A chunk is looked at after the one before, and not at all after the end.
LEMMA ChunksKeepWhole ==
  ASSUME WholeInv, didReceiveData \/ didCompleteWithError
  PROVE  WholeInv'
<1> stage = "loading" /\ zip.at = zip.upto
  BY DEF didReceiveData, didCompleteWithError
<1> DEFINE k == preparing
<1>1. UNCHANGED <<offer, file, temporary, preparing>> /\ stage' \in {"loading", "completed"}
  BY DEF didReceiveData, didCompleteWithError, Goes, onDisk
<1>2. zip' \in ZipDownload /\ ReaderOK(k)'
  <2>1. CASE didReceiveData
    <3>1. PICK n \in 1 .. MaxChunk :
            zip' = IF zip.error \/ zip.finishedEntry THEN Over([zip EXCEPT !.upto = @ + n])
                                                     ELSE [zip EXCEPT !.upto = @ + n]
      BY <2>1 DEF didReceiveData
    <3> DEFINE z == [zip EXCEPT !.upto = @ + n]
    <3>2. /\ z \in ZipDownload /\ z.upto = zip.upto + n /\ z.at = zip.at
          /\ z.error = zip.error /\ z.finishedEntry = zip.finishedEntry
      <4>1. zip \in ZipDownload /\ n \in Nat /\ zip.upto + n \in Nat
        BY SizeFacts, LoadingFacts, FieldFacts
      <4> QED BY ONLY <4>1 DEF ZipDownload
    <3>3. /\ z.headerRead = zip.headerRead /\ z.headerData = zip.headerData
          /\ z.bytesToSkip = zip.bytesToSkip /\ z.remaining = zip.remaining
          /\ z.pending = zip.pending
      BY LoadingFacts DEF ZipDownload
    <3>4. zip.upto + n >= zip.upto
      BY LoadingFacts, FieldFacts
    <3>5. CASE zip.error \/ zip.finishedEntry
      <4>1. /\ zip' \in ZipDownload /\ zip'.at = zip'.upto
            /\ zip'.error = zip.error /\ zip'.finishedEntry = zip.finishedEntry
        <5>1. zip' = Over(z)
          BY <3>1, <3>5
        <5> QED BY <3>2, <5>1, OverFacts
      <4>2. zip'.at <= zip'.upto
        BY <4>1, FieldFacts
      <4> HIDE DEF z
      <4> QED BY <1>1, <3>5, <4>1, <4>2, LoadingFacts DEF ReaderOK, Fits, Entry
    <3>6. CASE ~zip.error /\ ~zip.finishedEntry
      <4>1. zip' = z
        BY <3>1, <3>6
      <4> HIDE DEF z
      <4> QED BY <1>1, <3>2, <3>3, <3>4, <3>6, <4>1, LoadingFacts DEF ReaderOK, Taken, Start
    <3> QED BY <3>5, <3>6
  <2>2. CASE didCompleteWithError
    <3>1. zip' = zip \/ \E e \in {zip.error, TRUE} : zip' = [zip EXCEPT !.error = e]
      BY <2>2 DEF didCompleteWithError
    <3> QED BY <1>1, <3>1, LoadingFacts DEF ZipDownload, ReaderOK, Taken, Start, Fits, Entry
  <2> QED BY <2>1, <2>2
<1> QED BY <1>1, <1>2, LoadingFacts, LoadingKeepsWhole

\* The parts of the header, and the name, fall into the chunks in any way.
LEMMA HeaderKeepsWhole ==
  ASSUME WholeInv, CollectHeader \/ SkipName
  PROVE  WholeInv'
<1> stage = "loading" /\ zip.at < zip.upto
  BY DEF CollectHeader, SkipName, Processing
<1> DEFINE k == preparing
<1>1. UNCHANGED <<offer, file, temporary, preparing, stage>>
  BY DEF CollectHeader, SkipName, Processing
<1>2. zip \in ZipDownload
  BY LoadingFacts
<1>3. ~zip.error /\ ~zip.finishedEntry
  BY <1>2, LoadingFacts, FieldFacts DEF ReaderOK
<1>4. zip' \in ZipDownload /\ ReaderOK(k)'
  <2>1. CASE CollectHeader
    <3> DEFINE count == Given(HeaderSize - zip.headerData)
               z == [zip EXCEPT !.at = @ + count, !.headerData = @ + count]
    <3>1. /\ zip.headerData < HeaderSize /\ zip.headerData = zip.at /\ ~zip.headerRead
          /\ zip.pending = 0 /\ temporary[k] = Units(0, 0)
      BY <1>3, <2>1, LoadingFacts DEF ReaderOK, CollectHeader
    <3>2. count \in Nat /\ zip.at + count <= zip.upto /\ zip.headerData + count <= HeaderSize
      <4>1. HeaderSize - zip.headerData \in Nat
        BY <1>2, <3>1, SizeFacts, FieldFacts
      <4>2. zip.at <= zip.upto
        BY <1>2, FieldFacts
      <4>3. count \in Nat /\ count <= HeaderSize - zip.headerData /\ zip.at + count <= zip.upto
        BY <1>2, <4>1, <4>2, GivenFacts
      <4> HIDE DEF count
      <4> QED BY <1>2, <4>3, SizeFacts, FieldFacts
    <3>3. /\ z \in ZipDownload
          /\ z.at = zip.at + count /\ z.headerData = z.at /\ z.upto = zip.upto
          /\ ~z.error /\ ~z.finishedEntry /\ ~z.headerRead /\ z.pending = 0
      <4> HIDE DEF count
      <4>1. zip.at + count \in Nat /\ zip.headerData + count \in 0 .. HeaderSize
        BY <1>2, <3>2, SizeFacts, FieldFacts
      <4>2. z \in ZipDownload /\ z.at = zip.at + count /\ z.headerData = zip.headerData + count
        BY ONLY <1>2, <3>2, <4>1 DEF ZipDownload
      <4>3. /\ z.upto = zip.upto /\ z.error = zip.error /\ z.pending = zip.pending
            /\ z.finishedEntry = zip.finishedEntry /\ z.headerRead = zip.headerRead
        BY ONLY <1>2 DEF ZipDownload
      <4> HIDE DEF z
      <4> QED BY <1>3, <3>1, <4>2, <4>3
    <3>4. zip' = IF z.headerData = HeaderSize THEN readHeader(z) ELSE z
      BY <2>1 DEF CollectHeader
    <3> HIDE DEF z, count
    <3>6. CASE z.headerData # HeaderSize
      <4>1. zip' = z /\ z.headerData < HeaderSize
        BY <3>3, <3>4, <3>6, SizeFacts, FieldFacts
      <4> QED BY <1>1, <3>1, <3>2, <3>3, <4>1 DEF ReaderOK
    <3>7. CASE z.headerData = HeaderSize /\ ~offer[k].readable
      <4>1. zip' = Fails(z)
        BY <3>4, <3>7 DEF readHeader
      <4>2. zip' \in ZipDownload /\ zip'.at = zip'.upto /\ zip'.error /\ ~zip'.finishedEntry
        BY <3>3, <4>1, OverFacts
      <4>3. zip'.at <= zip'.upto
        BY <4>2, FieldFacts
      <4> QED BY <4>2, <4>3 DEF ReaderOK
    <3>8. CASE z.headerData = HeaderSize /\ offer[k].readable
      <4> DEFINE size == IF offer[k].stored THEN Least(offer[k].size, MaxSize) ELSE 0
      <4>1. zip' = [z EXCEPT !.headerRead = TRUE, !.bytesToSkip = offer[k].name,
                             !.remaining = size]
        BY <3>4, <3>8 DEF readHeader
      <4>2. size \in Nat /\ offer[k].name \in Nat
        BY LoadingFacts, SizeFacts DEF Least
      <4>3. /\ zip' \in ZipDownload /\ zip'.at = z.at /\ zip'.upto = z.upto
            /\ ~zip'.error /\ ~zip'.finishedEntry /\ zip'.headerRead
            /\ zip'.bytesToSkip = offer[k].name /\ zip'.remaining = size
            /\ zip'.pending = z.pending
        <5> HIDE DEF size
        <5> QED BY ONLY <3>3, <4>1, <4>2 DEF ZipDownload
      <4>4. z.at = HeaderSize
        BY <3>3, <3>8
      <4>5. Taken(k)' = 0
        BY <1>1, <4>2, <4>3, <4>4, SizeFacts DEF Taken, Start
      <4>6. offer[k].stored => size = Least(offer[k].size, MaxSize)
        OBVIOUS
      <4>7. offer[k].size \in Nat
        BY LoadingFacts
      <4> HIDE DEF size
      <4> QED BY <1>1, <3>1, <3>2, <3>3, <4>2, <4>3, <4>5, <4>6, <4>7 DEF ReaderOK
    <3> QED BY <3>6, <3>7, <3>8
  <2>2. CASE SkipName
    <3> DEFINE count == Given(zip.bytesToSkip)
    <3>1. count \in Nat /\ zip.at + count <= zip.upto /\ count <= zip.bytesToSkip
      BY <1>2, FieldFacts, GivenFacts
    <3>2. /\ zip' = [zip EXCEPT !.at = @ + count, !.bytesToSkip = @ - count]
          /\ zip.headerRead /\ zip.bytesToSkip > 0
      BY <2>2 DEF SkipName
    <3> HIDE DEF count
    <3>3. zip.at + count \in Nat /\ zip.bytesToSkip - count \in Nat
      BY <1>2, <3>1, FieldFacts
    <3>4. /\ zip' \in ZipDownload /\ zip'.at = zip.at + count /\ zip'.upto = zip.upto
          /\ zip'.bytesToSkip = zip.bytesToSkip - count
          /\ zip'.error = zip.error /\ zip'.finishedEntry = zip.finishedEntry
          /\ zip'.headerRead = zip.headerRead /\ zip'.remaining = zip.remaining
          /\ zip'.pending = zip.pending
      <4>1. /\ zip' \in ZipDownload /\ zip'.at = zip.at + count
            /\ zip'.bytesToSkip = zip.bytesToSkip - count
        BY ONLY <1>2, <3>1, <3>2, <3>3 DEF ZipDownload
      <4>2. /\ zip'.upto = zip.upto /\ zip'.error = zip.error /\ zip'.pending = zip.pending
            /\ zip'.finishedEntry = zip.finishedEntry /\ zip'.headerRead = zip.headerRead
            /\ zip'.remaining = zip.remaining
        BY ONLY <1>2, <3>2 DEF ZipDownload
      <4> QED BY <4>1, <4>2
    <3>5. Taken(k)' = Taken(k) /\ Taken(k) = 0
      <4>1. Taken(k) = 0
        BY <1>3, <3>2, LoadingFacts DEF ReaderOK
      <4> QED BY SMTT(30), <1>1, <1>2, <3>1, <3>4, <4>1, FieldFacts, LoadingFacts DEF Taken, Start
    <3> QED BY <1>1, <1>2, <1>3, <3>1, <3>2, <3>3, <3>4, <3>5, FieldFacts, LoadingFacts
            DEF ReaderOK
  <2> QED BY <2>1, <2>2
<1> QED BY <1>1, <1>4, LoadingFacts, LoadingKeepsWhole

\* The units of a stored entry are copied in their order, up to what the size field says.
LEMMA CopyKeepsWhole ==
  ASSUME WholeInv, CopyStored
  PROVE  WholeInv'
<1> stage = "loading" /\ zip.at < zip.upto
  BY DEF CopyStored, Processing
<1> DEFINE k == preparing
           taken == Taken(k)
           count == Given(zip.remaining)
           z == [zip EXCEPT !.at = @ + count, !.remaining = @ - count]
<1>1. /\ UNCHANGED <<offer, file, preparing, stage>>
      /\ zip.headerRead /\ zip.bytesToSkip = 0 /\ offer[k].stored
      /\ temporary' = [temporary EXCEPT ![k] = @ \o Units(zip.at - Start(k), count)]
      /\ zip' = IF z.remaining = 0 THEN FinishesEntry(z) ELSE z
  BY DEF CopyStored, Processing, writeData
<1>2. zip \in ZipDownload
  BY LoadingFacts
<1>3. ~zip.error /\ ~zip.finishedEntry
  BY <1>2, LoadingFacts, FieldFacts DEF ReaderOK
<1>4. /\ taken \in Nat /\ zip.at - Start(k) = taken
      /\ zip.remaining + taken = Least(offer[k].size, MaxSize)
      /\ temporary[k] = Units(0, taken)
  BY <1>1, <1>2, <1>3, LoadingFacts, FieldFacts DEF ReaderOK, Taken
<1>5. count \in Nat /\ zip.at + count <= zip.upto /\ count <= zip.remaining
  BY <1>2, FieldFacts, GivenFacts
<1> HIDE DEF count
<1>6. /\ temporary' = [temporary EXCEPT ![k] = Units(0, taken + count)]
      /\ Units(0, taken + count) \in Seq(Nat)
      /\ temporary'[k] = Units(0, taken + count)
  <2> HIDE DEF taken
  <2> taken + count \in Nat
    BY <1>4, <1>5
  <2>1. Units(0, taken) \o Units(taken, count) = Units(0, taken + count)
    BY <1>4, <1>5, UnitsFacts
  <2>2. Units(0, taken + count) \in Seq(Nat)
    BY <1>4, <1>5, UnitsFacts
  <2> QED BY <1>1, <1>4, <2>1, <2>2, LoadingFacts DEF WholeInv
<1>7. zip.at + count \in Nat /\ zip.remaining - count \in Nat
  BY <1>2, <1>5, FieldFacts
<1>8. /\ z \in ZipDownload /\ z.at = zip.at + count /\ z.upto = zip.upto
      /\ z.remaining = zip.remaining - count /\ z.bytesToSkip = 0
      /\ ~z.error /\ ~z.finishedEntry /\ z.headerRead
  <2>1. /\ z \in ZipDownload /\ z.at = zip.at + count
        /\ z.remaining = zip.remaining - count
    BY ONLY <1>2, <1>5, <1>7 DEF ZipDownload
  <2>2. /\ z.upto = zip.upto /\ z.error = zip.error /\ z.bytesToSkip = zip.bytesToSkip
        /\ z.finishedEntry = zip.finishedEntry /\ z.headerRead = zip.headerRead
    BY ONLY <1>2 DEF ZipDownload
  <2> HIDE DEF z
  <2> QED BY <1>1, <1>3, <2>1, <2>2
<1> HIDE DEF z
<1>9. zip' \in ZipDownload /\ ReaderOK(k)'
  <2>1. CASE z.remaining # 0
    <3>1. zip' = z
      BY <1>1, <2>1
    <3>2. Taken(k)' = taken + count
      <4>1. Start(k)' = Start(k) /\ Start(k) \in Nat
        BY <1>1, LoadingFacts DEF Start
      <4>2. zip'.at = zip.at + count /\ zip'.bytesToSkip = 0
        BY <1>8, <3>1
      <4>3. Taken(k)' = zip'.at + zip'.bytesToSkip - Start(k)
        BY <1>1, <4>1 DEF Taken
      <4> HIDE DEF taken
      <4> QED BY <1>2, <1>4, <1>5, <4>1, <4>2, <4>3, FieldFacts
    <3>3. zip'.remaining + (taken + count) = Least(offer[k].size, MaxSize)
      BY <1>2, <1>4, <1>5, <1>8, <3>1, FieldFacts
    <3>4. taken + count \in Nat
      BY <1>4, <1>5
    <3> HIDE DEF taken
    <3> QED BY <1>1, <1>5, <1>6, <1>8, <3>1, <3>2, <3>3, <3>4 DEF ReaderOK
  <2>2. CASE z.remaining = 0
    <3>1. Fits(k) => Units(0, taken + count) = Entry(k)
      <4>1. taken + count = Least(offer[k].size, MaxSize)
        BY <1>2, <1>4, <1>5, <1>8, <2>2, FieldFacts
      <4>2. Fits(k) => Least(offer[k].size, MaxSize) = offer[k].size
        BY <1>1, LoadingFacts, SizeFacts DEF Fits, Least
      <4>3. Entry(k) = Units(0, offer[k].size)
        BY LoadingFacts, EntryFacts DEF WholeInv
      <4> QED BY <4>1, <4>2, <4>3
    <3>2. zip' \in ZipDownload /\ zip'.at = zip'.upto /\ zip'.finishedEntry
      BY <1>1, <1>8, <2>2, OverFacts
    <3>3. zip'.at <= zip'.upto
      BY <3>2, FieldFacts
    <3>4. Fits(k)' => temporary'[k] = Entry(k)'
      BY <1>1, <1>6, <3>1 DEF Fits, Entry
    <3> QED BY <1>1, <3>2, <3>3, <3>4 DEF ReaderOK
  <2> QED BY <2>1, <2>2
<1> QED BY <1>1, <1>6, <1>9, LoadingKeepsWhole

\* What is inflated is written in its order, and the end is reached when all of it is.
LEMMA InflateKeepsWhole ==
  ASSUME WholeInv, InflateBytes
  PROVE  WholeInv'
<1> stage = "loading" /\ zip.at < zip.upto
  BY DEF InflateBytes, Processing
<1> DEFINE k == preparing
           taken == Taken(k)
           available == Given(End(k) - zip.at)
           NewFile(produced) ==
             [temporary EXCEPT ![k] = @ \o Units(zip.at - Start(k) - zip.pending, produced)]
           Moved(count, produced) ==
             [zip EXCEPT !.at = @ + count, !.pending = @ + count - produced]
           Result(z) ==
             IF offer[k].damaged /\ z.at = End(k) THEN Fails(z)
             ELSE IF z.at = End(k) /\ z.pending = 0 THEN FinishesEntry(z)
             ELSE z
<1>1. /\ UNCHANGED <<offer, file, preparing, stage>>
      /\ zip.headerRead /\ zip.bytesToSkip = 0 /\ ~offer[k].stored
  BY DEF InflateBytes, Processing
<1>2. zip \in ZipDownload
  BY LoadingFacts
<1>3. ~zip.error /\ ~zip.finishedEntry
  BY <1>2, LoadingFacts, FieldFacts DEF ReaderOK
<1>4. /\ taken \in Nat /\ zip.at - Start(k) = taken /\ taken <= offer[k].size
      /\ zip.pending \in 0 .. taken /\ End(k) - zip.at = offer[k].size - taken
      /\ temporary[k] = Units(0, taken - zip.pending)
  <2>1. /\ Taken(k) \in Nat /\ Taken(k) <= offer[k].size /\ zip.pending \in 0 .. Taken(k)
        /\ temporary[k] = Units(0, Taken(k) - zip.pending)
    BY <1>1, <1>3, LoadingFacts DEF ReaderOK
  <2>2. Taken(k) = zip.at + 0 - Start(k)
    BY <1>1 DEF Taken
  <2>3. Start(k) \in Nat /\ End(k) = Start(k) + offer[k].size /\ offer[k].size \in Nat
    BY LoadingFacts
  <2> QED BY <1>2, <2>1, <2>2, <2>3, FieldFacts
<1>5. PICK count \in 0 .. available : \E produced \in 0 .. zip.pending + count :
        temporary' = NewFile(produced) /\ zip' = Result(Moved(count, produced))
  BY DEF InflateBytes, writeData
<1>14. PICK produced \in 0 .. zip.pending + count :
         temporary' = NewFile(produced) /\ zip' = Result(Moved(count, produced))
  BY <1>5
<1>6. available \in Nat /\ zip.at + available <= zip.upto /\ taken + available <= offer[k].size
  <2>1. End(k) - zip.at \in Nat /\ offer[k].size \in Nat /\ zip.at <= zip.upto
    <3>1. offer[k].size \in Nat
      BY LoadingFacts
    <3> HIDE DEF taken
    <3> QED BY <1>2, <1>4, <3>1, FieldFacts
  <2>2. /\ available \in Nat /\ available <= End(k) - zip.at
        /\ zip.at + available <= zip.upto
    BY <1>2, <2>1, GivenFacts
  <2> HIDE DEF available, taken
  <2> QED BY <1>4, <2>1, <2>2
<1> DEFINE z == Moved(count, produced)
           out == taken - zip.pending + produced
<1> HIDE DEF available
<1>7. /\ zip.pending \in Nat /\ count \in Nat /\ produced \in Nat /\ out \in Nat
      /\ produced <= zip.pending + count /\ count <= available
  <2> HIDE DEF taken
  <2> QED BY <1>4, <1>5, <1>6, <1>14
<1>8. /\ temporary' = [temporary EXCEPT ![k] = Units(0, out)]
      /\ Units(0, out) \in Seq(Nat)
      /\ temporary'[k] = Units(0, out)
  <2> DEFINE from == taken - zip.pending
  <2>1. from \in Nat /\ out = from + produced
    BY <1>4
  <2>2. Units(0, from) \o Units(from, produced) = Units(0, from + produced)
    <3> HIDE DEF from
    <3> QED BY <1>7, <2>1, UnitsFacts
  <2>3. Units(0, out) \in Seq(Nat)
    <3> HIDE DEF out
    <3> QED BY <1>7, UnitsFacts
  <2> QED BY <1>4, <1>14, <2>2, <2>3, LoadingFacts DEF WholeInv
<1>9. zip.at + count \in Nat /\ zip.pending + count - produced \in Nat
  BY <1>2, <1>7, FieldFacts
<1>10. /\ z \in ZipDownload /\ z.at = zip.at + count /\ z.upto = zip.upto
       /\ z.pending = zip.pending + count - produced /\ z.bytesToSkip = 0
       /\ ~z.error /\ ~z.finishedEntry /\ z.headerRead
  <2>1. /\ z \in ZipDownload /\ z.at = zip.at + count
        /\ z.pending = zip.pending + count - produced
    BY ONLY <1>2, <1>7, <1>9 DEF ZipDownload
  <2>2. /\ z.upto = zip.upto /\ z.error = zip.error /\ z.bytesToSkip = zip.bytesToSkip
        /\ z.finishedEntry = zip.finishedEntry /\ z.headerRead = zip.headerRead
    BY ONLY <1>2 DEF ZipDownload
  <2> HIDE DEF z
  <2> QED BY <1>1, <1>3, <2>1, <2>2
<1>11. \/ zip' = z \/ zip' = Fails(z)
       \/ zip' = FinishesEntry(z) /\ z.at = End(k) /\ z.pending = 0
  BY <1>14
<1> HIDE DEF z
<1>12. z.at <= z.upto
  BY <1>2, <1>6, <1>7, <1>10, FieldFacts
<1>13. zip' \in ZipDownload /\ ReaderOK(k)'
  <2>1. CASE zip' = z
    <3>1. Taken(k)' = taken + count
      <4>1. Start(k)' = Start(k) /\ Start(k) \in Nat
        BY <1>1, LoadingFacts DEF Start
      <4>2. zip'.at = zip.at + count /\ zip'.bytesToSkip = 0
        BY <1>10, <2>1
      <4>3. Taken(k)' = zip'.at + zip'.bytesToSkip - Start(k)
        BY <1>1, <4>1 DEF Taken
      <4> HIDE DEF taken
      <4> QED BY <1>2, <1>4, <1>7, <4>1, <4>2, <4>3, FieldFacts
    <3>2. taken + count \in Nat /\ taken + count <= offer[k].size
      <4>1. /\ taken \in Nat /\ count \in Nat /\ count <= available
            /\ taken + available <= offer[k].size
        BY <1>4, <1>6, <1>7
      <4>2. available \in Nat /\ offer[k].size \in Nat
        BY <1>6, LoadingFacts
      <4> HIDE DEF taken
      <4> QED BY ONLY <4>1, <4>2
    <3>3. zip'.pending \in 0 .. (taken + count) /\ taken + count - zip'.pending = out
      <4> HIDE DEF taken
      <4> QED BY <1>4, <1>7, <1>10, <2>1
    <3>4. offer'[k].size = offer[k].size /\ ~offer'[k].stored
      BY <1>1
    <3>5. zip'.at <= zip'.upto /\ ~zip'.error /\ ~zip'.finishedEntry /\ zip'.headerRead
      BY <1>10, <1>12, <2>1
    <3>6. zip'.bytesToSkip = 0 /\ zip' \in ZipDownload
      BY <1>10, <2>1
    <3>7. /\ Taken(k)' \in Nat /\ Taken(k)' <= offer'[k].size
          /\ zip'.pending \in 0 .. Taken(k)' /\ temporary'[k] = Units(0, Taken(k)' - zip'.pending)
      <4>1. Taken(k)' - zip'.pending = out
        <5>1. taken \in Nat /\ count \in Nat /\ zip'.pending \in Nat /\ out \in Nat
          BY <1>4, <1>7, <3>3
        <5> HIDE DEF taken, out
        <5> QED BY <3>1, <3>3, <5>1
      <4>2. /\ Taken(k)' \in Nat /\ Taken(k)' <= offer'[k].size
            /\ zip'.pending \in 0 .. Taken(k)'
        <5> HIDE DEF taken
        <5> QED BY <3>1, <3>2, <3>3, <3>4
      <4>3. temporary'[k] = Units(0, Taken(k)' - zip'.pending)
        BY <1>8, <4>1
      <4> QED BY <4>2, <4>3
    <3> QED BY ONLY <1>1, <3>4, <3>5, <3>6, <3>7 DEF ReaderOK
  <2>2. CASE zip' = Fails(z)
    <3>1. zip' \in ZipDownload /\ zip'.at = zip'.upto /\ zip'.error /\ ~zip'.finishedEntry
      BY <1>10, <2>2, OverFacts
    <3>2. zip'.at <= zip'.upto
      BY <3>1, FieldFacts
    <3> QED BY <3>1, <3>2 DEF ReaderOK
  <2>3. CASE zip' = FinishesEntry(z) /\ z.at = End(k) /\ z.pending = 0
    <3>1. Units(0, out) = Entry(k)
      <4>1. out = offer[k].size
        <5>1. Start(k) \in Nat /\ End(k) = Start(k) + offer[k].size /\ offer[k].size \in Nat
          BY LoadingFacts
        <5> HIDE DEF taken
        <5> QED BY <1>2, <1>4, <1>7, <1>10, <2>3, <5>1, FieldFacts
      <4>2. Entry(k) = Units(0, offer[k].size)
        BY LoadingFacts, EntryFacts DEF WholeInv
      <4> QED BY <4>1, <4>2
    <3>2. zip' \in ZipDownload /\ zip'.at = zip'.upto /\ zip'.finishedEntry
      BY <1>10, <2>3, OverFacts
    <3>3. zip'.at <= zip'.upto
      BY <3>2, FieldFacts
    <3>4. temporary'[k] = Entry(k)'
      BY <1>1, <1>8, <3>1 DEF Entry
    <3> QED BY <1>1, <3>2, <3>3, <3>4 DEF ReaderOK
  <2> QED BY <1>11, <2>1, <2>2, <2>3
<1> QED BY <1>1, <1>8, <1>13, LoadingKeepsWhole
-----------------------------------------------------------------------------
\* The invariant holds at a launch, and every step of the application keeps it.
LEMMA WholeInvInductive ==
  /\ LaunchInit => WholeInv
  /\ WholeInv /\ [LaunchNext]_launchVars => WholeInv'
<1>1. LaunchInit => WholeInv
  <2> SUFFICES ASSUME ResourcesInit PROVE WholeInv
    BY DEF LaunchInit
  <2>1. zip \in ZipDownload
    BY SizeFacts DEF ResourcesInit, NewZip, ZipDownload
  <2>2. \A k \in Kinds : Entry(k) \in Seq(Nat)
    BY EntryFacts DEF ResourcesInit
  <2> QED BY <2>1, <2>2 DEF ResourcesInit, WholeInv, Downloading, Reading, InstalledIsWhole
<1>2. WholeInv /\ [LaunchNext]_launchVars => WholeInv'
  <2> SUFFICES ASSUME WholeInv, [LaunchNext]_launchVars PROVE WholeInv'
    OBVIOUS
  <2>1. \/ activateMainScreen \/ Dismiss \/ ImportFails \/ Main \/ KilledAtAll
        \/ UNCHANGED resources \/ Download
    BY DEF LaunchNext, launchVars, Activate, Prepares, Elsewhere
  <2>2. CASE Download
    BY <2>2, SessionKeepsWhole, ChunksKeepWhole, HeaderKeepsWhole, CopyKeepsWhole,
       InflateKeepsWhole DEF Download, processBytes
  <2> QED BY <2>1, <2>2, DialogsKeepFiles
<1> QED BY <1>1, <1>2

\* Every file that is there is the whole entry, as long as the application runs and over
\* its launches, for archives and chunks of any size.
THEOREM FilesAreWhole == LaunchSpec => []InstalledIsWhole
<1>1. WholeInv => InstalledIsWhole
  BY DEF WholeInv
<1> QED BY <1>1, WholeInvInductive, PTL DEF LaunchSpec, LaunchFairness
-----------------------------------------------------------------------------
\* The flags and the screen.
Dialogs == {"progress", "missing", "alert"}
Stages == {"none", "present", "missing", "refused", "run", "response", "loading",
           "completed", "remove", "move", "succeeded", "failed"}

FlagsOK ==
  /\ defaults \subseteq Kinds
  /\ didPrepare \in BOOLEAN /\ preparationActive \in BOOLEAN /\ busy \in BOOLEAN
  /\ activationInProgress = preparationActive
  /\ busy => preparationActive
  /\ preparing \in Kinds \cup {"none"}
  /\ stage \in Stages
  /\ presented \in Seq(Dialogs)

\* What a stage that begins, or the end, makes of the flags.
Flags(d, p) ==
  /\ d \subseteq Kinds /\ p \in Seq(Dialogs)
  /\ preparationActive' \in BOOLEAN /\ busy' \in BOOLEAN
  /\ activationInProgress' = preparationActive' /\ (busy' => preparationActive')
  /\ preparing' \in Kinds \cup {"none"} /\ stage' \in Stages

\* The next stage, or the end, leaves the flags as they should be.
LEMMA StagesKeepFlags ==
  ASSUME NEW d, d \subseteq Kinds, NEW p \in Seq(Dialogs), completion(d, p) \/ prepareROM(d, p)
  PROVE  Flags(defaults', presented')
<1> USE DEF Flags, Stages, Kinds
<1>1. ASSUME NEW q \in Seq(Dialogs), Finish(q), defaults' \subseteq Kinds
      PROVE  Flags(defaults', presented')
  BY <1>1 DEF Finish
<1>2. ASSUME NEW k \in Kinds, NEW q \in Seq(Dialogs), PresentDialog(k, q),
             defaults' \subseteq Kinds
      PROVE  Flags(defaults', presented')
  <2>1. <<"progress">> \in Seq(Dialogs) /\ <<"missing">> \in Seq(Dialogs)
    BY DEF Dialogs
  <2> QED BY <1>2, <2>1 DEF PresentDialog
<1>3. ASSUME NEW q \in Seq(Dialogs) PROVE showAlert(q) \in Seq(Dialogs)
  BY <1>3 DEF showAlert, Dialogs
<1>4. ASSUME NEW e, e \subseteq Kinds, NEW k \in Kinds
      PROVE  configureExistingResource(k, e) \subseteq Kinds
  BY <1>4 DEF configureExistingResource
<1>5. ASSUME NEW e, e \subseteq Kinds, NEW q \in Seq(Dialogs), prepareDisk(e, q)
      PROVE  Flags(defaults', presented')
  <2>1. defaults' \subseteq Kinds
    BY <1>4, <1>5 DEF prepareDisk
  <2>2. Finish(q) \/ Finish(showAlert(q)) \/ PresentDialog("disk", q)
    BY <1>5 DEF prepareDisk
  <2> QED BY <1>1, <1>2, <1>3, <2>1, <2>2
<1>6. CASE prepareROM(d, p)
  <2> DEFINE e == configureExistingResource("rom", d)
  <2>1. e \subseteq Kinds
    BY <1>4
  <2>2. \/ prepareDisk(e, p) \/ prepareDisk(e, showAlert(p))
        \/ defaults' = e /\ PresentDialog("rom", p)
    BY <1>6 DEF prepareROM
  <2> HIDE DEF e
  <2> QED BY <1>2, <1>3, <1>5, <2>1, <2>2
<1>7. CASE completion(d, p)
  BY <1>1, <1>5, <1>7 DEF completion
<1> QED BY <1>6, <1>7

\* The types, and the gate of the activation that is shut just as long as the preparation
\* goes on.
THEOREM LaunchTypes == LaunchSpec => []LaunchTypeOK
<1>1. LaunchInit => FlagsOK
  <2> SUFFICES ASSUME ResourcesInit PROVE FlagsOK
    BY DEF LaunchInit
  <2>1. defaults \subseteq Kinds /\ didPrepare \in BOOLEAN
    BY DEF ResourcesInit
  <2>2. presented \in Seq(Dialogs)
    BY DEF ResourcesInit
  <2>3. /\ preparationActive = FALSE /\ busy = FALSE /\ activationInProgress = FALSE
        /\ preparing = "none" /\ stage = "none"
    BY DEF ResourcesInit
  <2> QED BY <2>1, <2>2, <2>3 DEF FlagsOK, Stages
<1>2. FlagsOK /\ WholeInv /\ [LaunchNext]_launchVars => FlagsOK'
  <2> SUFFICES ASSUME FlagsOK, WholeInv, [LaunchNext]_launchVars PROVE FlagsOK'
    OBVIOUS
  <2>1. \/ activateMainScreen \/ Dismiss \/ ImportFails \/ Presented \/ Downloaded
        \/ KilledAtAll \/ UNCHANGED resources \/ Download
    BY DEF LaunchNext, launchVars, Activate, Prepares, Elsewhere, Main
  <2>2. SubSeq(presented, 1, Len(presented) - 1) \in Seq(Dialogs)
    <3>1. presented \in Seq(Dialogs) /\ Len(presented) \in Nat
      BY DEF FlagsOK
    <3>2. \A i \in 1 .. Len(presented) - 1 : i \in 1 .. Len(presented)
      BY <3>1
    <3>3. CASE Len(presented) = 0
      BY <3>1, <3>3
    <3>4. CASE Len(presented) > 0
      BY <3>1, <3>2, <3>4
    <3> QED BY <3>1, <3>3, <3>4
  <2>3. ASSUME NEW p \in Seq(Dialogs) PROVE showAlert(p) \in Seq(Dialogs)
    BY <2>3 DEF showAlert, Dialogs
  <2>4. Flags(defaults', presented') /\ didPrepare' \in BOOLEAN => FlagsOK'
    BY DEF Flags, FlagsOK
  <2>5. CASE activateMainScreen
    <3>1. CASE prepareROM(defaults, presented)
      BY <2>4, <2>5, <3>1, StagesKeepFlags DEF activateMainScreen, FlagsOK
    <3>2. CASE UNCHANGED <<defaults, preparationActive, busy, activationInProgress, preparing,
                           stage, presented>>
      BY <2>5, <3>2 DEF activateMainScreen, FlagsOK
    <3>3. ~preparationActive /\ ~busy
      BY <2>5 DEF activateMainScreen, FlagsOK
    <3> QED BY <2>5, <3>1, <3>2, <3>3 DEF activateMainScreen
  <2>6. CASE Dismiss
    <3>1. CASE completion(defaults, SubSeq(presented, 1, Len(presented) - 1))
      BY <2>2, <2>4, <2>6, <3>1, StagesKeepFlags DEF Dismiss, FlagsOK, flags
    <3>2. CASE UNCHANGED <<onDisk, flags, preparing, stage>>
               /\ presented' = SubSeq(presented, 1, Len(presented) - 1)
      BY <2>2, <2>6, <3>2 DEF Dismiss, FlagsOK, flags, onDisk
    <3> QED BY <2>6, <3>1, <3>2 DEF Dismiss
  <2>7. CASE ImportFails
    BY <2>3, <2>7 DEF ImportFails, FlagsOK, flags, onDisk
  <2>8. CASE Presented
    BY <2>8 DEF Presented, FlagsOK, flags, onDisk, Stages
  <2>9. CASE Downloaded
    <3> DEFINE rest == SubSeq(presented, 1, Len(presented) - 1)
    <3>1. preparing \in Kinds /\ didPrepare' \in BOOLEAN
      BY <2>9 DEF Downloaded, FlagsOK, WholeInv, Downloading
    <3>2. completion(defaults \cup {preparing}, rest) \/ completion(defaults, showAlert(rest))
      BY <2>9 DEF Downloaded
    <3>3. defaults \subseteq Kinds /\ defaults \cup {preparing} \subseteq Kinds
      BY <3>1 DEF FlagsOK
    <3> HIDE DEF rest
    <3>4. rest \in Seq(Dialogs) /\ showAlert(rest) \in Seq(Dialogs)
      BY <2>2, <2>3 DEF rest
    <3> QED BY <2>4, <3>1, <3>2, <3>3, <3>4, StagesKeepFlags
  <2>10. CASE KilledAtAll
    <3>1. didPrepare' \in BOOLEAN /\ defaults' = defaults
      BY <2>10 DEF KilledAtAll, onDisk, allRequiredResourcesConfigured
    <3>2. presented' \in Seq(Dialogs)
      BY <2>10 DEF KilledAtAll
    <3>3. /\ preparationActive' = FALSE /\ busy' = FALSE /\ activationInProgress' = FALSE
          /\ preparing' = "none" /\ stage' = "none"
      BY <2>10 DEF KilledAtAll
    <3> QED BY <3>1, <3>2, <3>3 DEF FlagsOK, Stages
  <2>11. CASE UNCHANGED resources
    BY <2>11 DEF resources, FlagsOK, onDisk, flags
  <2>12. CASE Download
    <3>1. UNCHANGED <<defaults, flags, preparing, presented>> /\ stage' \in {stage} \cup Stages
      <4>1. CASE processBytes
        BY <4>1 DEF processBytes, CollectHeader, SkipName, CopyStored, InflateBytes, Processing
      <4>2. CASE didReceiveData
        BY <4>2 DEF didReceiveData, onDisk
      <4>3. CASE StartSession \/ EndSession \/ RemoveOld \/ Install \/ didReceiveResponse
                   \/ didCompleteWithError
        BY <4>3 DEF StartSession, EndSession, RemoveOld, Install, didReceiveResponse,
           didCompleteWithError, Goes, Stages
      <4> QED BY <2>12, <4>1, <4>2, <4>3 DEF Download
    <3> QED BY <3>1 DEF FlagsOK, flags
  <2> QED BY <2>1, <2>5, <2>6, <2>7, <2>8, <2>9, <2>10, <2>11, <2>12
<1>3. FlagsOK /\ WholeInv => ResourcesTypeOK
  BY DEF FlagsOK, WholeInv, ResourcesTypeOK, Stages, Dialogs
<1>4. VolumesTypeOK /\ ResourcesTypeOK => LaunchTypeOK
  BY DEF LaunchTypeOK
<1> QED BY <1>1, <1>2, <1>3, <1>4, WholeInvInductive, LaunchImplementsVolumes, VolumesTypes,
        PTL DEF LaunchSpec, LaunchFairness
=============================================================================
