---------------------------- MODULE BlobDownload ----------------------------
(***************************************************************************)
(* One blob on its way to a device: the backend looks up its size, parses  *)
(* the Range header and streams the bytes; the device keeps what arrived   *)
(* in a .part file, resumes from its length after a dropped connection or  *)
(* the end of the app, compares the hash, decrypts, unpacks, and renames   *)
(* the file into place.                                                    *)
(*                                                                         *)
(* Abstracted: a byte is its place in the blob when it is the blob's, and  *)
(* 0 when it is not; the token, the pins and the hash of the plaintext are *)
(* left to the other modules.                                              *)
(***************************************************************************)
EXTENDS Integers, Sequences

CONSTANTS
  Sizes,      \* signed sizes of the blob looked at
  MaxDrops,  \* bound: dropped connections, and answers of something other than the backend
  MaxKills,   \* bound: ends of the app
  NoBytes

ASSUME SizesAssumption == Sizes \subseteq Nat
ASSUME DlBoundAssumption == MaxDrops \in Nat /\ MaxKills \in Nat
ASSUME NoneAssumption == NoBytes \notin Nat \cup Seq(Nat)

VARIABLES
  size,      \* the size the manifest signs
  served,    \* the bytes the backend has under the blob's name
  part,      \* the .part file, or NoBytes
  attempt,   \* where the device's attempt is
  rest,      \* bytes that are still to come
  plain,     \* the decrypted file, or NoBytes
  out,       \* the file in its place in the staging directory, or NoBytes
  fetched,   \* bytes received, counted until spoiled
  spoiled,   \* the backend served wrong bytes, a Range was ignored, or work was lost with the app
  drops,
  kills

dlVars == <<size, served, part, attempt, rest, plain, out, fetched, spoiled, drops, kills>>

Whole == [i \in 1..size |-> i]

\* What the backend may hold: the blob, a part of it, or other bytes.
Held(n) == {[i \in 1..n |-> i], [i \in 1..(n + 1) |-> 0], [i \in 1..n |-> 0], SubSeq([i \in 1..n |-> i], 1, n - 1)}

NoAttempt == [step |-> "idle", first |-> 0, size |-> 0, append |-> FALSE]

DlInit ==
  /\ size \in Sizes
  /\ served \in Held(size)
  /\ part = NoBytes /\ plain = NoBytes /\ out = NoBytes
  /\ attempt = NoAttempt
  /\ rest = <<>>
  /\ fetched = 0 /\ spoiled = (served # Whole)
  /\ drops = 0 /\ kills = 0

-----------------------------------------------------------------------------
(* The Range header *)

Blank == -1
All == [start |-> -1, end |-> -1]
Unsatisfiable == [start |-> -2, end |-> -2]

\* parseRange: "bytes=first-last" against an object of n bytes; no range, or several, asks for all of it.
ParseRange(first, last, n) ==
  IF first = Blank /\ last = Blank THEN All
  ELSE IF first = Blank THEN IF last <= 0 THEN Unsatisfiable
                             ELSE [start |-> IF n > last THEN n - last ELSE 0, end |-> n - 1]
  ELSE LET end == IF last = Blank \/ last > n - 1 THEN n - 1 ELSE last
       IN  IF first >= n \/ end < first THEN Unsatisfiable ELSE [start |-> first, end |-> end]

-----------------------------------------------------------------------------
(* One attempt *)

At(step) == attempt.step = step

Fails == attempt' = NoAttempt /\ rest' = <<>>

\* downloadBlob: what is there is kept unless it is too long; the rest is asked for.  An empty blob is
\* never asked for, so it has no file to look at.
DownloadBlob ==
  /\ At("idle") /\ out = NoBytes
  /\ LET had == IF part = NoBytes THEN 0 ELSE Len(part)
         have == IF had > size THEN 0 ELSE had
     IN  /\ part' = IF had > size THEN NoBytes ELSE part
         /\ attempt' = [NoAttempt EXCEPT !.step = IF have = size THEN "arrived" ELSE "asked", !.first = have]
  /\ UNCHANGED <<size, served, rest, plain, out, fetched, spoiled, drops, kills>>

\* The route looks up the size first.
Stat ==
  /\ At("asked")
  /\ attempt' = [attempt EXCEPT !.step = "sized", !.size = Len(served)]
  /\ UNCHANGED <<size, served, part, rest, plain, out, fetched, spoiled, drops, kills>>

\* What a reader over an inclusive range gives; a file that has become shorter gives what it has.
OpenReadStream(start, end) ==
  SubSeq(served, start + 1, IF end + 1 < Len(served) THEN end + 1 ELSE Len(served))

\* The device takes an answer that has exactly the bytes it lacks; a whole answer starts over.
Takes(code, declared, bytes) ==
  LET have == IF code = 206 THEN attempt.first ELSE 0 IN
  IF declared = size - have
    THEN /\ attempt' = [attempt EXCEPT !.step = "receiving", !.append = (code = 206)]
         /\ rest' = bytes
         /\ part' = IF code = 206 THEN part ELSE <<>>
    ELSE Fails /\ UNCHANGED part

\* The route answers with the range, with all of it, or with 416.
Answer ==
  /\ At("sized")
  /\ LET range == ParseRange(IF attempt.first = 0 THEN Blank ELSE attempt.first, Blank, attempt.size) IN
       CASE range = All -> Takes(200, attempt.size, OpenReadStream(0, attempt.size - 1))
         [] range = Unsatisfiable -> Fails /\ UNCHANGED part
         [] OTHER -> Takes(206, range.end - range.start + 1, OpenReadStream(range.start, range.end))
  /\ UNCHANGED <<size, served, plain, out, fetched, spoiled, drops, kills>>

\* Something between them answers with the whole object, whatever range was asked for.
AnswerWhole ==
  /\ At("sized")
  /\ drops < MaxDrops
  /\ drops' = drops + 1
  /\ spoiled' = TRUE
  /\ Takes(200, Len(served), served)
  /\ UNCHANGED <<size, served, plain, out, fetched, kills>>

\* A chunk is appended to the file.
Receive ==
  /\ At("receiving") /\ rest # <<>>
  /\ part' = Append(part, Head(rest))
  /\ rest' = Tail(rest)
  /\ fetched' = IF spoiled THEN fetched ELSE fetched + 1
  /\ UNCHANGED <<size, served, attempt, plain, out, spoiled, drops, kills>>

\* The stream has ended: whole, or the attempt fails and keeps what it has.
StreamEnds ==
  /\ At("receiving") /\ rest = <<>>
  /\ IF Len(part) = size
       THEN attempt' = [attempt EXCEPT !.step = "arrived"] /\ UNCHANGED rest
       ELSE Fails
  /\ UNCHANGED <<size, served, part, plain, out, fetched, spoiled, drops, kills>>

\* The connection is lost, or the backend answers an error.
Drops ==
  /\ attempt.step \in {"asked", "sized", "receiving"}
  /\ drops < MaxDrops
  /\ drops' = drops + 1
  /\ Fails
  /\ UNCHANGED <<size, served, part, plain, out, fetched, spoiled, kills>>

\* Variant with a bug: a file that does not verify is left for the next attempt.
VerifyKeeping ==
  /\ At("arrived")
  /\ IF part = Whole
       THEN attempt' = [attempt EXCEPT !.step = "verified"] /\ UNCHANGED rest
       ELSE Fails
  /\ UNCHANGED <<size, served, part, plain, out, fetched, spoiled, drops, kills>>

\* The hash of the file is compared with the blob's name; a file that does not verify is deleted.  The
\* hash of a file that is not there fails the attempt.
Verify ==
  /\ At("arrived")
  /\ CASE part = NoBytes -> Fails /\ UNCHANGED part
       [] part = Whole -> attempt' = [attempt EXCEPT !.step = "verified"] /\ UNCHANGED <<part, rest>>
       [] OTHER -> part' = NoBytes /\ Fails
  /\ UNCHANGED <<size, served, plain, out, fetched, spoiled, drops, kills>>

\* Decrypted file to file; what arrived is deleted.
Decrypt ==
  /\ At("verified")
  /\ plain' = part
  /\ part' = NoBytes
  /\ attempt' = [attempt EXCEPT !.step = "decrypted"]
  /\ UNCHANGED <<size, served, rest, out, fetched, spoiled, drops, kills>>

\* Unpacked beside its place, compared, and renamed.
Place ==
  /\ At("decrypted")
  /\ out' = plain
  /\ plain' = NoBytes
  /\ Fails
  /\ UNCHANGED <<size, served, part, fetched, spoiled, drops, kills>>

\* The app ends; its files stay as they are.  What was decrypted is written anew.
AppEnds ==
  /\ ~At("idle")
  /\ kills < MaxKills
  /\ kills' = kills + 1
  /\ spoiled' = (spoiled \/ At("decrypted"))
  /\ Fails
  /\ UNCHANGED <<size, served, part, plain, out, fetched, drops>>

\* The blob is uploaded again, in one rename.
UploadAgain ==
  /\ served # Whole
  /\ served' = Whole
  /\ UNCHANGED <<size, part, attempt, rest, plain, out, fetched, spoiled, drops, kills>>

DlNext ==
  \/ DownloadBlob \/ Stat \/ Answer \/ AnswerWhole \/ Receive \/ StreamEnds \/ Drops
  \/ Verify \/ Decrypt \/ Place \/ AppEnds \/ UploadAgain

\* The app comes back and tries again; an attempt goes on while nothing breaks it.
DlFairness ==
  /\ WF_dlVars(DownloadBlob)
  /\ WF_dlVars(Stat \/ Answer \/ Receive \/ StreamEnds \/ Verify \/ Decrypt \/ Place)

DlSpec == DlInit /\ [][DlNext]_dlVars /\ DlFairness

-----------------------------------------------------------------------------
(* Properties *)

DlTypeOK ==
  /\ size \in Sizes
  /\ served \in Seq(Nat) /\ rest \in Seq(Nat)
  /\ part \in Seq(Nat) \cup {NoBytes} /\ plain \in Seq(Nat) \cup {NoBytes} /\ out \in Seq(Nat) \cup {NoBytes}
  /\ attempt \in [step : {"idle", "asked", "sized", "receiving", "arrived", "verified", "decrypted"},
                  first : Nat, size : Nat, append : BOOLEAN]
  /\ fetched \in Nat /\ spoiled \in BOOLEAN
  /\ drops \in 0..MaxDrops /\ kills \in 0..MaxKills

PlacedIsSigned == out # NoBytes => out = Whole

CostsTheRemainder == ~spoiled => fetched <= size

RangeIsWhatWasAsked ==
  \A first \in Blank..(size + 1), last \in Blank..(size + 1) :
    LET sent == ParseRange(first, last, size)
        bytes == 0..(size - 1)
        wanted == CASE first = Blank /\ last = Blank -> bytes
                   [] first = Blank /\ last # Blank -> {i \in bytes : i >= size - last}
                   [] first # Blank /\ last = Blank -> {i \in bytes : i >= first}
                   [] OTHER -> (first..last) \cap bytes
    IN  size > 0 =>
          CASE sent = All -> wanted = bytes
            [] sent = Unsatisfiable -> wanted = {}
            [] OTHER -> sent.start <= sent.end /\ sent.start..sent.end = wanted

\* Whatever a part file was put together from - ranges of an object that was replaced in between, an
\* answer that ignored the range, a file left by an app that ended - what is put in its place is the
\* signed blob; a dropped connection costs the remainder, not the lot (DashOtaModule.kt:383-386); the
\* range sent is the range asked for (parseRange, http.ts:121-144); and a blob that the backend has
\* arrives (but an empty one never does: it is not asked for, and its file is missed).
BlobArrivesSigned ==
  /\ []PlacedIsSigned /\ []CostsTheRemainder /\ []RangeIsWhatWasAsked
  /\ (served = Whole /\ size > 0) ~> (out # NoBytes)
=============================================================================
