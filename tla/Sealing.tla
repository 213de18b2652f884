------------------------------ MODULE Sealing ------------------------------
(***************************************************************************)
(* From a build's files to the blobs and the manifest of a release, and    *)
(* back: buildReleaseV2 and verifyReleaseV2 of the shared code, and the    *)
(* assembly of a release by the device's native module.                    *)
(*                                                                         *)
(* Data is a sequence: <<"p">> is a file's bytes, <<level>> \o d a zstd    *)
(* frame of d.  A hash is the data itself; sizes, which the hashes imply,  *)
(* are left out.  External: AES-GCM, zstd and SHA-256 do what they say.    *)
(***************************************************************************)
EXTENDS Integers, Sequences

CONSTANTS
  PathOrder,     \* the paths of builds, in order; a path is its segments
  BundlePath,    \* the JavaScript bundle
  Precompressed, \* paths whose extension names a compressed format
  NoKey          \* the content key of a release that is not encrypted

Level == {"bundle-level", "asset-level"}

Refused == <<"refused">>

Paths == {PathOrder[i] : i \in DOMAIN PathOrder}

Before(p, q) == \E i, j \in DOMAIN PathOrder : i < j /\ PathOrder[i] = p /\ PathOrder[j] = q

\* validatePath, and invalidPath on the device.
SafePath(path) == path # <<>> /\ \A i \in DOMAIN path : path[i] \notin {"", ".", ".."}

-----------------------------------------------------------------------------
(* compressForBlob, sealBlob *)

\* What is compressed already does not shrink, and is stored as it is.
CompressForBlob(data, path) ==
  IF path \in Precompressed \/ Head(data) \in Level
    THEN [data |-> data, compression |-> "none"]
    ELSE [data |-> <<IF path = BundlePath THEN "bundle-level" ELSE "asset-level">> \o data,
          compression |-> "zstd"]

\* Variant with a bug: the nonce comes from the file's hash.
DeriveBlobIvFromFile(key, data, sha) == <<key, sha>>

\* The nonce comes from the bytes that are sealed.
DeriveBlobIv(key, data, sha) == <<key, data>>

AesGcmEncrypt(key, iv, data, aad) ==
  [stored |-> [key |-> key, iv |-> iv, data |-> data], tag |-> <<key, iv, data, aad>>]

\* The blob entry of the manifest; its hash is the stored bytes themselves.
SealBlob(c, key, sha) ==
  LET iv == IF key = NoKey THEN <<>> ELSE DeriveBlobIv(key, c.data, sha)
      sealed == AesGcmEncrypt(key, iv, c.data, sha)
  IN  [stored |-> sealed.stored, compression |-> c.compression, iv |-> iv,
       tag |-> IF key = NoKey THEN <<>> ELSE sealed.tag]

-----------------------------------------------------------------------------
(* buildReleaseV2 *)

\* Files with the same bytes share the blob of the first of them.
FirstWith(payload, data) ==
  CHOOSE p \in DOMAIN payload :
    /\ payload[p] = data
    /\ \A q \in DOMAIN payload : Before(q, p) => payload[q] # data

Buildable(payload) ==
  /\ BundlePath \in DOMAIN payload
  /\ \A p \in DOMAIN payload : SafePath(p)

\* The manifest's files: [path -> hash and blob entry].
BuildRelease(payload, key) ==
  [p \in DOMAIN payload |->
     [sha |-> payload[p],
      blob |-> SealBlob(CompressForBlob(payload[p], FirstWith(payload, payload[p])), key, payload[p])]]

\* The blobs a manifest names.
CollectBlobShas(files) == {files[p].blob.stored : p \in DOMAIN files}

\* validateManifestShape: safe paths, the bundle among them, and an IV exactly when encrypted.
ShapeOK(files, key) ==
  /\ BundlePath \in DOMAIN files
  /\ \A p \in DOMAIN files : SafePath(p) /\ (files[p].blob.iv # <<>> <=> key # NoKey)

-----------------------------------------------------------------------------
(* The way back *)

AesGcmDecrypt(key, blob, aad) ==
  IF blob.tag = <<key, blob.iv, blob.stored.data, aad>> THEN blob.stored.data ELSE Refused

DecompressBlob(data, compression) ==
  IF compression = "none" THEN data
  ELSE IF Head(data) \in Level THEN Tail(data) ELSE Refused

\* One file's blob, decrypted, decompressed and compared with the file's hash.
Unpack(entry, key) ==
  LET sealed == IF key = NoKey THEN entry.blob.stored.data ELSE AesGcmDecrypt(key, entry.blob, entry.sha)
      data == IF sealed = Refused THEN Refused ELSE DecompressBlob(sealed, entry.blob.compression)
  IN  IF data = entry.sha THEN data ELSE Refused

\* verifyReleaseV2: what one file's blob unpacked to is taken for every file that names the blob.
VerifyRelease(files, key) ==
  LET firstOf(p) == CHOOSE q \in DOMAIN files :
                      /\ files[q].blob.stored = files[p].blob.stored
                      /\ \A o \in DOMAIN files :
                           Before(o, q) => files[o].blob.stored # files[p].blob.stored
  IN  [p \in DOMAIN files |-> Unpack(files[firstOf(p)], key)]

\* Variant with a bug: one blob is unpacked once, as the reference does.
AssembleOnce(files, key, have) == VerifyRelease(files, key)

\* The native assembly: a file the device has is copied, the others come from their own blobs.
Assemble(files, key, have) ==
  [p \in DOMAIN files |-> IF files[p].sha \in have THEN files[p].sha ELSE Unpack(files[p], key)]
=============================================================================
