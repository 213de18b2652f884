------------------------------ MODULE Channel ------------------------------
(***************************************************************************)
(* A release channel from its keys to its devices: keygen writes the key   *)
(* files one after the other and may be killed in between, the operator    *)
(* registers the public key and ships apps that embed it, the CLI and the  *)
(* dashboard publish releases sealed and signed with what the files hold,  *)
(* the backend accepts what its registered key verifies, and devices       *)
(* install what they are offered and their own gates accept.               *)
(*                                                                         *)
(* A key is the number of the keygen that made it.  The channel has one    *)
(* keyId.  Uploading (Publish), serving (DeviceRoutes) and the slots of    *)
(* the device (DashOtaStore) are left out: an accepted release is there    *)
(* to be offered, and a download ends in one step.                         *)
(***************************************************************************)
EXTENDS Integers, Sequences, Targeting, Sealing

CONSTANTS
  Payloads,     \* builds: [a set of paths -> data]
  Targets,      \* platform, channel and runtimeVersion
  MinBuilds,    \* values of --min-native-build
  Ranges,       \* values of --target-app-versions
  Apps,         \* native builds of the app: [target, build, version]
  Devices,
  MaxKeygens,   \* bound: runs of keygen
  MaxReleases,  \* bound: releases accepted
  NotInstalled

ASSUME BoundAssumption == {MaxKeygens, MaxReleases} \subseteq Nat
ASSUME KeyAssumption == NoKey = 0
ASSUME AppAssumption == NotInstalled \notin Apps
ASSUME PayloadAssumption ==
  \A payload \in Payloads :
    payload \in [DOMAIN payload -> Seq(STRING) \ {<<>>, Refused}]

Unwritten == 0
Torn == -1

VARIABLES
  private, content, json, \* the key files: Unwritten, Torn, or a key
  keygen,    \* the step keygen is at, or "idle"
  minted,    \* runs of keygen that made a key
  forced,    \* history: how many of them were forced
  trusted,   \* the key the backend has for the keyId, or Unwritten
  releases,  \* accepted releases, oldest first
  device,    \* [Devices -> its app, what it runs, its files]
  sealed     \* history: what was encrypted

keyFiles == <<private, content, json>>
channelVars == <<keyFiles, keygen, minted, forced, trusted, releases, device, sealed>>

NoApp == [app |-> NotInstalled, key |-> Unwritten, forced |-> 0, running |-> 0, files |-> <<>>]

ChannelInit ==
  /\ private = Unwritten /\ content = Unwritten /\ json = Unwritten
  /\ keygen = "idle"
  /\ minted = 0 /\ forced = 0
  /\ trusted = Unwritten
  /\ releases = <<>>
  /\ device = [d \in Devices |-> NoApp]
  /\ sealed = {}

-----------------------------------------------------------------------------
(* keygen *)

Exists(file) == file # Unwritten

Readable(file) == file \notin {Unwritten, Torn}

\* Variant with a bug: a key that is there is no reason to stop.
KeygenOver(force) ==
  /\ keygen = "idle"
  /\ minted < MaxKeygens
  /\ minted' = minted + 1
  /\ forced' = forced + (IF force THEN 1 ELSE 0)
  /\ keygen' = "private"
  /\ UNCHANGED <<keyFiles, trusted, releases, device, sealed>>

\* cmdKeygen up to its first write: an existing signing key is replaced with --force alone.
Keygen(force) ==
  /\ keygen = "idle"
  /\ minted < MaxKeygens
  /\ Exists(private) => force
  /\ minted' = minted + 1
  /\ forced' = forced + (IF force THEN 1 ELSE 0)
  /\ keygen' = "private"
  /\ UNCHANGED <<keyFiles, trusted, releases, device, sealed>>

WritePrivate ==
  /\ keygen = "private"
  /\ private' = minted
  /\ keygen' = "content"
  /\ UNCHANGED <<content, json, minted, forced, trusted, releases, device, sealed>>

\* A content key that is there stays, whatever it holds.
WriteContent ==
  /\ keygen = "content"
  /\ content' = IF Exists(content) THEN content ELSE minted
  /\ keygen' = "json"
  /\ UNCHANGED <<private, json, minted, forced, trusted, releases, device, sealed>>

\* The public key as PEM and as JSON; nothing reads the former.  With --register, or a yes, more
\* is to come.
WriteJson ==
  /\ keygen = "json"
  /\ json' = minted
  /\ keygen' \in {"idle", "register"}
  /\ UNCHANGED <<private, content, minted, forced, trusted, releases, device, sealed>>

\* The process is killed before, or in the middle of, its next write.
KeygenKilled ==
  /\ keygen # "idle"
  /\ keygen' = "idle"
  /\ \/ UNCHANGED keyFiles
     \/ keygen = "private" /\ private' = Torn /\ UNCHANGED <<content, json>>
     \/ keygen = "content" /\ ~Exists(content) /\ content' = Torn /\ UNCHANGED <<private, json>>
     \/ keygen = "json" /\ json' \in {Torn, minted} /\ UNCHANGED <<private, content>>
  /\ UNCHANGED <<minted, forced, trusted, releases, device, sealed>>

\* keygen --content-key-only, for a signing key that has none.
ContentKeyOnly ==
  /\ keygen = "idle"
  /\ Exists(private)
  /\ ~Exists(content)
  /\ minted < MaxKeygens
  /\ minted' = minted + 1
  /\ content' \in {minted + 1, Torn}
  /\ UNCHANGED <<private, json, keygen, forced, trusted, releases, device, sealed>>

\* POST /admin/keys: the key of the keyId, whichever it had before.
RegisterKeyRoute(key) == trusted' = key

\* keygen --register: the key it has just made, not what the file holds.
KeygenRegisters ==
  /\ keygen = "register"
  /\ RegisterKeyRoute(minted)
  /\ keygen' = "idle"
  /\ UNCHANGED <<keyFiles, minted, forced, releases, device, sealed>>

\* register-key --key-file, of the .public.json.
RegisterKeyFile ==
  /\ keygen = "idle"
  /\ Readable(json)
  /\ RegisterKeyRoute(json)
  /\ UNCHANGED <<keyFiles, keygen, minted, forced, releases, device, sealed>>

\* register-key --pub: whatever key the operator still has.
RegisterKeyText ==
  /\ \E key \in 1..minted : RegisterKeyRoute(key)
  /\ UNCHANGED <<keyFiles, keygen, minted, forced, releases, device, sealed>>

\* The dashboard's register-key: the .public.json beside the signing key, even while keygen writes.
DashboardRegisters ==
  /\ Readable(json)
  /\ RegisterKeyRoute(json)
  /\ UNCHANGED <<keyFiles, keygen, minted, forced, releases, device, sealed>>

-----------------------------------------------------------------------------
(* Publishing *)

\* verifyKeyFromPath: the key the app embeds, or else the signing key's own.
VerifyKey == IF Exists(json) THEN json ELSE private

SignManifest(manifest, key) == [manifest |-> manifest, signedBy |-> key]

\* A signature verifies with the public key of the key that made it, over the same manifest.
VerifyManifest(signed, key) == signed.signedBy = key

LoadSigningKey == Readable(private)

ReadContentKey == Readable(content)

\* The keys are read first, by the CLI and by the dashboard.
SigningFor(encrypt) == LoadSigningKey /\ (encrypt => ReadContentKey) /\ VerifyKey # Torn

\* POST /admin/releases up to createRelease: the shape, then the registered key.
Accepts(signed) ==
  /\ ShapeOK(signed.manifest.files, signed.manifest.key)
  /\ trusted # Unwritten
  /\ VerifyManifest(signed, trusted)

ManifestOf(payload, key, target, minBuild, range) ==
  [target |-> target, version |-> Len(releases) + 1, minBuild |-> minBuild, range |-> range,
   key |-> key, files |-> BuildRelease(payload, key)]

\* prepareRelease and what the backend says: the manifest is built, signed, compared with the key
\* the app embeds, and sent.
Publish(payload, encrypt, target, minBuild, range) ==
  LET manifest == ManifestOf(payload, IF encrypt THEN content ELSE NoKey, target, minBuild, range)
      signed == SignManifest(manifest, private)
  IN
    /\ keygen = "idle"
    /\ Len(releases) < MaxReleases
    /\ SigningFor(encrypt)
    /\ Buildable(payload)
    /\ VerifyManifest(signed, VerifyKey)
    /\ Accepts(signed)
    /\ releases' = Append(releases,
         [manifest |-> manifest, signedBy |-> private, forced |-> forced, payload |-> payload])
    /\ sealed' = sealed \cup (IF encrypt THEN CollectBlobShas(manifest.files) ELSE {})
    /\ UNCHANGED <<keyFiles, keygen, minted, forced, trusted, device>>

-----------------------------------------------------------------------------
(* Devices *)

\* An app of the store is installed, or replaces the one that is there and keeps its files: it
\* embeds the public key that was there when it was built.
InstallApp(d, app) ==
  /\ Readable(json)
  /\ keygen = "idle"
  /\ device[d].app # NotInstalled => app.build > device[d].app.build
  /\ device' = [device EXCEPT ![d].app = app, ![d].key = json, ![d].forced = forced]
  /\ UNCHANGED <<keyFiles, keygen, minted, forced, trusted, releases, sealed>>

\* What a check tells of the device.
Context(d) ==
  [target |-> device[d].app.target, build |-> device[d].app.build,
   version |-> device[d].app.version, running |-> device[d].running]

Eligible(d) == {i \in DOMAIN releases : IsEligible(releases[i].manifest, Context(d))}

\* pickEligible: the highest version.
Offer(d) == CHOOSE i \in Eligible(d) : \A j \in Eligible(d) : j <= i

Gate(d, i) ==
  GateAccepts(releases[i].manifest, Context(d), VerifyManifest(releases[i], device[d].key),
              \A p \in DOMAIN releases[i].manifest.files : SafePath(p))

Have(d) == {device[d].files[p] : p \in DOMAIN device[d].files}

Download(d, i) == Assemble(releases[i].manifest.files, releases[i].manifest.key, Have(d))

\* A check and what comes of it: the offer passes the gates and every file verifies, or nothing.
Update(d) ==
  /\ device[d].app # NotInstalled
  /\ Eligible(d) # {}
  /\ Gate(d, Offer(d))
  /\ \A p \in DOMAIN Download(d, Offer(d)) : Download(d, Offer(d))[p] # Refused
  /\ device' = [device EXCEPT ![d].running = Offer(d), ![d].files = Download(d, Offer(d))]
  /\ UNCHANGED <<keyFiles, keygen, minted, forced, trusted, releases, sealed>>

-----------------------------------------------------------------------------
ChannelNext ==
  \/ \E force \in BOOLEAN : Keygen(force)
  \/ WritePrivate \/ WriteContent \/ WriteJson \/ KeygenKilled
  \/ ContentKeyOnly
  \/ KeygenRegisters \/ RegisterKeyFile \/ RegisterKeyText \/ DashboardRegisters
  \/ \E payload \in Payloads, encrypt \in BOOLEAN, target \in Targets, min \in MinBuilds,
        range \in Ranges : Publish(payload, encrypt, target, min, range)
  \/ \E d \in Devices : (\E app \in Apps : InstallApp(d, app)) \/ Update(d)

ChannelSpec == ChannelInit /\ [][ChannelNext]_channelVars

-----------------------------------------------------------------------------
(* Properties *)

\* What the fields of a manifest may hold, for the builds there are.
Data == UNION {{payload[p] : p \in DOMAIN payload} : payload \in Payloads}
StoredData == Data \cup {<<level>> \o d : level \in Level, d \in Data}
Ivs == {<<>>} \cup ((0..MaxKeygens) \X StoredData)
Stored == [key : 0..MaxKeygens, iv : Ivs, data : StoredData]

BlobEntry ==
  [stored : Stored, compression : {"zstd", "none"}, iv : Ivs,
   tag : {<<>>} \cup ((0..MaxKeygens) \X Ivs \X StoredData \X Data)]

FileEntryV2 == [sha : Data, blob : BlobEntry]

ManifestV2(m) ==
  /\ m \in [target : Targets, version : 1..MaxReleases, minBuild : MinBuilds, range : Ranges,
            key : 0..MaxKeygens, files : {m.files}]
  /\ DOMAIN m.files \subseteq Paths /\ m.files \in [DOMAIN m.files -> FileEntryV2]

SignedManifest(r) ==
  /\ DOMAIN r = {"manifest", "signedBy", "forced", "payload"}
  /\ ManifestV2(r.manifest) /\ r.signedBy \in 1..MaxKeygens

DeviceContext ==
  [target : Targets, build : {app.build : app \in Apps}, version : {app.version : app \in Apps},
   running : 0..MaxReleases]

\* A manifest has its shape, whichever build and keys it comes of, and a device what it may have.
ChannelTypeOK ==
  /\ {private, content, json} \subseteq {Unwritten, Torn} \cup 1..MaxKeygens
  /\ keygen \in {"idle", "private", "content", "json", "register"}
  /\ minted \in 0..MaxKeygens /\ forced \in 0..minted
  /\ trusted \in 0..MaxKeygens
  /\ Len(releases) <= MaxReleases /\ \A i \in DOMAIN releases : SignedManifest(releases[i])
  /\ \A d \in Devices : device[d].app # NotInstalled => Context(d) \in DeviceContext

\* Whatever moment keygen was killed at and in whatever order keys were registered, apps shipped and
\* releases published, an app verifies every release the backend accepted, as long as nobody forced
\* a new signing key in between (the guard of cmdKeygen, the self-verification of prepareRelease).
ReachesTheField ==
  \A i \in DOMAIN releases, d \in Devices :
    device[d].app # NotInstalled /\ releases[i].forced = device[d].forced
      => releases[i].signedBy = device[d].key

OfferIsAccepted ==
  \A d \in Devices :
    device[d].app # NotInstalled /\ Eligible(d) # {} /\ releases[Offer(d)].forced = device[d].forced
      => /\ Gate(d, Offer(d))
         /\ \A p \in DOMAIN Download(d, Offer(d)) : Download(d, Offer(d))[p] # Refused

InstalledIsPublished ==
  \A d \in Devices :
    device[d].running # 0 => device[d].files = releases[device[d].running].payload

\* What the backend offers a device is not refused by the device, whose gates repeat the backend's
\* in another language, and every file of it verifies, unless a signing key was replaced (isEligible,
\* downloadAndStage); and a device that runs a release has the files of the build it was made from,
\* whether it copied them from the release before or took them from shared blobs, and nothing else.
OfferInstallsWhatWasPublished == OfferIsAccepted /\ InstalledIsPublished

\* One nonce never seals two messages under one content key, whatever the levels and releases
\* (deriveBlobIv: "the one failure mode GCM does not survive").
NonceSealsOneMessage ==
  \A x, y \in sealed : x.key = y.key /\ x.iv = y.iv => x.data = y.data

=============================================================================
