-------------------------- MODULE BackgroundPackage --------------------------
(***************************************************************************)
(* The source package of a dialogue background: one opaque 240x160 PNG and *)
(* the manifest that describes it, both named for the asset.  A name is a  *)
(* pair of a stem and a suffix, as in PortraitPackage; ".manifest.json" is *)
(* the suffix "manifest" and any other ".json" the suffix "json".          *)
(***************************************************************************)
EXTENDS PortraitPackage

Sizes == {"240x160", "other"}

(* A manifest is accepted when its fields are: texts that are not blank, a *)
(* portable name, a digest, and a pinned revision exactly with a pack.     *)
AcceptedManifest(file) ==
    /\ file.kind = "assetManifest"
    /\ ~file.blank
    /\ file.pack = (file.rev >= 1)
    /\ file.rev >= 0

Opaque(file) == file.kind = "image" /\ ~file.transparent

Images(package, safe)    == {n \in safe : Folded(Suffix(n)) = "png"}
Manifests(package, safe) == {n \in safe : Suffix(n) = "manifest"}

PairCodes(package, png, manifest) ==
    LET image == package[png]
        about == package[manifest]
    IN  IF ~AcceptedManifest(about) THEN {"INVALID_BACKGROUND_MANIFEST"}
        ELSE Flag("BACKGROUND_NAME_MISMATCH",
                  png # <<about.name, "png">> \/ manifest # <<about.name, "manifest">>)
             \cup (IF image.kind # "image" THEN {"INVALID_BACKGROUND_PNG"}
                   ELSE IF ~Opaque(image) THEN {"NON_OPAQUE_BACKGROUND"}
                   ELSE Flag("INVALID_BACKGROUND_DIMENSIONS", image.size # "240x160")
                        \cup Flag("BACKGROUND_HASH_MISMATCH", about.describes # image))

ValidateBackground(package) ==
    LET safe == {n \in DOMAIN package : IsFile(package[n]) /\ Within(package[n])}
        images == Images(package, safe)
        manifests == Manifests(package, safe)
    IN  Flag("UNSAFE_BACKGROUND_PACKAGE_ENTRY", safe # DOMAIN package)
          \cup Flag("UNEXPECTED_BACKGROUND_PACKAGE_ENTRY", safe # images \cup manifests)
          \cup Flag("MISSING_BACKGROUND_PNG", Cardinality(images) # 1)
          \cup Flag("MISSING_BACKGROUND_MANIFEST", Cardinality(manifests) # 1)
          \cup (IF Cardinality(images) = 1 /\ Cardinality(manifests) = 1
                THEN PairCodes(package, CHOOSE n \in images : TRUE,
                               CHOOSE n \in manifests : TRUE)
                ELSE {})
=============================================================================
