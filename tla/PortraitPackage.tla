--------------------------- MODULE PortraitPackage ---------------------------
(***************************************************************************)
(* The canonical portrait package of the fe-gba-portrait-standard target:  *)
(* what its strict validation reports, and the deterministic roundtrip     *)
(* that decodes a package, encodes it again and compares the two.          *)
(*                                                                         *)
(* A package is a function from file names to contents.  A name is a pair  *)
(* of a stem (a number, in sorted order) and a suffix, whose case counts   *)
(* where the code lets it count.  The layout is the real one, in units of  *)
(* 16 pixels: every slot and zone is a union of such cells.  A palette is  *)
(* a sequence of channel values, one for the three of a colour.            *)
(***************************************************************************)
EXTENDS Integers, FiniteSets, Sequences

CONSTANTS
    Picture,     (* pixel arrays by name: a function of cells to indices     *)
    MaxColors,   (* entries of a portrait palette: 16                        *)
    PngColors    (* entries of any PNG palette: 256                          *)

ASSUME PortraitConstantsOK ==
    /\ MaxColors \in Nat \ {0} /\ PngColors \in Nat /\ MaxColors <= PngColors
    /\ \A p \in DOMAIN Picture : \A c \in DOMAIN Picture[p] : Picture[p][c] \in Nat

Flag(code, found) == IF found THEN {code} ELSE {}

-----------------------------------------------------------------------------
(* The layout of the sheet.                                                *)
Region(x, y, w, h) == (x .. x + w - 1) \X (y .. y + h - 1)

SheetCells == Region(0, 0, 8, 7)
BgIndex    == 0

BackgroundZones == {Region(0, 0, 1, 3), Region(5, 0, 1, 3),
                    Region(6, 0, 2, 1), Region(6, 6, 2, 1)}

RequiredSlots ==
    {Region(0, 0, 6, 5), Region(6, 1, 2, 2)}
        \cup {Region(6, y, 2, 1) : y \in 3 .. 5}
        \cup {Region(x, y, 2, 1) : x \in {0, 2, 4}, y \in {5, 6}}

-----------------------------------------------------------------------------
(* The files of a package and how they are read.                           *)
Stem(name)   == name[1]
Suffix(name) == name[2]
Folded(suffix) ==
    IF suffix = "PNG" THEN "png" ELSE IF suffix = "PAL" THEN "pal" ELSE suffix

IsFile(file) == file.kind # "dir"
Within(file) == file.kind \notin {"link"}

IsPng(file)     == file.kind = "png"
Dimensions(file) == DOMAIN Picture[file.pixels]
Decodes(file)   == IsPng(file) /\ file.whole

Channel == 0 .. 255
ReadsAsJasc(file) ==
    /\ file.kind = "pal"
    /\ file.count = Len(file.colors)
    /\ \A i \in DOMAIN file.colors : file.colors[i] \in Channel

Sheets(package) == {n \in DOMAIN package : Suffix(n) = "png"}
FirstSheet(package) ==
    CHOOSE n \in Sheets(package) : \A m \in Sheets(package) : Stem(n) <= Stem(m)

Sidecars(package) ==
    {n \in DOMAIN package : Folded(Suffix(n)) = "pal" /\ IsFile(package[n])}
Matching(package, sheet) ==
    {n \in Sidecars(package) : Stem(n) = Stem(sheet)}
(* Sorted by folded name and then by name, upper case comes first. *)
FirstMatching(package, sheet) ==
    CHOOSE n \in Matching(package, sheet) :
        <<Stem(n), "PAL">> \in Matching(package, sheet) => Suffix(n) = "PAL"

-----------------------------------------------------------------------------
(* Strict validation: the set of codes it reports.                         *)
Snapped(channel) == (channel \div 8) * 8

SnapCodes(palette) ==
    Flag("PALETTE_NOT_SNAPPED",
         \E i \in DOMAIN palette : palette[i] # Snapped(palette[i]))

SidecarCodes(package, sheet) ==
    LET own == Matching(package, sheet)
        extra == Flag("EXTRA_PALETTE", Sidecars(package) # own \/ Cardinality(own) > 1)
        file == package[FirstMatching(package, sheet)]
        palette == package[sheet].palette
    IN  extra \cup
        (IF own = {} THEN {"MISSING_PALETTE"}
         ELSE IF ~Within(file) THEN {"UNSAFE_PATH"}
         ELSE IF ~ReadsAsJasc(file) THEN {"BAD_PALETTE"}
         ELSE Flag("PALETTE_COUNT_MISMATCH", file.count # Len(palette))
                \cup Flag("PALETTE_COLOR_MISMATCH",
                          file.count = Len(palette) /\ file.colors # palette)
                \cup SnapCodes(file.colors))

(* Background that no path of neighbouring background cells, diagonal ones *)
(* included, joins to the border.                                          *)
Neighbours(c) == {c[1] - 1, c[1], c[1] + 1} \X {c[2] - 1, c[2], c[2] + 1}
Border(cells) == {c \in cells : ~(Neighbours(c) \subseteq cells)}

HasHole(picture) ==
    LET background == {c \in DOMAIN picture : picture[c] = BgIndex}
    IN  \E hole \in SUBSET (background \ Border(DOMAIN picture)) :
          /\ hole # {}
          /\ \A c \in hole : Neighbours(c) \cap background \subseteq hole

PixelCodes(picture, colors) ==
    Flag("INDEX_OUT_OF_RANGE", \E c \in DOMAIN picture : picture[c] >= colors)
        \cup Flag("BACKGROUND_HOLE", HasHole(picture))
        \cup Flag("UNSAFE_ZONE", \E zone \in BackgroundZones :
                                    \E c \in zone : picture[c] # BgIndex)
        \cup Flag("SLOT_EMPTY", \E slot \in RequiredSlots :
                                    \A c \in slot : picture[c] = BgIndex)

SheetCodes(package, sheet) ==
    LET file == package[sheet]
        canonical == Dimensions(file) = SheetCells
    IN  Flag("TRNS_PRESENT", file.trns)
          \cup Flag("SHEET_BAD_DIMS", ~canonical)
          \cup Flag("SHEET_BAD_BIT_DEPTH", file.depth # 8)
          \cup Flag("PORTRAIT_PALETTE_GT16", Len(file.palette) > MaxColors)
          \cup SnapCodes(file.palette)
          \cup SidecarCodes(package, sheet)
          \cup (IF canonical /\ file.depth = 8
                THEN IF Decodes(file)
                     THEN PixelCodes(Picture[file.pixels], Len(file.palette))
                     ELSE {"BAD_PNG"}
                ELSE {})

ValidatePortrait(package) ==
    IF Sheets(package) = {} THEN {"MISSING_SHEET"}
    ELSE LET sheet == FirstSheet(package)
         IN  Flag("MULTIPLE_SHEETS", Cardinality(Sheets(package)) > 1) \cup
             (IF ~Within(package[sheet]) THEN {"UNSAFE_PATH"}
              ELSE IF ~IsPng(package[sheet]) THEN {"BAD_PNG"}
              ELSE IF ~package[sheet].indexed THEN {"NON_INDEXED"}
              ELSE SheetCodes(package, sheet))

-----------------------------------------------------------------------------
(* The roundtrip.                                                          *)
UnknownBackground == -1
NoPixels  == "none"
NoPalette == <<-1>>

(* Mutant: the case of its suffix decides whether a sidecar is the sheet's. *)
HasLowerCasePaths(package) ==
    /\ Cardinality(Sheets(package)) = 1
    /\ <<Stem(FirstSheet(package)), "pal">> \in DOMAIN package

HasCanonicalPaths(package) ==
    /\ Cardinality(Sheets(package)) = 1
    /\ Cardinality(Matching(package, FirstSheet(package))) = 1

CanonicalSheet(package) == package[FirstSheet(package)]
CanonicalPalette(package) == package[FirstMatching(package, FirstSheet(package))]

DecodesCanonically(package) ==
    /\ HasCanonicalPaths(package)
    /\ Decodes(CanonicalSheet(package))
    /\ ReadsAsJasc(CanonicalPalette(package))

(* The one index that fills every background zone, if there is one. *)
BackgroundIndex(picture) ==
    LET zones == UNION BackgroundZones
        seen  == {picture[c] : c \in zones}
    IN  IF zones \subseteq DOMAIN picture /\ Cardinality(seen) = 1
        THEN CHOOSE index \in seen : TRUE
        ELSE UnknownBackground

(* What evidence records of a decoded package; hashes are the arrays.      *)
Described(sheet, palette) ==
    [dims |-> Dimensions(sheet), colors |-> Len(palette),
     background |-> BackgroundIndex(Picture[sheet.pixels]),
     pixels |-> sheet.pixels, palette |-> palette]

NoDescription ==
    [dims |-> {}, colors |-> 0, background |-> UnknownBackground,
     pixels |-> NoPixels, palette |-> NoPalette]

(* A package that does not decode has no digest. *)
PackageDigest(package) ==
    IF DecodesCanonically(package) /\ CanonicalSheet(package).indexed
    THEN Described(CanonicalSheet(package), CanonicalPalette(package).colors)
    ELSE NoDescription

SourceContractCodes(described, pngPalette) ==
    Flag("ROUNDTRIP_GEOMETRY_MISMATCH", described.dims # SheetCells)
        \cup Flag("ROUNDTRIP_COLOR_COUNT_MISMATCH", described.colors \notin 1 .. MaxColors)
        \cup Flag("ROUNDTRIP_BACKGROUND_INDEX_MISMATCH",
                  described.background \notin 0 .. described.colors - 1)
        \cup Flag("ROUNDTRIP_SOURCE_PALETTE_MISMATCH", pngPalette # described.palette)

(* The two files the probe writes, or nothing where a writer refuses. *)
SaveableIndices(pixels, palette) ==
    /\ Len(palette) \in 1 .. PngColors
    /\ \A c \in DOMAIN Picture[pixels] : Picture[pixels][c] < Len(palette)

WritableJasc(palette) ==
    /\ Len(palette) \in 1 .. MaxColors
    /\ \A i \in DOMAIN palette : palette[i] \in Channel

Reencoded(pixels, palette) ==
    [n \in {<<1, "png">>, <<1, "pal">>} |->
        IF Suffix(n) = "png"
        THEN [kind |-> "png", indexed |-> TRUE, depth |-> 8, trns |-> FALSE,
              whole |-> TRUE, pixels |-> pixels, palette |-> palette]
        ELSE [kind |-> "pal", count |-> Len(palette), colors |-> palette]]

ComparisonCodes(before, after, reloadedPngPalette) ==
    Flag("ROUNDTRIP_GEOMETRY_MISMATCH", after.dims # before.dims)
        \cup Flag("ROUNDTRIP_COLOR_COUNT_MISMATCH", after.colors # before.colors)
        \cup Flag("ROUNDTRIP_BACKGROUND_INDEX_MISMATCH",
                  after.background = UnknownBackground \/ after.background # before.background)
        \cup Flag("ROUNDTRIP_PIXEL_MISMATCH", after.pixels # before.pixels)
        \cup Flag("ROUNDTRIP_PNG_PALETTE_MISMATCH", reloadedPngPalette # before.palette)
        \cup Flag("ROUNDTRIP_PALETTE_MISMATCH", after.palette # before.palette)

Failure(codes, before, after) ==
    [ok |-> FALSE, before |-> before, after |-> after, codes |-> codes]

DecodeRoundtrip(package) ==
    LET strict == ValidatePortrait(package)
        sheet  == CanonicalSheet(package)
        before == Described(sheet, CanonicalPalette(package).colors)
        source == SourceContractCodes(before, sheet.palette)
        copy   == Reencoded(before.pixels, before.palette)
        after  == Described(CanonicalSheet(copy), CanonicalPalette(copy).colors)
        compared == ComparisonCodes(before, after, CanonicalSheet(copy).palette)
    IN  IF strict # {} THEN Failure(strict, NoDescription, NoDescription)
        ELSE IF ~DecodesCanonically(package)
        THEN Failure({"ROUNDTRIP_DECODE_FAILED"}, NoDescription, NoDescription)
        ELSE IF source # {} THEN Failure(source, before, NoDescription)
        ELSE IF ~(SaveableIndices(before.pixels, before.palette) /\ WritableJasc(before.palette))
        THEN Failure({"ROUNDTRIP_REENCODE_FAILED"}, before, NoDescription)
        ELSE IF ValidatePortrait(copy) # {}
        THEN Failure({"ROUNDTRIP_VALIDATION_FAILED"}, before, NoDescription)
        ELSE IF compared # {} THEN Failure(compared, before, after)
        ELSE [ok |-> TRUE, before |-> before, after |-> after, codes |-> {}]
=============================================================================
