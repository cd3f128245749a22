------------------------------- MODULE MCBundle -------------------------------
(* Instances of the bundle for TLC: packages with one thing wrong at a time, *)
(* in every part of them, and a few jobs whose bundles are passed around.    *)
EXTENDS Bundle

Zones == UNION BackgroundZones
Plain == [c \in SheetCells |-> IF c \in Zones THEN 0 ELSE 1]

MCPicture ==
    [good   |-> Plain,
     other  |-> [Plain EXCEPT ![<<1, 1>>] = 2],
     hole   |-> [Plain EXCEPT ![<<2, 2>>] = 0],
     joined |-> [Plain EXCEPT ![<<1, 3>>] = 0],
     zone   |-> [Plain EXCEPT ![<<0, 0>>] = 1],
     slot   |-> [Plain EXCEPT ![<<0, 5>>] = 0, ![<<1, 5>>] = 0],
     range  |-> [Plain EXCEPT ![<<3, 3>>] = 3],
     small  |-> [c \in Region(0, 0, 2, 2) |-> 1]]

Three == <<0, 8, 16>>
Palettes == {Three, <<0, 9, 16>>, <<0, 8, 16, 24>>, <<>>}

Sheet(pixels, palette) ==
    [kind |-> "png", indexed |-> TRUE, depth |-> 8, trns |-> FALSE, whole |-> TRUE,
     pixels |-> pixels, palette |-> palette]
SheetsOf(pixels, palette) ==
    LET sheet == Sheet(pixels, palette) IN
    {sheet, [sheet EXCEPT !.indexed = FALSE], [sheet EXCEPT !.depth = 4],
     [sheet EXCEPT !.trns = TRUE], [sheet EXCEPT !.whole = FALSE], Link, Garbage}

Jasc(palette) == [kind |-> "pal", count |-> Len(palette), colors |-> palette]
Only(name, file) == With(Absent, name, file)
SidecarsOf(palette) ==
    LET own == Jasc(palette) IN
    {Absent, Only(<<1, "pal">>, own), Only(<<1, "PAL">>, own),
     With(Only(<<1, "pal">>, own), <<1, "PAL">>, own),
     With(Only(<<1, "pal">>, own), <<2, "pal">>, own),
     With(Only(<<1, "pal">>, own), <<2, "png">>, Sheet("good", Three)),
     With(Only(<<1, "pal">>, own), <<2, "PNG">>, Sheet("good", Three)),
     With(Only(<<1, "pal">>, own), <<2, "txt">>, Garbage),
     Only(<<1, "pal">>, Garbage), Only(<<1, "pal">>, Link),
     Only(<<1, "pal">>, [own EXCEPT !.count = @ + 1]),
     Only(<<1, "pal">>, Jasc(<<0, 8, 24>>))}

PortraitPackages ==
    UNION {{With(sidecar, <<1, "png">>, sheet)
              : sheet \in SheetsOf(pixels, palette), sidecar \in SidecarsOf(palette)}
             : pixels \in {"good"}, palette \in Palettes}
        \cup {With(Only(<<1, "pal">>, Jasc(palette)), <<1, "png">>, Sheet(pixels, palette))
                : pixels \in DOMAIN MCPicture, palette \in Palettes}
        \cup SidecarsOf(Three)

Image == [kind |-> "image", transparent |-> FALSE, size |-> "240x160", content |-> 1]
About(image) ==
    [kind |-> "assetManifest", blank |-> FALSE, name |-> 1, pack |-> FALSE, rev |-> 0,
     describes |-> image, profile |-> "none"]
ImagesOf == {Image, [Image EXCEPT !.transparent = TRUE], [Image EXCEPT !.size = "other"],
             Link, Garbage}
AboutsOf(image) ==
    LET about == About(image) IN
    {about, [about EXCEPT !.blank = TRUE], [about EXCEPT !.name = 2],
     [about EXCEPT !.pack = TRUE], [about EXCEPT !.pack = TRUE, !.rev = 1],
     [about EXCEPT !.describes = [Image EXCEPT !.content = 2]], Garbage}
BackgroundOf(image, about) == With(Only(<<1, "png">>, image), <<1, "manifest">>, about)
BackgroundPackages ==
    UNION {{BackgroundOf(image, about) : about \in AboutsOf(image)} : image \in ImagesOf}
        \cup {With(BackgroundOf(Image, About(Image)), n, Garbage)
                : n \in {<<2, "json">>, <<2, "PNG">>, <<2, "manifest">>}}
        \cup {Only(<<1, "png">>, Image), Only(<<1, "manifest">>, About(Image))}

Job(target, package) ==
    [target |-> target, secret |-> FALSE, redactable |-> FALSE, package |-> package,
     report |-> "good", lineage |-> "good"]
PortraitJob(pixels) ==
    Job("portrait", With(Only(<<1, "pal">>, Jasc(Three)), <<1, "png">>, Sheet(pixels, Three)))
BackgroundJob == Job("background", BackgroundOf(Image, About(Image)))

Redactable == [BackgroundJob EXCEPT !.redactable = TRUE]

MCNoJob == [target |-> "none"]
MCHandled == {PortraitJob("good"), PortraitJob("other"), BackgroundJob}

MCJobs ==
    MCHandled
        \cup {[BackgroundJob EXCEPT !.secret = TRUE], [BackgroundJob EXCEPT !.lineage = "bad"],
              [BackgroundJob EXCEPT !.report = "unreadable"],
              [BackgroundJob EXCEPT !.report = "keys"]}
        \cup {Job("portrait", package) : package \in PortraitPackages}
        \cup {Job("background", package) : package \in BackgroundPackages}

(* Every job alone, and every two of those whose bundles are passed around. *)
Alone(j) == [p \in Procs |-> IF p = CHOOSE q \in Procs : TRUE THEN j ELSE NoJob]
MCAssignments == {Alone(j) : j \in Jobs} \cup [Procs -> Handled]

RedactedJobs == {Redactable, PortraitJob("good")}
RedactedAssignments == {Alone(j) : j \in Jobs}
=============================================================================
