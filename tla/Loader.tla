------------------------------- MODULE Loader -------------------------------
(***************************************************************************)
(* Loading textures, atlases and skeletons (texture_manager.cpp:145-225,    *)
(* spine_manager.cpp:81-245): a job decodes the images and publishes how    *)
(* far it is, the main loop makes textures of them, then atlases, then      *)
(* skeletons, as many in a frame as its 10 ms allow.  One file may be       *)
(* broken, or the image of one be of a kind no texture is made of.          *)
(* Everything is numbered from 1; the textures of the atlases are the last  *)
(* ones.                                                                    *)
(***************************************************************************)
EXTENDS Naturals, FiniteSets

CONSTANTS Plain  \* textures that belong to no atlas (36)

ASSUME LoaderAssumption == Plain \in Nat

Atlases == 1..8
Textures == 1..(Plain + 8)

\* The atlas in whose folder a skeleton is found (spine_manager.cpp:30-76).
Folder == <<1, 2, 3, 3, 3, 3, 4, 4, 4, 4, 5, 6, 7, 8, 8, 8, 8, 8, 8, 8, 8, 8, 8, 8, 8, 8, 8>>
Skeletons == DOMAIN Folder

VARIABLES broken,     \* the file that cannot be loaded, <<"none", 1>> if all can
          made,       \* surfaces the job has made
          published,  \* loadingIndex, counted from 1
          fmod,       \* the banks are loaded: the next job of the same worker is done
          textures,   \* the textures that are not nullptr
          freed,      \* the images whose pixels have been freed
          heap,       \* "sound"; after a second free "damaged", or the program is "aborted"
          pages,      \* calls of SpineLoader::load so far
          page,       \* the atlases made, with the number of their texture, 0 for no page
          atlasOf,    \* the skeletons made, with the atlas they were made of
          data        \* the skeletons whose data is not nullptr

loaderVars == <<broken, made, published, fmod, textures, freed, heap, pages, page, atlasOf, data>>
job == <<made, published, fmod>>
images == <<textures, freed, heap>>
spine == <<pages, page, atlasOf, data>>

Files == ({"texture", "pixels"} \X Textures) \cup ({"atlas"} \X Atlases) \cup ({"skeleton"} \X Skeletons)
         \cup {<<"audio", 1>>}

None == [i \in {} |-> 0]

LoaderInit == /\ broken \in Files \cup {<<"none", 1>>}
              /\ made = 0 /\ published = 0 /\ fmod = FALSE
              /\ textures = {} /\ freed = {} /\ heap = "sound"
              /\ pages = 0 /\ page = None /\ atlasOf = None /\ data = {}

IsTexturesLoaded == Plain + 8 \in textures
IsSpineLoaded == 8 \in DOMAIN page /\ Cardinality(Skeletons) \in data

\* The files of a kind that are not broken.
Sound(kind, files) == {i \in files : broken # <<kind, i>>}

-----------------------------------------------------------------------------
MakeSurface == /\ made = published /\ made < Plain + 8
               /\ made' = made + 1
               /\ UNCHANGED <<broken, published, fmod, images, spine>>

\* Mutant: the job says how far it is before the surface is made.
Publishes_Early == published < Plain + 8 /\ published <= made

Publishes == published < made

Publish == /\ Publishes
           /\ published' = published + 1
           /\ UNCHANGED <<broken, made, fmod, images, spine>>

\* The next job of the worker: it gives up when the sound system or a bank fails.
LoadBanks == /\ published = Plain + 8 /\ ~fmod
             /\ fmod' = (broken # <<"audio", 1>>)
             /\ UNCHANGED <<broken, made, published, images, spine>>

\* Mutant: textures are made of the newest surfaces first.
Reached_Newest(n) == {i \in 1..published : i > n}

\* The surfaces a frame gets to before its time is over.
Reached(n) == 1..n

\* Mutant: textures that are made already are not passed over.
Tried_All(n) == Reached(n)

\* The textures a frame tries to make: those it gets to and that are not there.
Tried(n) == Reached(n) \ textures

\* Of an image that was read there are pixels to free.  If no texture could be made of it,
\* they are freed again in the next frame, and anything may happen.
UpdateTexturesLoad(n) ==
    /\ ~IsTexturesLoaded
    /\ n \in 1..published
    /\ textures' = textures \cup Sound("texture", Sound("pixels", Tried(n)))
    /\ freed' = freed \cup Sound("texture", Tried(n))
    /\ heap' \in IF freed \cap Tried(n) = {} THEN {heap} ELSE {"damaged", "aborted"}
    /\ UNCHANGED <<broken, job, spine>>

\* Mutant: the first page counts as read already.
NextPage_FromOne == pages + 2

NextPage == pages + 1

\* An atlas is made once, with a page of the next texture if its file can be read.
LoadAtlas ==
    LET a == Cardinality(DOMAIN page) + 1
        reads == a \in Sound("atlas", Atlases)
    IN /\ IsTexturesLoaded /\ a \in Atlases
       /\ page' = [b \in DOMAIN page \cup {a} |-> IF b # a THEN page[b] ELSE IF reads THEN NextPage ELSE 0]
       /\ pages' = IF reads THEN NextPage ELSE pages
       /\ UNCHANGED <<broken, job, images, atlasOf, data>>

\* Mutant: only the skeletons made in this frame count for the atlas.
Passed_Now(i) == {}

\* The skeletons before i after which the loop goes on to the next atlas.
Passed(i) == {k \in Skeletons \ {3, 4, 5, 7, 8, 9} : k < i}

\* Mutant: a skeleton without data is made again.
Made_Data == data

\* The skeletons that are left alone.
Made == DOMAIN atlasOf

Smaller(a, b) == IF a < b THEN a ELSE b

\* The atlas the loop has got to when it makes skeleton i; the last one is never left.
AtlasFor(i) == Smaller(1 + Cardinality(Passed(i)), 8)

\* A skeleton has data if its file is sound and its atlas has a page, and so the regions
\* its attachments name.
Readable(i) == broken # <<"skeleton", i>> /\ page[AtlasFor(i)] # 0

\* The next skeleton is made.
LoadSkeleton ==
    /\ ~IsSpineLoaded /\ DOMAIN page = Atlases
    /\ \E i \in Skeletons \ Made :
          /\ \A k \in Skeletons \ Made : i <= k
          /\ atlasOf' = [k \in DOMAIN atlasOf \cup {i} |-> IF k = i THEN AtlasFor(i) ELSE atlasOf[k]]
          /\ data' = IF Readable(i) THEN data \cup {i} ELSE data
    /\ UNCHANGED <<broken, job, images, pages, page>>

Job == MakeSurface \/ Publish \/ LoadBanks
LoadFrame == (\E n \in Textures : UpdateTexturesLoad(n)) \/ LoadAtlas \/ LoadSkeleton

LoaderNext == heap # "aborted" /\ (Job \/ LoadFrame)

LoaderSpec == LoaderInit /\ [][LoaderNext]_loaderVars

-----------------------------------------------------------------------------
LoaderTypeOK == /\ broken \in Files \cup {<<"none", 1>>}
                /\ made \in 0..(Plain + 8) /\ published \in {made, made - 1} /\ fmod \in BOOLEAN
                /\ textures \subseteq Textures /\ freed \subseteq Textures
                /\ heap \in {"sound", "damaged", "aborted"} /\ pages \in 0..8
                /\ DOMAIN page \subseteq Atlases /\ DOMAIN atlasOf \subseteq Skeletons
                /\ data \subseteq DOMAIN atlasOf

\* A texture is made, and an image freed, after the job has finished its surface.
AfterTheSurface == \A i \in textures \cup freed : i <= made

\* An image is freed once, by the frame that makes its texture, however often frames come
\* back to it, unless no texture can be made of it (texture_manager.cpp:207-215).
FreedOnce == heap # "sound" => broken \in {"pixels"} \X Textures

\* The tests look at the last texture, atlas and skeleton only; all the others that can
\* be loaded are there then, which excepts the skeletons of an atlas that cannot
\* (texture_manager.cpp:184, spine_manager.cpp:242).
LastIsAll ==
    /\ IsTexturesLoaded => Sound("texture", Sound("pixels", Textures)) \subseteq textures
    /\ IsSpineLoaded =>
          /\ DOMAIN page = Atlases
          /\ {i \in Sound("skeleton", Skeletons) : Folder[i] \in Sound("atlas", Atlases)} \subseteq data

\* Every skeleton is made of the atlas of its folder, wherever frames ran out of time.
OwnAtlas == \A i \in DOMAIN atlasOf : atlasOf[i] = Folder[i]

\* An atlas gets the texture that belongs to it, unless an atlas before it had no page.
OwnTexture == \A a \in DOMAIN page : page[a] \in {0, a} \/ \E b \in DOMAIN page : b < a /\ page[b] = 0

\* What is loaded is complete and belongs together, wherever a frame ran out of time.
LoaderSound == LoaderTypeOK /\ AfterTheSurface /\ FreedOnce /\ LastIsAll /\ OwnAtlas /\ OwnTexture

\* Loading that has begun ends, unless a file the tests look at, the atlas of the last
\* skeleton or the sound is broken: then the game never gets past its first screen.  An
\* image of which no texture can be made may abort the program instead.
LoadingEnds ==
    made > 0 ~> \/ IsSpineLoaded /\ fmod
                \/ heap = "aborted"
                \/ broken \in {<<"texture", Plain + 8>>, <<"pixels", Plain + 8>>, <<"atlas", 8>>,
                               <<"skeleton", 27>>, <<"audio", 1>>}
=============================================================================
