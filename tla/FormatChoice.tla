---------------------------- MODULE FormatChoice ----------------------------
(***************************************************************************)
(* Which format a book is cached in, and what it says it is.  A book short *)
(* enough for one file is looked at twice: determineTargetFormat looks at  *)
(* the first of its files and names the row's format and the file, and     *)
(* SmartTranscodeMultiple looks at all of them and decides what goes into  *)
(* it.  A book cut into segments is looked at once, after its files have   *)
(* been joined.  A look (ffprobe) may fail; "seen" is what came of it.     *)
(***************************************************************************)
EXTENDS Naturals, Sequences

\* What ffprobe reports: the first of the container's names, and the codec.
Format(container, codec) == [container |-> container, codec |-> codec]

Unknown == Format("none", "none")

sonosCompatibleCodecs == {"mp3", "aac", "flac", "wmav2", "vorbis"}

sonosCompatibleContainers ==
  {Format("mp3", "mp3"), Format("mp4", "aac"), Format("m4a", "aac"),
   Format("flac", "flac"), Format("ogg", "vorbis"), Format("asf", "wmav2")}

Check(f) ==
  IF f.codec \notin sonosCompatibleCodecs THEN "transcode"
  ELSE IF f \in sonosCompatibleContainers THEN "compatible" ELSE "remux"

\* Mutant: the container is kept when the codec will do.
GetTargetFormat_keeps(f) == f.container

GetTargetFormat(f) ==
  IF f.codec = "aac" THEN "mp4"
  ELSE IF f.codec = "flac" THEN "flac"
  ELSE IF f.codec = "vorbis" THEN "ogg"
  ELSE IF f.codec = "wmav2" THEN "asf"
  ELSE "mp3"

\* What is made: the codec copied into its container, or mp3.
Copied(f) == Format(GetTargetFormat(f), f.codec)
Encoded   == Format("mp3", "mp3")

Copyable(seen) == seen # Unknown /\ Check(seen) # "transcode"

\* The format of the row, from the first file.
determineTargetFormat(seen) ==
  IF Copyable(seen[1]) THEN GetTargetFormat(seen[1]) ELSE "mp3"

\* What SmartTranscode and SmartTranscodeMultiple write: files are copied one after
\* another only if all can be copied and have one codec.
SmartTranscodeMultiple(seen) ==
  IF \A k \in DOMAIN seen : Copyable(seen[k]) /\ seen[k].codec = seen[1].codec
  THEN Copied(seen[1]) ELSE Encoded

\* What SmartTranscodeSegmented writes, in the format it returns for the row.
SmartTranscodeSegmented(seen) == IF Copyable(seen) THEN Copied(seen) ELSE Encoded

\* What looking at files may show.
Views(files) ==
  {seen \in [DOMAIN files -> {files[k] : k \in DOMAIN files} \cup {Unknown}] :
     \A k \in DOMAIN files : seen[k] \in {files[k], Unknown}}

\* Two looks tell the same: all failed or none did.
Steady(v, w) == \A k \in DOMAIN w : (w[k] = Unknown) = (v[1] = Unknown)

\* What a short book may come to, and a long one.
ShortOutcomes(files) ==
  {[fmt |-> determineTargetFormat(v), content |-> SmartTranscodeMultiple(w),
    steady |-> Steady(v, w)] : v \in Views(files), w \in Views(files)}

Joined(files) ==
  IF Len(files) = 1 THEN {files[1]} ELSE {SmartTranscodeMultiple(w) : w \in Views(files)}

LongOutcomes(files) ==
  LET cut(f) == SmartTranscodeSegmented(f)
  IN  {[fmt |-> cut(f).container, content |-> cut(f), steady |-> TRUE] :
         f \in Joined(files) \cup {Unknown}}

GetContentType(fmt) ==
  IF fmt = "mp4" THEN "audio/mp4"
  ELSE IF fmt = "flac" THEN "audio/flac"
  ELSE IF fmt = "ogg" THEN "audio/ogg"
  ELSE IF fmt = "asf" THEN "audio/x-ms-wma"
  ELSE "audio/mpeg"
=============================================================================
