--------------------------- MODULE StreamingProofs ---------------------------
(***************************************************************************)
(* What holds of streaming for every book, size of file, number of         *)
(* segments, lifetime of tokens and bound.                                 *)
(***************************************************************************)
EXTENDS Streaming, TLAPS

-----------------------------------------------------------------------------
(* Ranges. *)

\* What a satisfiable range is answered with: the bytes the RFC gives it, in the file.
LEMMA AnswerIsDue ==
  ASSUME NEW r \in Ranges, Satisfiable(r, Size)
  PROVE  /\ Start(r, Size) \in 0 .. Size - 1
         /\ End(r, Size) \in 0 .. Size - 1
         /\ Start(r, Size) <= End(r, Size)
         /\ Start(r, Size) .. End(r, Size) = Due(r)
<1> Size \in Nat \ {0}
  BY StreamAssumption
<1>1. CASE r.kind = "all"
  BY <1>1 DEF Start, End, Due
<1>2. CASE r.kind = "open"
  BY <1>2 DEF Start, End, Due, Satisfiable, Ranges, Range
<1>3. CASE r.kind = "suffix"
  BY <1>3 DEF Start, End, Due, Satisfiable, Ranges, Range
<1>4. CASE r.kind = "closed"
  BY <1>4 DEF Start, End, Due, Satisfiable, Ranges, Range
<1> QED
  BY <1>1, <1>2, <1>3, <1>4 DEF Ranges, Range

\* A range that is not satisfiable has no bytes, or ends past the file.
LEMMA RefusedIsEmpty ==
  ASSUME NEW r \in Ranges, ~Satisfiable(r, Size)
  PROVE  Due(r) = {} \/ (r.kind = "closed" /\ r.b >= Size)
<1> Size \in Nat \ {0}
  BY StreamAssumption
<1>1. CASE r.kind = "all"
  BY <1>1 DEF Satisfiable
<1>2. CASE r.kind = "open"
  BY <1>2 DEF Start, End, Due, Satisfiable, Ranges, Range
<1>3. CASE r.kind = "suffix"
  BY <1>3 DEF Start, End, Due, Satisfiable, Ranges, Range
<1>4. CASE r.kind = "closed"
  BY <1>4 DEF Start, End, Due, Satisfiable, Ranges, Range
<1> QED
  BY <1>1, <1>2, <1>3, <1>4 DEF Ranges, Range

-----------------------------------------------------------------------------
(* Formats. *)

\* What is copied is named after the container it goes into.
LEMMA CopyIsNamedRight ==
  ASSUME NEW f, Copyable(f)
  PROVE  Copied(f) = PlayableAs(GetContentType(GetTargetFormat(f)))
BY DEF Copyable, Check, sonosCompatibleCodecs, Copied, Format, GetTargetFormat, GetContentType,
       PlayableAs

LEMMA EncodingIsNamedRight == Encoded = PlayableAs(GetContentType("mp3"))
BY DEF Encoded, Format, GetContentType, PlayableAs

\* A long book: the look that decides what is written also names it.
LEMMA LongIsNamedRight ==
  ASSUME NEW files, NEW o \in LongOutcomes(files)
  PROVE  o.content = PlayableAs(GetContentType(o.fmt))
<1>1. PICK f \in Joined(files) \cup {Unknown} :
        /\ o.fmt = SmartTranscodeSegmented(f).container
        /\ o.content = SmartTranscodeSegmented(f)
  BY DEF LongOutcomes
<1>2. CASE Copyable(f)
  BY <1>1, <1>2, CopyIsNamedRight DEF SmartTranscodeSegmented, Copied, Format
<1>3. CASE ~Copyable(f)
  BY <1>1, <1>3, EncodingIsNamedRight DEF SmartTranscodeSegmented, Encoded, Format
<1> QED
  BY <1>2, <1>3

\* A short book of one codec: two looks that tell the same come to the same.
LEMMA ShortIsNamedRight ==
  ASSUME NEW n \in Nat \ {0}, NEW files, DOMAIN files = 1 .. n,
         \A k \in DOMAIN files : files[k].codec = files[1].codec,
         NEW o \in ShortOutcomes(files), o.steady
  PROVE  o.content = PlayableAs(GetContentType(o.fmt))
<1>1. PICK v \in Views(files), w \in Views(files) :
        /\ o.fmt = determineTargetFormat(v) /\ o.content = SmartTranscodeMultiple(w)
        /\ Steady(v, w)
  BY DEF ShortOutcomes
<1>2. /\ DOMAIN v = 1 .. n /\ DOMAIN w = 1 .. n /\ 1 \in 1 .. n
      /\ \A k \in 1 .. n : v[k] \in {files[k], Unknown} /\ w[k] \in {files[k], Unknown}
  BY DEF Views
<1>3. CASE Copyable(v[1])
  <2>1. v[1] = files[1] /\ \A k \in 1 .. n : w[k] # Unknown /\ w[k] = files[k]
    BY <1>1, <1>2, <1>3 DEF Steady, Copyable
  <2>2. \A k \in 1 .. n : Copyable(w[k]) /\ w[k].codec = w[1].codec
    BY <1>2, <1>3, <2>1 DEF Copyable, Check
  <2>3. o.content = Copied(v[1]) /\ o.fmt = GetTargetFormat(v[1])
    BY <1>1, <1>2, <1>3, <2>1, <2>2 DEF SmartTranscodeMultiple, determineTargetFormat
  <2> QED
    BY <1>3, <2>3, CopyIsNamedRight
<1>4. CASE ~Copyable(v[1])
  <2>1. ~Copyable(w[1])
    BY <1>1, <1>2, <1>4 DEF Steady, Copyable
  <2>2. o.content = Encoded /\ o.fmt = "mp3"
    BY <1>1, <1>2, <1>4, <2>1 DEF SmartTranscodeMultiple, determineTargetFormat
  <2> QED
    BY <2>2, EncodingIsNamedRight
<1> QED
  BY <1>3, <1>4

\* Whatever the files of the book, the Content-Type is that of the contents, and one
\* Sonos plays.
THEOREM TypeFollows == Spec => []TypeIsTheContents
<1>1. Init => TypeIsTheContents
  BY DEF Init, TypeIsTheContents, Made
<1>2. TypeIsTheContents /\ [Next]_vars => TypeIsTheContents'
  <2> SUFFICES ASSUME TypeIsTheContents, [Next]_vars PROVE TypeIsTheContents'
    OBVIOUS
  <2>1. CASE Transcode
    <3>1. PICK n \in 1 .. MaxFiles : \E files \in [1 .. n -> Files], long \in BOOLEAN :
            \E o \in IF long THEN LongOutcomes(files) ELSE ShortOutcomes(files) :
              book' = [files |-> files, long |-> long, fmt |-> o.fmt, content |-> o.content,
                       steady |-> o.steady]
      BY <2>1 DEF Transcode
    <3>2. PICK files \in [1 .. n -> Files], long \in BOOLEAN :
            \E o \in IF long THEN LongOutcomes(files) ELSE ShortOutcomes(files) :
              book' = [files |-> files, long |-> long, fmt |-> o.fmt, content |-> o.content,
                       steady |-> o.steady]
      BY <3>1
    <3>3. PICK o \in IF long THEN LongOutcomes(files) ELSE ShortOutcomes(files) :
            book' = [files |-> files, long |-> long, fmt |-> o.fmt, content |-> o.content,
                     steady |-> o.steady]
      BY <3>2
    <3>4. /\ book'.files = files /\ book'.long = long /\ book'.steady = o.steady
          /\ book'.content = o.content /\ book'.fmt = o.fmt
      BY <3>3
    <3>5. CASE long
      BY <3>4, <3>5, LongIsNamedRight DEF TypeIsTheContents
    <3>6. CASE ~long
      <4> SUFFICES ASSUME \A k \in DOMAIN files : files[k].codec = files[1].codec, o.steady
                   PROVE  o.content = PlayableAs(GetContentType(o.fmt))
        BY <3>4, <3>6 DEF TypeIsTheContents, OneCodec
      <4>1. n \in Nat \ {0} /\ DOMAIN files = 1 .. n
        BY StreamAssumption
      <4> QED
        BY <3>6, <4>1, ShortIsNamedRight
    <3> QED
      BY <3>5, <3>6
  <2>2. CASE UNCHANGED book
    BY <2>2 DEF TypeIsTheContents, Made, OneCodec
  <2> QED
    BY <2>1, <2>2 DEF Next, vars, Press, ToSegment, Get, Copy, Cut, Tick
<1> QED
  BY <1>1, <1>2, PTL DEF Spec

-----------------------------------------------------------------------------
(* Requests and tokens. *)

\* Beyond TypeOK: what the player has been given is one of the book's names, and an
\* answer under way is of a file that is there.
UrlInv ==
  /\ url # NoUrl => Made /\ url.name = IF book.long THEN "segment" ELSE "audio"
  /\ url.name # "segment" => url.seg = 0
  /\ conn # NoConn => /\ url.seg < Segments
                     /\ asked \in Ranges /\ conn.next \in conn.first .. conn.last

TypeInv == TypeOK /\ UrlInv

\* The constants, as numbers.
LEMMA Constants ==
  /\ Size \in Nat \ {0} /\ Segments \in Nat \ {0, 1} /\ TTL \in Nat /\ Horizon \in Nat
  /\ MaxLoads \in Nat
BY StreamAssumption

LEMMA InitTypes == Init => TypeInv
<1> SUFFICES ASSUME Init PROVE TypeInv
  OBVIOUS
<1>1. TypeOK
  BY Constants
     DEF Init, TypeOK, NoBook, NoUrl, NoConn, NoRange
<1>2. UrlInv
  BY DEF Init, UrlInv, NoUrl, NoConn
<1> QED
  BY <1>1, <1>2 DEF TypeInv

\* A URL given to the player, with a token that expires in time.
LEMMA GiveTypes ==
  ASSUME TypeInv, NEW e \in 0 .. Horizon + TTL, NEW seg \in 0 .. Segments, Made,
         Give(UrlOf(e, seg)), UNCHANGED <<now, book>>,
         token' \in 0 .. Horizon + TTL, pressed' \in -1 .. Horizon
  PROVE  TypeInv'
<1>1. /\ url' = [expires |-> e, name |-> IF book.long THEN "segment" ELSE "audio",
                 seg |-> IF book.long THEN seg ELSE 0]
      /\ got' = {} /\ asked' = NoRange /\ conn' = NoConn /\ refused' = "no"
      /\ loads < MaxLoads /\ loads' = loads + 1
  BY DEF Give, UrlOf
<1>2. TypeOK'
  BY <1>1, Constants DEF TypeInv, TypeOK
<1>3. UrlInv'
  BY <1>1 DEF TypeInv, TypeOK, UrlInv, Made
<1> QED
  BY <1>2, <1>3 DEF TypeInv

LEMMA NextTypes == TypeInv /\ [Next]_vars => TypeInv'
<1> SUFFICES ASSUME TypeInv, [Next]_vars PROVE TypeInv'
  OBVIOUS
<1> USE Constants
<1>1. CASE Transcode
  <2>1. /\ url = NoUrl \/ Made
        /\ ~Made /\ book'.long \in BOOLEAN
        /\ UNCHANGED <<now, token, url, got, asked, conn, loads, refused, pressed>>
    BY <1>1 DEF Transcode, TypeInv, UrlInv
  <2>2. book'.steady \in BOOLEAN
    <3>0. PICK n \in 1 .. MaxFiles : \E files \in [1 .. n -> Files], long \in BOOLEAN :
            \E o \in IF long THEN LongOutcomes(files) ELSE ShortOutcomes(files) :
              book' = [files |-> files, long |-> long, fmt |-> o.fmt, content |-> o.content,
                       steady |-> o.steady]
      BY <1>1 DEF Transcode
    <3>1. PICK files \in [1 .. n -> Files], long \in BOOLEAN :
            \E o \in IF long THEN LongOutcomes(files) ELSE ShortOutcomes(files) :
              book' = [files |-> files, long |-> long, fmt |-> o.fmt, content |-> o.content,
                       steady |-> o.steady]
      BY <3>0
    <3>2. ASSUME NEW o \in LongOutcomes(files) PROVE o.steady \in BOOLEAN
      <4>1. PICK f : o = [fmt |-> SmartTranscodeSegmented(f).container,
                          content |-> SmartTranscodeSegmented(f), steady |-> TRUE]
        BY DEF LongOutcomes
      <4> QED
        BY <4>1
    <3>3. ASSUME NEW o \in ShortOutcomes(files) PROVE o.steady \in BOOLEAN
      <4>1. PICK v, w : o = [fmt |-> determineTargetFormat(v),
                             content |-> SmartTranscodeMultiple(w), steady |-> Steady(v, w)]
        BY DEF ShortOutcomes
      <4>2. Steady(v, w) \in BOOLEAN
        BY DEF Steady
      <4>3. o.steady = Steady(v, w)
        BY <4>1
      <4> QED
        BY <4>2, <4>3
    <3>4. PICK o \in IF long THEN LongOutcomes(files) ELSE ShortOutcomes(files) :
            book' = [files |-> files, long |-> long, fmt |-> o.fmt, content |-> o.content,
                     steady |-> o.steady]
      BY <3>1
    <3>5. o.steady \in BOOLEAN
      BY <3>2, <3>3, <3>4
    <3> QED
      BY <3>4, <3>5
  <2> QED
    BY <2>1, <2>2 DEF TypeInv, TypeOK, UrlInv
<1>2. ASSUME NEW seg \in 0 .. Segments, Press(seg) PROVE TypeInv'
  <2>1. Made /\ NewToken \in 0 .. Horizon + TTL /\ Give(UrlOf(NewToken, seg))
    BY <1>2 DEF Press, NewToken, TypeInv, TypeOK
  <2>2. token' \in 0 .. Horizon + TTL /\ pressed' \in -1 .. Horizon /\ UNCHANGED <<now, book>>
    BY <1>2, <2>1 DEF Press, TypeInv, TypeOK
  <2> QED
    BY <2>1, <2>2, GiveTypes
<1>3. ASSUME NEW seg \in 0 .. Segments, ToSegment(seg) PROVE TypeInv'
  <2>1. Made /\ token \in 0 .. Horizon + TTL /\ Give(UrlOf(token, seg))
    BY <1>3 DEF ToSegment, TypeInv, TypeOK, UrlInv
  <2>2. UNCHANGED <<now, book, token, pressed>> /\ pressed \in -1 .. Horizon
    BY <1>3 DEF ToSegment, TypeInv, TypeOK
  <2> QED
    BY <2>1, <2>2, GiveTypes
<1>4. ASSUME NEW r \in Ranges, Get(r) PROVE TypeInv'
  <2>1. CASE ~(Valid(url) /\ Found(url) /\ Satisfiable(r, Size))
    <3>1. /\ conn = NoConn /\ conn' = NoConn
          /\ asked' \in {NoRange, r} /\ refused' \in {"expired", "missing", "range"}
          /\ UNCHANGED <<now, book, token, url, got, loads, pressed>>
      BY <1>4, <2>1 DEF Get
    <3> QED
      BY <3>1 DEF TypeInv, TypeOK, UrlInv, Made
  <2>2. CASE Valid(url) /\ Found(url) /\ Satisfiable(r, Size)
    <3>1. /\ Found(url) /\ Satisfiable(r, Size) /\ refused' = "no" /\ asked' = r
          /\ conn' = [first |-> Start(r, Size), next |-> Start(r, Size),
                      last |-> End(r, Size), since |-> now]
          /\ url # NoUrl /\ UNCHANGED <<now, book, token, url, got, loads, pressed>>
      BY <1>4, <2>2 DEF Get
    <3>2. url.seg < Segments
      BY <3>1 DEF Found, Count, TypeInv, TypeOK, UrlInv
    <3>3. /\ Start(r, Size) \in 0 .. Size - 1 /\ End(r, Size) \in 0 .. Size - 1
          /\ Start(r, Size) <= End(r, Size)
      BY <3>1, AnswerIsDue
    <3>4. TypeOK'
      BY <3>1, <3>3 DEF TypeInv, TypeOK
    <3>5. UrlInv'
      BY <3>1, <3>2, <3>3 DEF TypeInv, UrlInv, Made
    <3> QED
      BY <3>4, <3>5 DEF TypeInv
  <2> QED
    BY <2>1, <2>2
<1>5. CASE Copy
  <2>1. /\ conn \in [first : 0 .. Size - 1, next : 0 .. Size - 1,
                     last : 0 .. Size - 1, since : 0 .. now]
        /\ conn.next \in conn.first .. conn.last /\ url.seg \in 0 .. Segments - 1
    BY <1>5 DEF Copy, TypeInv, TypeOK, UrlInv
  <2>2. got' \in SUBSET (0 .. Size - 1)
    BY <1>5, <2>1 DEF Copy, TypeInv, TypeOK
  <2>3. /\ conn' = NoConn \/ /\ conn' \in [first : 0 .. Size - 1, next : 0 .. Size - 1,
                                           last : 0 .. Size - 1, since : 0 .. now]
                             /\ conn'.next \in conn'.first .. conn'.last
                             /\ asked' = asked
        /\ asked' \in {asked, NoRange}
    <3>1. CASE conn.next = conn.last
      BY <1>5, <3>1 DEF Copy
    <3>2. CASE conn.next # conn.last
      <4>1. conn.next + 1 \in 0 .. Size - 1 /\ conn.next + 1 \in conn.first .. conn.last
        BY <2>1, <3>2
      <4>2. conn' = [conn EXCEPT !.next = conn.next + 1] /\ asked' = asked
        BY <1>5, <3>2 DEF Copy
      <4>3. conn' = [first |-> conn.first, next |-> conn.next + 1, last |-> conn.last,
                     since |-> conn.since]
        BY <2>1, <4>2
      <4> QED
        BY <2>1, <4>1, <4>2, <4>3
    <3> QED
      BY <3>1, <3>2
  <2>4. UNCHANGED <<now, book, token, url, loads, refused, pressed>> /\ conn # NoConn
    BY <1>5 DEF Copy
  <2>5. TypeOK'
    BY <2>2, <2>3, <2>4 DEF TypeInv, TypeOK
  <2>6. UrlInv'
    BY <2>1, <2>3, <2>4 DEF TypeInv, UrlInv, Made
  <2> QED
    BY <2>5, <2>6 DEF TypeInv
<1>6. CASE Cut
  BY <1>6 DEF Cut, TypeInv, TypeOK, UrlInv, Made
<1>7. CASE Tick
  BY <1>7 DEF Tick, TypeInv, TypeOK, UrlInv, Made
<1>8. CASE UNCHANGED vars
  BY <1>8 DEF vars, TypeInv, TypeOK, UrlInv, Made
<1> QED
  BY <1>1, <1>2, <1>3, <1>4, <1>5, <1>6, <1>7, <1>8 DEF Next

\* Types, for every size and number of segments.
THEOREM TypeCorrect == Spec => []TypeOK
BY InitTypes, NextTypes, PTL DEF Spec, TypeInv

-----------------------------------------------------------------------------
(* What reaches the player. *)

\* A player that was refused is not being answered.
RangeInv == RangesAreHonoured /\ (conn # NoConn => refused = "no")

\* Answers are the bytes of their ranges, and what is refused has none or ends past
\* the file.
THEOREM RangesHonoured == Spec => []RangesAreHonoured
<1>1. Init => RangeInv
  BY DEF Init, RangeInv, RangesAreHonoured
<1>2. TypeInv /\ RangeInv /\ [Next]_vars => RangeInv'
  <2> SUFFICES ASSUME TypeInv, RangeInv, [Next]_vars PROVE RangeInv'
    OBVIOUS
  <2>1. ASSUME NEW u, Give(u) PROVE RangeInv'
    BY <2>1 DEF Give, RangeInv, RangesAreHonoured
  <2>2. ASSUME NEW r \in Ranges, Get(r) PROVE RangeInv'
    <3>1. CASE ~(Valid(url) /\ Found(url))
      <4>1. conn' = NoConn /\ refused' \in {"expired", "missing"}
        BY <2>2, <3>1 DEF Get
      <4> QED
        BY <4>1 DEF RangeInv, RangesAreHonoured
    <3>2. CASE Valid(url) /\ Found(url) /\ ~Satisfiable(r, Size)
      <4>1. conn' = NoConn /\ asked' = r
        BY <2>2, <3>2 DEF Get
      <4>2. Due(r) = {} \/ (r.kind = "closed" /\ r.b >= Size)
        BY <3>2, RefusedIsEmpty
      <4> QED
        BY <4>1, <4>2 DEF RangeInv, RangesAreHonoured, Due
    <3>3. CASE Valid(url) /\ Found(url) /\ Satisfiable(r, Size)
      <4>1. /\ asked' = r /\ refused' = "no"
            /\ conn' = [first |-> Start(r, Size), next |-> Start(r, Size),
                        last |-> End(r, Size), since |-> now]
        BY <2>2, <3>3 DEF Get
      <4>2. conn'.first .. conn'.last = Due(r)
        BY <3>3, <4>1, AnswerIsDue
      <4> QED
        BY <4>1, <4>2 DEF RangeInv, RangesAreHonoured, Due
    <3> QED
      BY <3>1, <3>2, <3>3
  <2>3. CASE Copy
    <3>1. conn # NoConn /\ refused' = "no"
      BY <2>3 DEF Copy, RangeInv
    <3>2. CASE conn.next = conn.last
      BY <2>3, <3>1, <3>2 DEF Copy, RangeInv, RangesAreHonoured
    <3>3. CASE conn.next # conn.last
      <4>1. conn'.first = conn.first /\ conn'.last = conn.last /\ asked' = asked
        BY <2>3, <3>1, <3>3 DEF Copy, TypeInv, TypeOK
      <4> QED
        BY <3>1, <4>1 DEF RangeInv, RangesAreHonoured, Due
    <3> QED
      BY <3>2, <3>3
  <2>4. CASE Cut
    BY <2>4 DEF Cut, RangeInv, RangesAreHonoured
  <2>5. CASE UNCHANGED <<asked, conn, refused>>
    BY <2>5 DEF RangeInv, RangesAreHonoured, Due
  <2> QED
    BY <2>1, <2>2, <2>3, <2>4, <2>5 DEF Next, vars, Transcode, Press, ToSegment, Tick
<1> QED
  BY <1>1, <1>2, InitTypes, NextTypes, PTL DEF Spec, RangeInv

\* No token given to the player, nor the row's, is older than the row's /play.
TokenInv ==
  /\ pressed <= now
  /\ pressed # -1 => token >= pressed + TTL
  /\ url # NoUrl => url.expires >= pressed + TTL
  /\ PlayerIsServed

\* Nobody who pressed play within the lifetime of a token is turned away, but at the
\* very end of a book.
THEOREM Served == Spec => []PlayerIsServed
<1>1. Init => TokenInv
  BY Constants DEF Init, TokenInv, PlayerIsServed
<1>2. TypeInv /\ TokenInv /\ [Next]_vars => TokenInv'
  <2> SUFFICES ASSUME TypeInv, TokenInv, [Next]_vars PROVE TokenInv'
    OBVIOUS
  <2> USE Constants
  <2>1. ASSUME NEW seg \in 0 .. Segments, Press(seg) PROVE TokenInv'
    <3>1. url'.expires = now + TTL /\ refused' = "no" /\ now' = now
      BY <2>1 DEF Press, Give, UrlOf, NewToken
    <3>2. \/ token' = now + TTL /\ pressed' = now
          \/ UNCHANGED <<token, pressed>>
      BY <2>1 DEF Press, NewToken
    <3> QED
      BY <3>1, <3>2 DEF TokenInv, PlayerIsServed, TypeInv, TypeOK
  <2>2. ASSUME NEW seg \in 0 .. Segments, ToSegment(seg) PROVE TokenInv'
    <3>1. /\ url'.expires = token /\ refused' = "no" /\ pressed # -1
          /\ UNCHANGED <<now, token, pressed>>
      BY <2>2 DEF ToSegment, Give, UrlOf
    <3> QED
      BY <3>1 DEF TokenInv, PlayerIsServed
  <2>3. ASSUME NEW r \in Ranges, Get(r) PROVE TokenInv'
    <3>1. url # NoUrl /\ UNCHANGED <<now, token, url, pressed>>
      BY <2>3 DEF Get
    <3>2. refused' = "expired" => now > url.expires
      BY <2>3 DEF Get, Valid
    <3>3. refused' = "missing" => url.seg = Segments
      <4>1. refused' = "missing" => ~Found(url)
        BY <2>3 DEF Get
      <4> QED
        BY <3>1, <4>1 DEF Found, Count, TypeInv, TypeOK, UrlInv
    <3> QED
      BY <3>1, <3>2, <3>3 DEF TokenInv, PlayerIsServed, TypeInv, TypeOK
  <2>4. CASE Tick
    BY <2>4 DEF Tick, TokenInv, PlayerIsServed, TypeInv, TypeOK
  <2>5. CASE UNCHANGED <<now, token, url, refused, pressed>>
    BY <2>5 DEF TokenInv, PlayerIsServed
  <2> QED
    BY <2>1, <2>2, <2>3, <2>4, <2>5 DEF Next, vars, Transcode, Copy, Cut
<1> QED
  BY <1>1, <1>2, InitTypes, NextTypes, PTL DEF Spec, TokenInv

=============================================================================
