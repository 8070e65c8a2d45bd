----------------------------- MODULE Streaming -----------------------------
(***************************************************************************)
(* How a cached book gets to a player: the tokens in stream URLs, the      *)
(* answers of GET /stream/{token}/{name}, and the player that asks for     *)
(* ranges of the file, is cut off by the server's write timeout and asks   *)
(* again.  The token is checked when a request comes in, so its age counts *)
(* every time the player comes back.  One book, played by one session; the *)
(* player is not part of the program.                                      *)
(*                                                                         *)
(* Left out: tokens that were not issued, names that no URL of the program *)
(* has, HEAD requests, SQL and seek errors, cache files that are replaced  *)
(* (TranscodeCache), and the old player of a switch.                       *)
(***************************************************************************)
EXTENDS FormatChoice, Integers, FiniteSets

CONSTANTS
  Files,        \* what the files of the book are made of
  MaxFiles,     \* bound on their number
  Segments,     \* files a long book is cut into
  Size,         \* bytes of each file
  TTL,          \* how long a token is good for (an hour)
  WriteTimeout, \* how long an answer may take (300 s)
  Horizon,      \* bound on time
  MaxLoads      \* bound on the URLs given to the player

ASSUME StreamAssumption ==
  /\ Files \subseteq [container : STRING, codec : STRING] /\ MaxFiles \in Nat \ {0}
  /\ Segments \in Nat \ {0, 1} /\ Size \in Nat \ {0}
  /\ TTL \in Nat /\ WriteTimeout \in Nat \ {0} /\ Horizon \in Nat
  /\ MaxLoads \in Nat

VARIABLES
  now,          \* time
  book,         \* its files, and what was made of them
  token,        \* when the token of the playback row expires
  url,          \* what the player has been given
  got,          \* the places of the file whose bytes it has
  asked,        \* the range of the last request, while it is answered or if it was refused
  conn,         \* the answer that is under way
  loads,        \* how many URLs it has been given
  refused,      \* why the player was turned away
  pressed       \* auxiliary: when the row got the token of a /play or a switch

vars == <<now, book, token, url, got, asked, conn, loads, refused, pressed>>

-----------------------------------------------------------------------------
(* Names and ranges. *)

NoBook == [files |-> <<>>, long |-> FALSE, fmt |-> "none", content |-> Unknown, steady |-> TRUE]
NoUrl  == [expires |-> 0, name |-> "none", seg |-> 0]
NoConn == [first |-> 0, next |-> 0, last |-> -1, since |-> 0]

Made == book # NoBook

Count == IF book.long THEN Segments ELSE 1

\* The URL of a segment, or of the book's only file.
UrlOf(expires, seg) ==
  [expires |-> expires, name |-> IF book.long THEN "segment" ELSE "audio",
   seg |-> IF book.long THEN seg ELSE 0]

\* Range headers: none, "a-b", "a-", "-a" (the last a bytes).
Range(kind, a, b) == [kind |-> kind, a |-> a, b |-> b]
NoRange == Range("none", 0, 0)
Ranges == {Range("all", 0, 0)}
          \cup {Range(k, a, 0) : k \in {"open", "suffix"}, a \in 0 .. Size + 1}
          \cup {Range("closed", a, b) : a, b \in 0 .. Size + 1}

\* Mutant: a suffix longer than the file.
Start_unclamped(r, size) ==
  IF r.kind = "suffix" THEN size - r.a ELSE r.a

Start(r, size) ==
  IF r.kind = "all" THEN 0
  ELSE IF r.kind # "suffix" THEN r.a
  ELSE IF size - r.a < 0 THEN 0 ELSE size - r.a

\* Mutant: the end of an open range is one too far.
End_size(r, size) == IF r.kind = "closed" THEN r.b ELSE size

End(r, size) == IF r.kind = "closed" THEN r.b ELSE size - 1

\* Mutant: a range that ends past the file is let through.
Satisfiable_any_end(r, size) ==
  r.kind = "all" \/ (Start(r, size) \in 0 .. size - 1 /\ End(r, size) >= Start(r, size))

Satisfiable(r, size) ==
  \/ r.kind = "all"
  \/ /\ Start(r, size) >= 0 /\ Start(r, size) < size
     /\ End(r, size) >= Start(r, size) /\ End(r, size) < size

-----------------------------------------------------------------------------
(* The handlers. *)

\* A transcode of the book, of any files.
Transcode ==
  /\ ~Made
  /\ \E n \in 1 .. MaxFiles : \E files \in [1 .. n -> Files], long \in BOOLEAN :
       \E o \in IF long THEN LongOutcomes(files) ELSE ShortOutcomes(files) :
         book' = [files |-> files, long |-> long, fmt |-> o.fmt, content |-> o.content,
                  steady |-> o.steady]
  /\ UNCHANGED <<now, token, url, got, asked, conn, loads, refused, pressed>>

\* The player is given a URL and drops what it had.
Give(u) ==
  /\ loads < MaxLoads /\ loads' = loads + 1
  /\ url' = u
  /\ got' = {} /\ asked' = NoRange /\ conn' = NoConn /\ refused' = "no"

\* Mutant: a switch gives the new player the row's old token.
NewToken_old == IF url = NoUrl THEN now + TTL ELSE token

\* Generate.
NewToken == now + TTL

\* POST /play, from the start or from where ABS has it (also at the very end,
\* where no segment is), and a switch of players: a new token, in the URL and
\* then in the row, unless the request ends before that.
Press(seg) ==
  /\ Made /\ seg \in 0 .. Segments
  /\ Give(UrlOf(NewToken, seg))
  /\ \/ token' = NewToken /\ pressed' = now
     \/ UNCHANGED <<token, pressed>>
  /\ UNCHANGED <<now, book>>

\* The move to the next segment and a seek to any: the row's token.
ToSegment(seg) ==
  /\ url # NoUrl /\ pressed # -1 /\ book.long /\ seg \in 0 .. Segments - 1 /\ seg # url.seg
  /\ Give(UrlOf(token, seg))
  /\ UNCHANGED <<now, book, token, pressed>>

\* Validate.
Valid(u) == ~(now > u.expires)

Found(u) == IF u.name = "segment" THEN book.long /\ u.seg < Count ELSE ~book.long

\* HandleStream, up to the first byte.
Get(r) ==
  /\ url # NoUrl /\ conn = NoConn
  /\ \/ /\ ~Valid(url) /\ refused' = "expired"
        /\ asked' = NoRange /\ UNCHANGED conn
     \/ /\ Valid(url) /\ ~Found(url) /\ refused' = "missing"
        /\ asked' = NoRange /\ UNCHANGED conn
     \/ /\ Valid(url) /\ Found(url) /\ ~Satisfiable(r, Size) /\ refused' = "range"
        /\ asked' = r /\ UNCHANGED conn
     \/ /\ Valid(url) /\ Found(url) /\ Satisfiable(r, Size) /\ refused' = "no"
        /\ asked' = r
        /\ conn' = [first |-> Start(r, Size), next |-> Start(r, Size),
                    last |-> End(r, Size), since |-> now]
  /\ UNCHANGED <<now, book, token, url, got, loads, pressed>>

\* The player asks for what it does not have yet.
Missing == (0 .. Size - 1) \ got

GetRest == \E o \in Missing :
  (\A q \in Missing : o <= q) /\ Get(Range("open", o, 0))

\* Copying on, from the range's next place: Content-Range says where it belongs.
Copy ==
  /\ conn # NoConn
  /\ got' = got \cup {conn.next}
  /\ IF conn.next = conn.last THEN conn' = NoConn /\ asked' = NoRange
     ELSE conn' = [conn EXCEPT !.next = @ + 1] /\ UNCHANGED asked
  /\ UNCHANGED <<now, book, token, url, loads, refused, pressed>>

CopyMissing == conn.next \in Missing /\ Copy

\* The write timeout, a broken connection, or the end of the process; tokens
\* outlive it, their key being configured.
Cut ==
  /\ conn # NoConn /\ conn' = NoConn /\ asked' = NoRange
  /\ UNCHANGED <<now, book, token, url, got, loads, refused, pressed>>

\* Time; an answer that has taken its time is cut before it goes on.
Tick ==
  /\ now < Horizon /\ now' = now + 1
  /\ conn # NoConn => now - conn.since < WriteTimeout
  /\ UNCHANGED <<book, token, url, got, asked, conn, loads, refused, pressed>>
-----------------------------------------------------------------------------
(* The specification. *)

Init ==
  /\ now = 0 /\ book = NoBook
  /\ token = 0 /\ pressed = -1
  /\ url = NoUrl /\ got = {} /\ asked = NoRange /\ conn = NoConn
  /\ loads = 0 /\ refused = "no"

Next ==
  \/ Transcode
  \/ \E seg \in 0 .. Segments : Press(seg) \/ ToSegment(seg)
  \/ \E r \in Ranges : Get(r)
  \/ Copy \/ Cut \/ Tick

Spec == Init /\ [][Next]_vars

\* The server goes on with an answer.  Of the player: whatever else it asks for, it
\* comes back for what it lacks.  Of the network: of many answers, one gets through.
FairSpec == Spec /\ WF_vars(Copy) /\ SF_vars(GetRest) /\ SF_vars(CopyMissing)

-----------------------------------------------------------------------------
(* Properties. *)

TypeOK ==
  /\ now \in 0 .. Horizon
  /\ book.long \in BOOLEAN /\ book.steady \in BOOLEAN
  /\ token \in 0 .. Horizon + TTL /\ pressed \in -1 .. Horizon
  /\ url \in [expires : 0 .. Horizon + TTL, name : {"none", "audio", "segment"}, seg : 0 .. Segments]
  /\ got \in SUBSET (0 .. Size - 1)
  /\ asked \in Ranges \cup {NoRange}
  /\ conn = NoConn \/ conn \in [first : 0 .. Size - 1, next : 0 .. Size - 1,
                               last : 0 .. Size - 1, since : 0 .. now]
  /\ loads \in 0 .. MaxLoads
  /\ refused \in {"no", "expired", "missing", "range"}

\* A player is turned away only for one of two reasons: the last /play or switch
\* that reached the row is more than TTL ago, or the book was started at its very end.
PlayerIsServed ==
  /\ refused = "expired" => now > pressed + TTL
  /\ refused = "missing" => url.seg = Segments

\* The bytes RFC 7233 gives a range.
Due(r) ==
  {o \in 0 .. Size - 1 : /\ r.kind = "open" => r.a <= o
                         /\ r.kind = "suffix" => Size - r.a <= o
                         /\ r.kind = "closed" => r.a <= o /\ o <= r.b}

\* An answer consists of the bytes RFC 7233 gives its range, and a range is refused
\* only if there are none, or, against the RFC, if it ends past the file.
RangesAreHonoured ==
  /\ conn # NoConn => conn.first .. conn.last = Due(asked)
  /\ refused = "range" => Due(asked) = {} \/ (asked.kind = "closed" /\ asked.b >= Size)

\* The audio Sonos plays: what the containers are documented to hold.
PlayableAs(type) ==
  IF type = "audio/mp4" THEN Format("mp4", "aac")
  ELSE IF type = "audio/flac" THEN Format("flac", "flac")
  ELSE IF type = "audio/ogg" THEN Format("ogg", "vorbis")
  ELSE IF type = "audio/x-ms-wma" THEN Format("asf", "wmav2")
  ELSE Format("mp3", "mp3")

OneCodec == \A k \in DOMAIN book.files : book.files[k].codec = book.files[1].codec

\* The Content-Type a book is served with, and announced to the player with, is that
\* of what is in the file, and is one Sonos plays: for long books always, for
\* short ones if their files have one codec and no look failed alone.
TypeIsTheContents ==
  Made /\ (book.long \/ (OneCodec /\ book.steady)) =>
    book.content = PlayableAs(GetContentType(book.fmt))

\* A player that keeps asking gets the whole file in the end, however often it is
\* cut off, unless it is turned away or given another.
FileArrives ==
  \A n \in 1 .. MaxLoads :
    loads = n ~> (loads > n \/ refused \in {"expired", "missing"} \/ Missing = {})

=============================================================================
