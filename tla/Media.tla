------------------------------- MODULE Media --------------------------------
(***************************************************************************)
(* The media routes of the gateway.  A private object is answered by a     *)
(* redirect to a signed link that expires, or streamed; a link that is no  *)
(* longer good is exchanged for a new one; and an image of the public      *)
(* bucket is answered in the size, format and quality asked for, made once *)
(* and kept in the bucket under a name derived from the request.  Nothing  *)
(* relates how long a redirect may be kept to how long its link is good:   *)
(* under some settings it is kept for longer.                              *)
(***************************************************************************)
EXTENDS Integers, FiniteSets

CONSTANTS
    MediaConfigs,     \* the settings the gateway may be started with
    Readers,          \* requests under way at the same time
    MediaAsks,        \* what a reader may ask for
    Objects,          \* keys of the private bucket that hold an object
    DefaultExpiry,    \* how long a signed link is good when no time is set
    MaxExpiry,
    PrivateAge,       \* how long a redirect may be kept by a browser
    DefaultAge,       \* how long a shared redirect may be kept when nothing is set
    Widths,           \* the widths images are made in
    DefaultWidth, DefaultQuality,
    MaxSide,          \* height asked for at most
    MaxSource, MaxPixels,
    MaxPublicChanges  \* bound on the changes of the public bucket explored

VARIABLES
    config,        \* the settings of this process
    mediaHandler,  \* what serves the media routes
    readings,      \* what every reader asks for, and how far it has come
    public,        \* the public bucket
    mediaChanges   \* bound: changes of the public bucket so far

mediaVars == <<config, mediaHandler, readings, public, mediaChanges>>
-----------------------------------------------------------------------------
\* LoadConfig: no storage setting at all is a choice, some but not all is an error.
Handler(c) ==
    CASE c.storage = "absent" -> "unavailable"
      [] c.storage = "partial" \/ ~c.secret \/ ~c.private -> "stopped"
      [] OTHER -> "serving"

SignedExpiry(c) ==
    IF c.expiry <= 0 THEN DefaultExpiry ELSE IF c.expiry > MaxExpiry THEN MaxExpiry ELSE c.expiry

\* Readers ask for one of the routes.
ASSUME MediaAssumption == \A ask \in MediaAsks : ask.path \in {"object", "image", "refresh", "other"}

NoAnswer == [kind |-> "nothing", code |-> 0, good |-> 0, kept |-> 0, key |-> << >>]
NoReading == [phase |-> "idle", ask |-> [path |-> "none"], made |-> << >>, answer |-> NoAnswer]

MediaInit ==
    /\ config \in MediaConfigs
    /\ mediaHandler = Handler(config)
    /\ readings = [r \in Readers |-> NoReading]
    /\ public \in {[k \in {<<"src", 1>>} |-> [bytes |-> b, pixels |-> 1, of |-> << >>]] : b \in {1, MaxSource + 1}}
    /\ mediaChanges = 0

Answer(r, a) == readings' = [readings EXCEPT ![r].phase = "answered", ![r].answer = a]
Code(n) == [NoAnswer EXCEPT !.kind = "code", !.code = n]
-----------------------------------------------------------------------------
Ask(r, ask) ==
    /\ mediaHandler # "stopped" /\ readings[r].phase = "idle"
    /\ readings' = [readings EXCEPT ![r] = [NoReading EXCEPT !.phase = ask.path, !.ask = ask]]
    /\ UNCHANGED <<config, mediaHandler, public, mediaChanges>>

\* Every media route of a process without storage answers that it is unavailable.
Unavailable(r) ==
    /\ mediaHandler = "unavailable" /\ readings[r].phase \in {"object", "image", "refresh", "other"}
    /\ Answer(r, Code(503))
    /\ UNCHANGED <<config, mediaHandler, public, mediaChanges>>

Serving(r, path) == mediaHandler = "serving" /\ readings[r].phase = path

Unknown(r) ==
    /\ Serving(r, "other")
    /\ Answer(r, Code(404))
    /\ UNCHANGED <<config, mediaHandler, public, mediaChanges>>

\* A request names a key of a known kind, with the signature made for that key.
ValidObject(ask) == ask.signed = ask.key /\ ask.key # "outside"

Redirected(ask) ==
    /\ config.redirect
    /\ ~ask.webview \/ ~ask.download
    /\ ask.download => config.attachment

\* How long the redirect may be kept; that of a download never is.
AgeOf(ask) == IF ask.download THEN 0 ELSE IF config.shared THEN config.age ELSE PrivateAge

ServeObject(r) ==
    LET ask == readings[r].ask
    IN /\ Serving(r, "object")
       /\ Answer(r, CASE ask.method = "OPTIONS" -> Code(204)
                      [] ask.method = "POST" \/ ~ValidObject(ask) -> Code(404)
                      [] Redirected(ask) ->
                            [NoAnswer EXCEPT !.kind = "link", !.code = 302,
                                             !.good = SignedExpiry(config), !.kept = AgeOf(ask)]
                      [] ask.key \notin Objects -> Code(404)
                      [] OTHER -> [NoAnswer EXCEPT !.kind = "stream", !.code = IF ask.range THEN 206 ELSE 200])
       /\ UNCHANGED <<config, mediaHandler, public, mediaChanges>>

\* An old link of this host, correctly signed, is signed again; downloads stay downloads.
Refresh(r) ==
    LET ask == readings[r].ask
    IN /\ Serving(r, "refresh")
       /\ Answer(r, IF ask.host \in {"none", "own"} /\ ValidObject(ask)
                    THEN [NoAnswer EXCEPT !.kind = "refreshed", !.code = 200, !.key = <<ask.key, ask.download>>]
                    ELSE Code(400))
       /\ UNCHANGED <<config, mediaHandler, public, mediaChanges>>
-----------------------------------------------------------------------------
Rounded(w) ==
    LET fitting == {x \in Widths : (IF w > 0 THEN w ELSE DefaultWidth) <= x}
    IN IF fitting = {} THEN CHOOSE x \in Widths : \A y \in Widths : y <= x
       ELSE CHOOSE x \in fitting : \A y \in fitting : x <= y

Formats == {"webp", "jpeg", "avif"}

\* Zero stands for what the request leaves out; the format left out is webp.
ValidOptions(ask) ==
    /\ ask.height \in 0..MaxSide /\ ask.quality \in 0..100
    /\ ask.format \in Formats \cup {""}

\* What a request asks for, the defaults in place of what it leaves out.
ParseImageOptions(ask) ==
    <<ask.source, Rounded(ask.width), ask.height, IF ask.quality = 0 THEN DefaultQuality ELSE ask.quality,
      IF ask.format = "" THEN "webp" ELSE ask.format>>

\* The name of the kept image is derived from all that makes it differ from others.
CacheKey(ask) == <<"img", ParseImageOptions(ask)>>

\* The redirect to a kept image may be kept for ever.
Kept(ask) == [NoAnswer EXCEPT !.kind = "image", !.code = 302, !.key = CacheKey(ask)]

LookUpImage(r) ==
    LET ask == readings[r].ask
    IN /\ Serving(r, "image")
       /\ IF ~ask.public \/ ~ValidOptions(ask) THEN Answer(r, Code(400))
          ELSE \/ CacheKey(ask) \in DOMAIN public /\ Answer(r, Kept(ask))
               \* not there, or the question failed
               \/ readings' = [readings EXCEPT ![r].phase = "fetch"]
       /\ UNCHANGED <<config, mediaHandler, public, mediaChanges>>

\* The source is copied to a file before it is looked at.
FetchSource(r) ==
    LET key == <<"src", readings[r].ask.source>>
    IN /\ Serving(r, "fetch")
       /\ \/ Answer(r, Code(503))
          \/ /\ key \in DOMAIN public
             /\ IF public[key].bytes > MaxSource THEN Answer(r, Code(400))
                ELSE readings' = [readings EXCEPT ![r].phase = "made", ![r].made = <<public[key]>>]
       /\ UNCHANGED <<config, mediaHandler, public, mediaChanges>>

\* An image that is too large, or that the tool cannot read, is not made; what was made
\* is stored whole and only then answered.
StoreImage(r) ==
    LET ask == readings[r].ask
        source == readings[r].made[1]
    IN /\ Serving(r, "made")
       /\ \/ Answer(r, Code(503)) /\ UNCHANGED public
          \/ /\ source.pixels <= MaxPixels
             /\ public' = [k \in DOMAIN public \cup {CacheKey(ask)} |->
                              IF k = CacheKey(ask)
                              THEN [bytes |-> 1, pixels |-> 1, of |-> ParseImageOptions(ask)]
                              ELSE public[k]]
             \* the answer of the store may be lost after the image was stored
             /\ Answer(r, Kept(ask)) \/ Answer(r, Code(503))
       /\ UNCHANGED <<config, mediaHandler, mediaChanges>>

\* The reader has its answer, and may ask again.
Leave(r) ==
    /\ readings[r].phase = "answered"
    /\ readings' = [readings EXCEPT ![r] = NoReading]
    /\ UNCHANGED <<config, mediaHandler, public, mediaChanges>>

\* Another program writes a source anew or adds one.
Upload ==
    /\ mediaChanges < MaxPublicChanges
    /\ mediaChanges' = mediaChanges + 1
    /\ \E s \in {1, 2}, px \in {1, MaxPixels + 1} :
          public' = [k \in DOMAIN public \cup {<<"src", s>>} |->
                        IF k = <<"src", s>> THEN [bytes |-> 2, pixels |-> px, of |-> << >>] ELSE public[k]]
    /\ UNCHANGED <<config, mediaHandler, readings>>

MediaNext ==
    \/ \E r \in Readers : \/ \E ask \in MediaAsks : Ask(r, ask)
                          \/ Unavailable(r) \/ Unknown(r) \/ ServeObject(r) \/ Refresh(r)
                          \/ LookUpImage(r) \/ FetchSource(r) \/ StoreImage(r) \/ Leave(r)
    \/ Upload

MediaSpec == MediaInit /\ [][MediaNext]_mediaVars
-----------------------------------------------------------------------------
\* The handler is the one the settings call for, every reader is at a known step,
\* and only a serving handler has made anything.
MediaTypeOK ==
    /\ mediaHandler = Handler(config)
    /\ \A r \in Readers : readings[r].phase \in
          {"idle", "object", "image", "refresh", "other", "fetch", "made", "answered"}
    /\ mediaHandler # "serving" => \A k \in DOMAIN public : k[1] = "src"

\* The image behind a redirect exists and was made from the source, in the size,
\* format and quality of the request, whichever of several simultaneous requests
\* made it and whatever was made before (handler.go, image): browsers may keep
\* such a redirect for a year.
RedirectsLead ==
    \A r \in Readers :
        LET a == readings[r].answer
        IN a.kind = "image" =>
              a.key \in DOMAIN public /\ public[a.key].of = ParseImageOptions(readings[r].ask)
=============================================================================
