------------------------------- MODULE Expand -------------------------------
(***************************************************************************)
(* Video expansion and self URLs of package istore: Server.Expand and      *)
(* expand (src/istore/images.go) write one LevelDB key per second of a     *)
(* video, each key a `self URL` of the video (selfURL) with a frame query; *)
(* selfGet (src/istore/client.go) turns a self URL back into the path of   *)
(* the object it names, and extractTargetURL (src/istore/server.go) finds  *)
(* the URL inside a path.                                                  *)
(*                                                                         *)
(* Strings are sequences of one-character strings, so that escaping,       *)
(* unescaping, the regular expression and the byte order of keys are       *)
(* modelled by what they do.                                               *)
(***************************************************************************)
EXTENDS Integers, Sequences, FiniteSets

LOCAL INSTANCE SequencesExt

CONSTANTS
  ExpandPaths,  \* r.URL.Path of Expand requests, strings ending in "_expand"
  Videos,       \* "video" arguments that name a stored source, strings
  Durations,    \* ctx.Duration() of the fetched video, in microseconds
  MaxExpands    \* bound on the number of Expand requests

ASSUME Durations \subseteq Nat \ {0} /\ MaxExpands \in Nat

Chars(s) == [i \in 1..Len(s) |-> SubSeq(s, i, i)]

(* The printable ASCII characters in byte order (0x20 .. 0x7e).            *)
Ascii == Chars(" !") \o <<"<quote>">> \o Chars("#$%&'()*+,-./0123456789:;<=>?@")
          \o Chars("ABCDEFGHIJKLMNOPQRSTUVWXYZ[") \o <<"<backslash>">>
          \o Chars("]^_") \o <<"<backquote>">> \o Chars("abcdefghijklmnopqrstuvwxyz{|}~")

Code(c) == 31 + CHOOSE i \in 1..Len(Ascii) : Ascii[i] = c

CharOf(n) == IF n \in 32..126 THEN Ascii[n - 31] ELSE "<ctl>"

HexUpper == Chars("0123456789ABCDEF")
HexLower == Chars("0123456789abcdef")

IsHex(c) == \E v \in 1..16 : HexUpper[v] = c \/ HexLower[v] = c

HexVal(c) == CHOOSE v \in 0..15 : HexUpper[v+1] = c \/ HexLower[v+1] = c

(* Go compares strings bytewise.                                           *)
LexLess(a, b) ==
  LET diff == {i \in 1..Min({Len(a), Len(b)}) : a[i] # b[i]}
  IN IF diff = {} THEN Len(a) < Len(b)
     ELSE Code(a[Min(diff)]) < Code(b[Min(diff)])

(***************************************************************************)
(* net/url's unescape: `%XX` becomes byte XX, a '%' without two hex digits *)
(* is an error, and in query mode (QueryUnescape) '+' becomes ' '.  Path   *)
(* mode is what url.Parse applies to the path of http.NewRequest's URL.    *)
(***************************************************************************)
EscapeOK(s) ==
  \A i \in 1..Len(s) :
    s[i] = "%" => i + 2 <= Len(s) /\ IsHex(s[i+1]) /\ IsHex(s[i+2])

Unescape(s, query) ==
  IF ~EscapeOK(s) THEN [ok |-> FALSE, str |-> <<>>]
  ELSE [ok |-> TRUE,
        str |-> FlattenSeq([i \in 1..Len(s) |->
                  CASE s[i] = "%"
                         -> <<CharOf(16 * HexVal(s[i+1]) + HexVal(s[i+2]))>>
                    [] \E j \in {i-1, i-2} : j >= 1 /\ s[j] = "%"
                         -> <<>>
                    [] query /\ s[i] = "+"
                         -> <<" ">>
                    [] OTHER
                         -> <<s[i]>>])]

\* mutant: the replacer lacks the `?` -> `%3F` pair
SelfURLNoQuestion(p) ==
  Chars("self://") \o FlattenSeq([i \in 1..Len(p) |->
                         IF p[i] = "%" THEN Chars("%25") ELSE <<p[i]>>])

(* selfURL: strings.NewReplacer(`?`, `%3F`, `%`, `%25`) replaces both in   *)
(* one left-to-right pass, so the '%' of an inserted `%3F` is not escaped. *)
SelfURL(p) ==
  Chars("self://") \o FlattenSeq([i \in 1..Len(p) |->
                         CASE p[i] = "?" -> Chars("%3F")
                           [] p[i] = "%" -> Chars("%25")
                           [] OTHER      -> <<p[i]>>])

(***************************************************************************)
(* extractTargetURL: ^.+/([0-9a-z]+\://.+)$ ; the greedy .+ makes the      *)
(* capture start at the LAST '/' that is followed by a scheme and `://`.   *)
(***************************************************************************)
SchemeChars == Chars("0123456789abcdefghijklmnopqrstuvwxyz")

TargetStarts(path) ==
  { j \in 3..Len(path) :
      /\ path[j-1] = "/"
      /\ \E k \in j..Len(path) - 4 :
           /\ \A m \in j..k : path[m] \in ToSet(SchemeChars)
           /\ SubSeq(path, k+1, k+3) = Chars("://") }

ExtractTargetURL(path) ==
  IF TargetStarts(path) = {} THEN <<>>
  ELSE SubSeq(path, Max(TargetStarts(path)), Len(path))

(***************************************************************************)
(* selfGet(dir, Url): the path after `self://`, without a leading `./`,    *)
(* under dir unless absolute; http.NewRequest parses it (the query starts  *)
(* at the first '?', the path is unescaped, a bad escape is an error) and  *)
(* url.QueryUnescape unescapes r.URL.Path once more.                       *)
(***************************************************************************)
SelfGet(dir, url) ==
  LET p0      == SubSeq(url, Len(Chars("self://")) + 1, Len(url))
      p1      == IF IsPrefix(Chars("./"), p0) THEN SubSeq(p0, 3, Len(p0)) ELSE p0
      newpath == IF IsPrefix(<<"/">>, p1) THEN p1 ELSE dir \o p1
      q       == SelectInSeq(newpath, LAMBDA c : c = "?")
      rawpath == IF q = 0 THEN newpath ELSE SubSeq(newpath, 1, q - 1)
      parsed  == Unescape(rawpath, FALSE)
  IN IF parsed.ok THEN Unescape(parsed.str, TRUE) ELSE parsed

(***************************************************************************)
(* getContent: url.Parse (the scheme is what precedes the first ':', the  *)
(* query what follows the first '?', and the path before it must unescape) *)
(* then a switch on the scheme.  file, http and https are fetched outside  *)
(* the model and yield the URL itself; self is resolved by selfGet.        *)
(* (url.Parse also accepts upper case and `+-.` in a scheme and lowercases *)
(* it; the URLs here are lower case.)                                      *)
(***************************************************************************)
GetContent(dir, url) ==
  LET colon  == SelectInSeq(url, LAMBDA c : c = ":")
      scheme == IF colon > 1 /\ \A i \in 1..colon - 1 : url[i] \in ToSet(SchemeChars)
                THEN SubSeq(url, 1, colon - 1) ELSE <<>>
      q      == SelectInSeq(url, LAMBDA c : c = "?")
      beforeq == IF q = 0 THEN url ELSE SubSeq(url, 1, q - 1)
  IN CASE ~EscapeOK(beforeq)                          -> [ok |-> FALSE, str |-> <<>>]
       [] scheme = Chars("self")                      -> SelfGet(dir, url)
       [] scheme \in {Chars("file"), Chars("http"), Chars("https")}
                                                      -> [ok |-> TRUE, str |-> url]
       [] OTHER                                       -> [ok |-> FALSE, str |-> <<>>]

(***************************************************************************)
(* expand's frame keys: npads := int(math.Log10(duration/1000000)) + 1,    *)
(* one key per i < int(duration/1000000) + 1, formatted with `%0<npads>d`. *)
(* int() truncates toward zero; for a duration under a second the          *)
(* logarithm is negative.                                                  *)
(***************************************************************************)
Log10Trunc(d) ==
  IF d >= 1000000
  THEN Max({k \in 0..9 : 10^k <= d \div 1000000})
  ELSE -Max({k \in 0..9 : 10^k <= 1000000 \div d})

\* mutant: the padding width misses the `+ 1`
NPadsShort(d) == Log10Trunc(d)

NPads(d) == Log10Trunc(d) + 1

NFrames(d) == d \div 1000000 + 1

RECURSIVE Digits(_)
Digits(i) == IF i < 10 THEN <<CharOf(48 + i)>>
             ELSE Digits(i \div 10) \o <<CharOf(48 + (i % 10))>>

(* Sprintf(`%0<n>d`, i): zero-padded to width n; for n < 0 the '-' flag   *)
(* left-justifies with spaces to width -n; width 0 is no padding.          *)
Pad(i, n) ==
  LET ds == Digits(i)
  IN IF n >= 0
     THEN [k \in 1..Max({n - Len(ds), 0}) |-> "0"] \o ds
     ELSE ds \o [k \in 1..Max({-n - Len(ds), 0}) |-> " "]

FrameQuery == Chars("?apply=frame&sec=")

FrameKey(dir, objkey, i, d) == dir \o SelfURL(objkey) \o FrameQuery \o Pad(i, NPads(d))

-----------------------------------------------------------------------------
VARIABLES
  frames,  \* the keys expand wrote to LevelDB, with the call that wrote them:
           \* [key, dir, video, i, call, dur], dur the duration expand read
  nexp,    \* number of Expand requests so far
  resp     \* HTTP status of the last Expand response (0 before any)

vars == <<frames, nexp, resp>>

(* The objects a caller can name as video: a source, or a key written by   *)
(* an earlier expand (its frames are objects of the store too).           *)
Objects == Videos \cup {f.key : f \in frames}

(* expand: OpenInput, the PutObject of every key into one batch and the   *)
(* Db.Write of the batch; any of them may fail, and then nothing is       *)
(* written.  On success the keys of every second of the video.            *)
ExpandBatches(dir, objkey, call) ==
  {{}} \cup
  { {[key |-> FrameKey(dir, objkey, i, d), dir |-> dir, video |-> objkey,
      i |-> i, call |-> call, dur |-> d] : i \in 0..NFrames(d) - 1} : d \in Durations }

(* Server.Expand's early returns, or 0 when it goes on to fetch.           *)
Rejection(dir, video) ==
  CASE dir = <<>> \/ Last(dir) # "/"      -> 400
    [] video = <<>>                        -> 400
    [] ExtractTargetURL(video) = <<>>      -> 404
    [] OTHER                               -> 0

(***************************************************************************)
(* Server.Expand: dir is the path without its `_expand` suffix; the video  *)
(* comes from the JSON body (empty when absent); the source is fetched     *)
(* from extractTargetURL(video), which may fail; then expand.              *)
(***************************************************************************)
Expand(path, video) ==
  LET dir == SubSeq(path, 1, Len(path) - Len(Chars("_expand")))
  IN /\ nexp < MaxExpands
     /\ nexp' = nexp + 1
     /\ \/ /\ Rejection(dir, video) # 0
           /\ resp' = Rejection(dir, video)
           /\ UNCHANGED frames
        \/ /\ Rejection(dir, video) = 0
           /\ \E batch \in ExpandBatches(dir, video, nexp + 1) :
                /\ frames' = frames \cup batch
                /\ resp' = IF batch = {} THEN 500 ELSE 200

Init ==
  /\ frames = {}
  /\ nexp = 0
  /\ resp = 0

Next == \E path \in ExpandPaths, video \in Objects \cup {<<>>} : Expand(path, video)

Spec == Init /\ [][Next]_vars

-----------------------------------------------------------------------------
(***************************************************************************)
(* Properties                                                              *)
(***************************************************************************)
(* The comment at images.go:292: keys are padded so that their byte order *)
(* is the order of the seconds: within one expand, frame i sorts before    *)
(* frame j whenever i < j, whatever the duration.                          *)
FrameKeysOrdered ==
  \A f, g \in frames : (f.call = g.call /\ f.i < g.i) => LexLess(f.key, g.key)

(* The scheme of client.go:95-100: getContent of the self URL in a key    *)
(* that expand wrote goes to selfGet and names the object that was         *)
(* expanded, at every level of nesting (a video that is itself a frame     *)
(* key of an earlier expand).                                              *)
SelfGetResolves ==
  \A f \in frames :
    GetContent(f.dir, SubSeq(f.key, Len(f.dir) + 1, Len(f.key)))
      = [ok |-> TRUE, str |-> f.video]

=============================================================================
