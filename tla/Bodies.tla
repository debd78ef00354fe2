-------------------------------- MODULE Bodies --------------------------------
(***************************************************************************)
(* The bytes of a body, whole and in chunks (src/reply/body.rs).  The      *)
(* server sends whole bodies; the chunk iterator is part of the library.   *)
(***************************************************************************)
EXTENDS Units

CONSTANTS
  Word,         \* bytes the random generator makes at a time
  Files,        \* the readable files: path -> bytes
  ErrorReading  \* what stands for a file that cannot be read

ASSUME BodiesAssumption ==
  /\ Word \in Nat \ {0}
  /\ \A path \in DOMAIN Files : Files[path] \in Seq(STRING)
  /\ ErrorReading \in Seq(STRING)

\* BodySpec.  A Reflect is [is, fields].
NoBody == [is |-> "none"]
Literal(kind, bytes) == [is |-> "literal", kind |-> kind, bytes |-> bytes]
RandBody(size, seed) == [is |-> "rand", size |-> size, seed |-> seed]
PatternBody(repeat, size) == [is |-> "pattern", repeat |-> repeat, size |-> size]
FileBody(path) == [is |-> "file", path |-> path]

\* Byte n of the generator's stream for a seed (external).
RandByte(seed, n) == <<seed, n>>

FileBytes(path) == IF path \in DOMAIN Files THEN Files[path] ELSE ErrorReading

\* generate_pattern: byte n, from 0, of a pattern that is repeated.
PatternByte(repeat, n) == repeat[1 + (n % Len(repeat))]

\* generate_body
GenerateBody(spec) ==
  CASE spec.is = "none" -> Ok(<<>>)
    [] spec.is = "literal" -> Ok(spec.bytes)
    [] spec.is = "rand" -> Ok([n \in 1 .. spec.size |-> RandByte(spec.seed, n - 1)])
    [] spec.is = "pattern" -> Ok([n \in 1 .. spec.size |-> PatternByte(spec.repeat, n - 1)])
    [] spec.is = "file" -> Ok(FileBytes(spec.path))
    [] spec.is = "reflect" -> Panic

\* body_size: of a file, the size its metadata tells, or 0.
BodySize(spec) ==
  CASE spec.is = "none" -> 0
    [] spec.is = "literal" -> Len(spec.bytes)
    [] spec.is \in {"rand", "pattern"} -> spec.size
    [] spec.is = "file" -> IF spec.path \in DOMAIN Files THEN Len(Files[spec.path]) ELSE 0

\* A fill takes whole words from the generator.
Filled(n) == ((n + Word - 1) \div Word) * Word

MutantBodyChunk(spec, c, offset, len) ==
  CASE spec.is = "rand" -> [n \in 1 .. len |-> RandByte(spec.seed, (offset \div c) * Filled(c) + n - 1)]
    [] spec.is = "pattern" -> [n \in 1 .. len |-> PatternByte(spec.repeat, n - 1)]
    [] OTHER -> SubSeq(GenerateBody(spec).val, offset + 1, offset + len)

\* BodyChunks::next, for chunks of c bytes: the one at an offset.
BodyChunk(spec, c, offset, len) ==
  CASE spec.is = "rand" -> [n \in 1 .. len |-> RandByte(spec.seed, (offset \div c) * Filled(c) + n - 1)]
    [] spec.is = "pattern" -> [n \in 1 .. len |-> PatternByte(spec.repeat, offset + n - 1)]
    [] OTHER -> SubSeq(GenerateBody(spec).val, offset + 1, offset + len)

\* body_chunks: all of them; a chunk size of 0 is taken for 1.
BodyChunks(spec, chunkSize) ==
  LET c == IF chunkSize = 0 THEN 1 ELSE chunkSize
      total == BodySize(spec)
      Length(offset) == IF total - offset < c THEN total - offset ELSE c
  IN  [i \in 1 .. (total + c - 1) \div c |->
         BodyChunk(spec, c, (i - 1) * c, Length((i - 1) * c))]
=============================================================================
