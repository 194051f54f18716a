----------------------------- MODULE PortsProofs ----------------------------
(***************************************************************************)
(* Ports over the buffers of the C library implement the streams of        *)
(* Streams.tla.  A step of the ports is mapped to a step of the streams:   *)
(* the file is what is on the disk and in the buffer of the port that      *)
(* writes to it, of which what is on the disk is durable.                  *)
(***************************************************************************)
EXTENDS Ports, SequenceTheorems, TLAPS

(* The inductive invariant: a file that is being written is used by one     *)
(* port only, and all the files in use are there.                           *)
IInv ==
  /\ disk \in [Path -> Seq(Char) \union {NULL}]
  /\ FILE \in [FilePointer -> File \union {NULL}]
  /\ port \in [Port -> OpenPort \union {NULL}]
  /\ FilesAreTheirOwn
  /\ \A p, q \in Opened :
       Stream(p).mode = "w" /\ Stream(q).path = Stream(p).path => p = q
  /\ \A p \in Opened : disk[Stream(p).path] # NULL

LEMMA OpenedFacts ==
  ASSUME IInv, NEW p \in Opened
  PROVE  /\ p \in Port /\ port[p] \in OpenPort /\ port[p].value \in FilePointer
         /\ port[p].state \in {"open", "forgotten"}
         /\ Stream(p) = FILE[port[p].value] /\ Stream(p) \in File /\ Stream(p) # NULL
         /\ Stream(p).path \in Path /\ Stream(p).mode \in {"r", "w"}
         /\ Stream(p).buffer \in Seq(Char) /\ Stream(p).pos \in Nat
         /\ disk[Stream(p).path] \in Seq(Char)
         /\ \A q \in Opened : port[q].value = port[p].value => q = p
<1>1. p \in Port /\ port[p] \in OpenPort /\ port[p].value \in FilePointer
      /\ port[p].state \in {"open", "forgotten"}
  BY DEF IInv, Opened, OpenPort
<1>2. Stream(p) = FILE[port[p].value] /\ Stream(p) # NULL  BY DEF IInv, FilesAreTheirOwn, Stream
<1>3. Stream(p) \in File  BY <1>1, <1>2 DEF IInv
<1>4. Stream(p).path \in Path /\ Stream(p).mode \in {"r", "w"}
      /\ Stream(p).buffer \in Seq(Char) /\ Stream(p).pos \in Nat
  BY <1>3 DEF File
<1>5. disk[Stream(p).path] \in Seq(Char)  BY <1>4 DEF IInv
<1>6. \A q \in Opened : port[q].value = port[p].value => q = p  BY DEF IInv, FilesAreTheirOwn
<1> QED BY <1>1, <1>2, <1>3, <1>4, <1>5, <1>6

LEMMA NewFileFacts ==
  ASSUME NEW path \in Path, NEW mode \in {"r", "w"}
  PROVE  /\ NewFile(path, mode) \in File /\ NewFile(path, mode) # NULL
         /\ NewFile(path, mode).path = path /\ NewFile(path, mode).mode = mode
         /\ NewFile(path, mode).buffer = << >> /\ NewFile(path, mode).pos = 0
<1>1. << >> \in Seq(Char)  BY EmptySeq
<1>2. NewFile(path, mode) \in File  BY <1>1 DEF NewFile, File
<1> QED BY <1>2, NothingIsNull DEF NewFile

LEMMA NewPortFacts ==
  ASSUME NEW f \in FilePointer
  PROVE  /\ NewPort(f) \in OpenPort /\ NewPort(f) # NULL
         /\ NewPort(f).value = f /\ NewPort(f).state = "open"
<1>1. NewPort(f) \in OpenPort  BY DEF NewPort, OpenPort
<1> QED BY <1>1, NothingIsNull DEF NewPort

LEMMA InitIsRight == Init => IInv
<1> SUFFICES ASSUME Init PROVE IInv
  OBVIOUS
<1>1. disk = [Existing EXCEPT ![terminal] = << >>] /\ << >> \in Seq(Char)  BY EmptySeq DEF Init
<1>2. disk \in [Path -> Seq(Char) \union {NULL}] /\ disk[terminal] \in Seq(Char)
  BY <1>1, StandardOutput
<1>3. /\ NewFile(terminal, "w") \in File /\ NewFile(terminal, "w") # NULL
      /\ NewFile(terminal, "w").path = terminal /\ NewFile(terminal, "w").mode = "w"
  BY StandardOutput, NewFileFacts
<1>4. NewPort(stdout) \in OpenPort /\ NewPort(stdout) # NULL /\ NewPort(stdout).value = stdout
      /\ NewPort(stdout).state = "open"
  BY StandardOutput, NewPortFacts
<1>5. FILE = [f \in FilePointer |-> IF f = stdout THEN NewFile(terminal, "w") ELSE NULL]
      /\ port = [p \in Port |-> IF p = console THEN NewPort(stdout) ELSE NULL]
  BY DEF Init
<1>6. FILE \in [FilePointer -> File \union {NULL}] /\ port \in [Port -> OpenPort \union {NULL}]
  BY <1>3, <1>4, <1>5
<1>7. Opened = {console} /\ Stream(console) = NewFile(terminal, "w")
      /\ port[console].value = stdout
  BY <1>4, <1>5, StandardOutput DEF Opened, Stream
<1>8. FilesAreTheirOwn
  BY <1>3, <1>5, <1>7 DEF FilesAreTheirOwn, Free
<1>9. disk[terminal] # NULL  BY <1>2, NothingIsNull
<1> QED BY <1>2, <1>3, <1>6, <1>7, <1>8, <1>9 DEF IInv

-----------------------------------------------------------------------------
(* Every operation does one of four things to the ports and the FILEs.      *)

(* Nothing, or something to the contents of FILEs only. *)
KeepsPorts ==
  /\ port' = port /\ FILE' \in [FilePointer -> File \union {NULL}]
  /\ \A f \in FilePointer : IF FILE[f] = NULL THEN FILE'[f] = NULL
                            ELSE FILE'[f] # NULL /\ FILE'[f].path = FILE[f].path /\ FILE'[f].mode = FILE[f].mode
Opens(p, path, mode) ==
  /\ mode \in {"r", "w"} /\ p \in Port /\ port[p] = NULL /\ path \in Path
  /\ \A q \in Opened : Stream(q).path = path => mode = "r" /\ Stream(q).mode = "r"
  /\ fopen(p, path, mode)
Closes(p) ==
  /\ p \in Opened /\ FILE' = [FILE EXCEPT ![port[p].value] = NULL]
  /\ port' = [port EXCEPT ![p].state = "closed"]
Forgets(p) ==
  /\ p \in Opened /\ port' = [port EXCEPT ![p].state = "forgotten"] /\ FILE' = FILE

DiskGrows ==
  /\ disk' \in [Path -> Seq(Char) \union {NULL}]
  /\ \A path \in Path : disk[path] # NULL => disk'[path] # NULL

LEMMA KeepsPortsKeeps == IInv /\ KeepsPorts /\ DiskGrows => IInv'
<1> SUFFICES ASSUME IInv, KeepsPorts, DiskGrows PROVE IInv'
  OBVIOUS
<1>1. port' = port /\ Opened' = Opened  BY DEF KeepsPorts, Opened
<1>2. \A p \in Opened : /\ Stream(p)' # NULL /\ Stream(p)'.path = Stream(p).path
                        /\ Stream(p)'.mode = Stream(p).mode /\ Stream(p)'.path \in Path
  BY <1>1, OpenedFacts DEF KeepsPorts, Stream
<1>3. Free' = Free  BY DEF KeepsPorts, Free
<1>4. FilesAreTheirOwn'  BY <1>1, <1>2, <1>3 DEF IInv, FilesAreTheirOwn
<1>5. \A p \in Opened : disk'[Stream(p)'.path] # NULL  BY <1>2 DEF IInv, DiskGrows
<1>6. port' \in [Port -> OpenPort \union {NULL}] /\ FILE' \in [FilePointer -> File \union {NULL}]
      /\ disk' \in [Path -> Seq(Char) \union {NULL}]
  BY DEF IInv, KeepsPorts, DiskGrows
<1> QED BY <1>1, <1>2, <1>4, <1>5, <1>6 DEF IInv

LEMMA OpensFacts ==
  ASSUME IInv, NEW p, NEW path, NEW mode, Opens(p, path, mode)
  PROVE  /\ Opened' = Opened \union {p} /\ p \notin Opened /\ p \in Port
         /\ port'[p].state = "open" /\ port'[p] # NULL
         /\ Stream(p)' = NewFile(path, mode)
         /\ \A q \in Opened : Stream(q)' = Stream(q) /\ port'[q] = port[q]
         /\ port' \in [Port -> OpenPort \union {NULL}] /\ FILE' \in [FilePointer -> File \union {NULL}]
         /\ FilesAreTheirOwn'
         /\ \A q \in Port : q # p => port'[q] = port[q]
<1>1. PICK f \in Free : FILE' = [FILE EXCEPT ![f] = NewFile(path, mode)]
                        /\ port' = [port EXCEPT ![p] = NewPort(f)]
  BY DEF Opens, fopen
<1>2. f \in FilePointer /\ FILE[f] = NULL  BY DEF Free
<1>3. NewPort(f) \in OpenPort /\ NewPort(f) # NULL /\ NewPort(f).value = f /\ NewPort(f).state = "open"
  BY <1>2, NewPortFacts
<1>4. NewFile(path, mode) \in File /\ NewFile(path, mode) # NULL  BY NewFileFacts DEF Opens
<1>5. p \in Port /\ port[p] = NULL /\ p \notin Opened  BY DEF Opens, Opened
<1>6. port' \in [Port -> OpenPort \union {NULL}] /\ FILE' \in [FilePointer -> File \union {NULL}]
  BY <1>1, <1>2, <1>3, <1>4 DEF IInv
<1>7. port'[p] = NewPort(f) /\ \A q \in Port : q # p => port'[q] = port[q]
  BY <1>1, <1>5 DEF IInv
<1>8. FILE'[f] = NewFile(path, mode) /\ \A g \in FilePointer : g # f => FILE'[g] = FILE[g]
  BY <1>1, <1>2 DEF IInv
<1>9. Opened' = Opened \union {p}  BY <1>3, <1>5, <1>7 DEF Opened
<1>10. Stream(p)' = NewFile(path, mode)  BY <1>3, <1>7, <1>8 DEF Stream
<1>11. \A q \in Opened : port'[q] = port[q] /\ port[q].value # f /\ port[q].value \in FilePointer
                         /\ Stream(q)' = Stream(q)
  BY <1>2, <1>5, <1>7, <1>8, OpenedFacts DEF Stream
<1>12. FilesAreTheirOwn'
  <2>1. \A q \in Opened' : Stream(q)' # NULL  BY <1>4, <1>9, <1>10, <1>11, OpenedFacts
  <2>2. \A q, r \in Opened' : port'[q].value = port'[r].value => q = r
    BY <1>3, <1>7, <1>9, <1>11 DEF IInv, FilesAreTheirOwn
  <2>3. ASSUME NEW g \in FilePointer \ Free'  PROVE \E q \in Opened' : port'[q].value = g
    <3>1. CASE g = f  BY <3>1, <1>3, <1>7, <1>9
    <3>2. CASE g # f
      <4>1. g \in FilePointer \ Free  BY <3>2, <1>8 DEF Free
      <4>2. PICK q \in Opened : port[q].value = g  BY <4>1 DEF IInv, FilesAreTheirOwn
      <4> QED BY <4>2, <1>9, <1>11
    <3> QED BY <3>1, <3>2
  <2> QED BY <2>1, <2>2, <2>3 DEF FilesAreTheirOwn
<1> QED BY <1>3, <1>5, <1>6, <1>7, <1>9, <1>10, <1>11, <1>12

LEMMA OpensKeeps ==
  ASSUME IInv, DiskGrows, NEW p, NEW path, NEW mode, Opens(p, path, mode), disk'[path] # NULL
  PROVE  IInv'
<1>1. NewFile(path, mode).path = path /\ NewFile(path, mode).mode = mode
  BY NewFileFacts DEF Opens
<1>2. \A q, r \in Opened' : Stream(q)'.mode = "w" /\ Stream(r)'.path = Stream(q)'.path => q = r
  BY <1>1, OpensFacts, OpenedFacts DEF Opens, IInv
<1>3. \A q \in Opened' : disk'[Stream(q)'.path] # NULL
  BY <1>1, OpensFacts, OpenedFacts DEF IInv, DiskGrows
<1> QED BY <1>2, <1>3, OpensFacts DEF IInv, DiskGrows

LEMMA ClosesFacts ==
  ASSUME IInv, NEW p, Closes(p)
  PROVE  /\ Opened' = Opened \ {p} /\ p \in Port /\ port'[p].state = "closed" /\ port'[p] # NULL
         /\ \A q \in Opened' : Stream(q)' = Stream(q)
         /\ \A q \in Port : q # p => port'[q] = port[q]
         /\ port' \in [Port -> OpenPort \union {NULL}] /\ FILE' \in [FilePointer -> File \union {NULL}]
         /\ FilesAreTheirOwn'
<1> DEFINE f == port[p].value
<1>1. p \in Opened /\ p \in Port /\ port[p] \in OpenPort /\ f \in FilePointer /\ port[p] # NULL
  BY OpenedFacts, NothingIsNull DEF Closes
<1>2. port'[p] \in OpenPort /\ port'[p].state = "closed" /\ port'[p].value = f
      /\ \A q \in Port : q # p => port'[q] = port[q]
  BY <1>1 DEF Closes, IInv, OpenPort
<1>3. port' \in [Port -> OpenPort \union {NULL}] /\ FILE' \in [FilePointer -> File \union {NULL}]
  BY <1>1, <1>2 DEF Closes, IInv
<1>4. FILE'[f] = NULL /\ \A g \in FilePointer : g # f => FILE'[g] = FILE[g]
  BY <1>1 DEF Closes, IInv
<1>5. port'[p] # NULL  BY <1>2, NothingIsNull
<1>6. Opened' = Opened \ {p}  BY <1>1, <1>2 DEF Opened
<1>7. \A q \in Opened' : port'[q] = port[q] /\ port[q].value # f /\ port[q].value \in FilePointer
                         /\ Stream(q)' = Stream(q)
  BY <1>1, <1>2, <1>4, <1>6, OpenedFacts DEF Stream
<1>8. FilesAreTheirOwn'
  <2>1. \A q \in Opened' : Stream(q)' # NULL  BY <1>6, <1>7, OpenedFacts
  <2>2. \A q, r \in Opened' : port'[q].value = port'[r].value => q = r
    BY <1>6, <1>7 DEF IInv, FilesAreTheirOwn
  <2>3. ASSUME NEW g \in FilePointer \ Free'  PROVE \E q \in Opened' : port'[q].value = g
    <3>1. g # f /\ g \in FilePointer \ Free  BY <1>1, <1>4 DEF Free
    <3>2. PICK q \in Opened : port[q].value = g  BY <3>1 DEF IInv, FilesAreTheirOwn
    <3> QED BY <3>1, <3>2, <1>6, <1>7
  <2> QED BY <2>1, <2>2, <2>3 DEF FilesAreTheirOwn
<1> QED BY <1>1, <1>2, <1>3, <1>5, <1>6, <1>7, <1>8

LEMMA ClosesKeeps ==
  ASSUME IInv, DiskGrows, NEW p, Closes(p)
  PROVE  IInv'
<1>1. \A q, r \in Opened' : Stream(q)'.mode = "w" /\ Stream(r)'.path = Stream(q)'.path => q = r
  BY ClosesFacts DEF IInv
<1>2. \A q \in Opened' : disk'[Stream(q)'.path] # NULL
  BY ClosesFacts, OpenedFacts DEF IInv, DiskGrows
<1> QED BY <1>1, <1>2, ClosesFacts DEF IInv, DiskGrows

LEMMA ForgetsFacts ==
  ASSUME IInv, NEW p, Forgets(p)
  PROVE  /\ Opened' = Opened /\ p \in Port /\ port'[p] # NULL /\ port'[p].state = "forgotten"
         /\ \A q \in Opened : Stream(q)' = Stream(q)
         /\ \A q \in Port : q # p => port'[q] = port[q]
         /\ port' \in [Port -> OpenPort \union {NULL}] /\ FilesAreTheirOwn'
<1>1. p \in Opened /\ p \in Port /\ port[p] \in OpenPort /\ port[p] # NULL /\ port[p].state # "closed"
  BY OpenedFacts, NothingIsNull DEF Forgets
<1>2. port'[p] \in OpenPort /\ port'[p].state = "forgotten" /\ port'[p].value = port[p].value
      /\ \A q \in Port : q # p => port'[q] = port[q]
  BY <1>1 DEF Forgets, IInv, OpenPort
<1>3. port' \in [Port -> OpenPort \union {NULL}]
  BY <1>1, <1>2 DEF Forgets, IInv
<1>4. port'[p] # NULL  BY <1>2, NothingIsNull
<1>5. Opened' = Opened  BY <1>1, <1>2, <1>4 DEF Opened
<1>6. \A q \in Port : port'[q].value = port[q].value  BY <1>2
<1>7. \A q \in Opened : Stream(q)' = Stream(q)  BY <1>6 DEF Forgets, Stream, Opened
<1>8. Free' = Free  BY DEF Forgets, Free
<1>9. FilesAreTheirOwn'
  <2>1. \A q \in Opened : q \in Port  BY DEF Opened
  <2> QED BY <2>1, <1>5, <1>6, <1>7, <1>8 DEF IInv, FilesAreTheirOwn
<1> QED BY <1>1, <1>2, <1>3, <1>4, <1>5, <1>7, <1>9

LEMMA ForgetsKeeps ==
  ASSUME IInv, UNCHANGED disk, NEW p, Forgets(p)
  PROVE  IInv'
<1>1. \A q, r \in Opened' : Stream(q)'.mode = "w" /\ Stream(r)'.path = Stream(q)'.path => q = r
  BY ForgetsFacts DEF IInv
<1>2. \A q \in Opened' : disk'[Stream(q)'.path] # NULL
  BY ForgetsFacts DEF IInv
<1> QED BY <1>1, <1>2, ForgetsFacts DEF IInv, Forgets

-----------------------------------------------------------------------------
(* Sequences *)

LEMMA ConcatThenCut ==
  ASSUME NEW Letter, NEW s \in Seq(Letter), NEW t \in Seq(Letter)
  PROVE  SubSeq(s \o t, 1, Len(s)) = s
<1> DEFINE u == s \o t
           v == SubSeq(u, 1, Len(s))
<1>1. Len(s) \in Nat /\ Len(t) \in Nat  BY LenProperties
<1>2. u \in Seq(Letter) /\ Len(u) = Len(s) + Len(t) /\ \A i \in 1..Len(s) : u[i] = s[i]
  BY <1>1, ConcatProperties
<1> HIDE DEF u
<1>3. v \in Seq(Letter) /\ Len(v) = Len(s) /\ \A i \in 1..Len(s) : v[i] = u[i]
  <2>1. \A i \in 1..Len(s) : u[i] \in Letter  BY <1>1, <1>2, ElementOfSeq
  <2>2. Len(v) = Len(s) /\ \A i \in 1..Len(s) : v[i] = u[i]  BY <1>1, <1>2, SubSeqProperties
  <2>3. v \in Seq(Letter)  BY <1>1, <1>2, <2>1, SubSeqProperties
  <2> QED BY <2>2, <2>3
<1> HIDE DEF v
<1> QED BY <1>1, <1>2, <1>3, SeqEqual DEF u, v

-----------------------------------------------------------------------------
(* The streams that ports are, in terms of the FILEs and the disk.          *)

FilesAre ==
  /\ file \in [Path -> Seq(Char) \union {NULL}]
  /\ durable = [path \in Path |-> IF disk[path] = NULL THEN 0 ELSE Len(disk[path])]
  /\ \A p \in Opened : Stream(p).mode = "w" =>
       file[Stream(p).path] = disk[Stream(p).path] \o Stream(p).buffer
  /\ \A path \in Path : ~ Writing(path) => file[path] = disk[path]
  /\ \A path \in Path : file[path] = NULL <=> disk[path] = NULL
OpenStream(p) ==
  [path |-> Stream(p).path, mode |-> Stream(p).mode, pos |-> Stream(p).pos,
   kept |-> port[p].state = "open"]
StreamsAre ==
  /\ stream = [p \in Port |-> stream[p]]
  /\ \A p \in Port \ Opened : IF port[p] = NULL THEN stream[p] = NULL ELSE stream[p] = closed
  /\ \A p \in Opened : stream[p] = OpenStream(p) /\ stream[p] # NULL /\ stream[p] # closed
  /\ S!Open = Opened

LEMMA FileFacts == IInv => FilesAre
<1> SUFFICES ASSUME IInv PROVE FilesAre
  OBVIOUS
<1>1. ASSUME NEW p \in Opened, Stream(p).mode = "w"
      PROVE  Writing(Stream(p).path) /\ Unflushed(Stream(p).path) = Stream(p).buffer
  <2> DEFINE path == Stream(p).path
             q == CHOOSE q \in Opened : Stream(q).path = path /\ Stream(q).mode = "w"
  <2>1. Writing(path)  BY <1>1 DEF Writing
  <2>2. q \in Opened /\ Stream(q).path = path /\ Stream(q).mode = "w"  BY <1>1
  <2>3. Unflushed(path) = Stream(q).buffer  BY <2>1 DEF Unflushed
  <2> HIDE DEF q
  <2>4. q = p  BY <1>1, <2>2 DEF IInv
  <2> QED BY <2>1, <2>3, <2>4
<1>2. \A path : ~ Writing(path) => Unflushed(path) = << >>  BY DEF Unflushed
<1>3. \A path : Unflushed(path) \in Seq(Char)
  <2> TAKE path
  <2>1. CASE Writing(path)
    <3>1. PICK p \in Opened : Stream(p).path = path /\ Stream(p).mode = "w"  BY <2>1 DEF Writing
    <3> QED BY <3>1, <1>1, OpenedFacts
  <2>2. CASE ~ Writing(path)  BY <1>2, <2>2, EmptySeq
  <2> QED BY <2>1, <2>2
<1>4. \A path \in Path :
        /\ disk[path] = NULL => file[path] = NULL
        /\ disk[path] # NULL => /\ disk[path] \in Seq(Char) /\ file[path] = disk[path] \o Unflushed(path)
                               /\ file[path] \in Seq(Char) /\ file[path] # NULL
  <2> TAKE path \in Path
  <2>1. disk[path] # NULL => disk[path] \in Seq(Char)  BY DEF IInv
  <2>2. disk[path] # NULL => disk[path] \o Unflushed(path) \in Seq(Char)  BY <1>3, <2>1, ConcatProperties
  <2> QED BY <2>1, <2>2, NothingIsNull DEF file
<1>5. file \in [Path -> Seq(Char) \union {NULL}]
  <2>1. file = [path \in Path |-> file[path]]  BY DEF file
  <2> QED BY <1>4, <2>1
<1>6. \A path \in Path : ~ Writing(path) => file[path] = disk[path]
  <2> TAKE path \in Path
  <2>1. disk[path] # NULL => disk[path] \o << >> = disk[path]  BY <1>4, ConcatEmptySeq
  <2> QED BY <1>2, <1>4, <2>1
<1>7. \A p \in Opened : Stream(p).mode = "w" =>
        file[Stream(p).path] = disk[Stream(p).path] \o Stream(p).buffer
  <2> TAKE p \in Opened
  <2> SUFFICES ASSUME Stream(p).mode = "w"
               PROVE  file[Stream(p).path] = disk[Stream(p).path] \o Stream(p).buffer
    OBVIOUS
  <2> DEFINE path == Stream(p).path
  <2>1. path \in Path /\ disk[path] \in Seq(Char)  BY OpenedFacts
  <2>2. Unflushed(path) = Stream(p).buffer  BY <1>1
  <2> HIDE DEF path
  <2>3. file[path] = disk[path] \o Unflushed(path)  BY <1>4, <2>1, NothingIsNull
  <2> QED BY <2>2, <2>3 DEF path
<1>8. durable = [path \in Path |-> IF disk[path] = NULL THEN 0 ELSE Len(disk[path])]
  BY DEF durable
<1>9. \A path \in Path : file[path] = NULL <=> disk[path] = NULL  BY <1>4
<1> QED BY <1>5, <1>6, <1>7, <1>8, <1>9 DEF FilesAre

LEMMA StreamFacts == IInv => StreamsAre
<1> SUFFICES ASSUME IInv PROVE StreamsAre
  OBVIOUS
<1>1. \A p \in Port : stream[p] = StreamOf(p)  BY DEF stream
<1>2. stream = [p \in Port |-> stream[p]]  BY DEF stream
<1>3. ASSUME NEW p \in Opened
      PROVE  /\ stream[p] = OpenStream(p)
             /\ stream[p] # NULL /\ stream[p] # closed
  <2>1. p \in Port /\ port[p] # NULL /\ port[p].state # "closed"  BY DEF Opened
  <2>2. stream[p] = OpenStream(p)  BY <1>1, <2>1 DEF StreamOf, OpenStream
  <2>3. stream[p] \in [path : Path, mode : {"r", "w"}, pos : Nat, kept : BOOLEAN]
    BY <2>2, OpenedFacts DEF OpenStream
  <2> QED BY <2>2, <2>3, NothingIsNull
<1>4. \A p \in Port \ Opened : IF port[p] = NULL THEN stream[p] = NULL ELSE stream[p] = closed
  BY <1>1 DEF StreamOf, Opened
<1>6. S!Open = Opened
  <2>1. \A p \in Port : stream[p] \notin {NULL, closed} <=> p \in Opened
    BY <1>3, <1>4
  <2>2. Opened \subseteq Port  BY DEF Opened
  <2> QED BY <2>1, <2>2 DEF S!Open
<1>7. \A p \in Opened : stream[p] = OpenStream(p) /\ stream[p] # NULL /\ stream[p] # closed
  BY <1>3
<1> QED BY <1>2, <1>4, <1>6, <1>7 DEF StreamsAre

LEMMA OpenStreamFacts ==
  \A p : /\ OpenStream(p).path = Stream(p).path /\ OpenStream(p).mode = Stream(p).mode
         /\ OpenStream(p).pos = Stream(p).pos
         /\ OpenStream(p).kept <=> port[p].state = "open"
BY DEF OpenStream

LEMMA NextFacts == IInv' => FilesAre' /\ StreamsAre'
BY FileFacts, StreamFacts, PTL

LEMMA SameAnswers ==
  ASSUME IInv
  PROVE  /\ S!Usable = Usable
         /\ \A path : (S!Writing(path) <=> Writing(path)) /\ (S!Busy(path) <=> Busy(path))
<1>1. StreamsAre  BY StreamFacts
<1>2. S!Usable = Usable  BY <1>1, OpenStreamFacts DEF StreamsAre, S!Usable, Usable
<1>0. /\ S!Open = Opened
      /\ \A p \in Opened : stream[p].path = Stream(p).path /\ stream[p].mode = Stream(p).mode
  BY <1>1, OpenStreamFacts DEF StreamsAre
<1>3. \A path : S!Writing(path) <=> Writing(path)
  BY <1>0 DEF S!Writing, Writing
<1>4. \A path : S!Busy(path) <=> Busy(path)
  BY <1>0 DEF S!Busy, Busy
<1> QED BY <1>2, <1>3, <1>4

(* A file is the same when the disk is and the port that writes to it, if   *)
(* there is one.                                                            *)
LEMMA SameFile ==
  ASSUME IInv, IInv', NEW path \in Path, disk'[path] = disk[path],
         \A p \in Opened : Stream(p).path = path /\ Stream(p).mode = "w" =>
           p \in Opened' /\ Stream(p)'.path = path /\ Stream(p)'.mode = "w"
           /\ Stream(p)'.buffer = Stream(p).buffer,
         ~ Writing(path) => ~ Writing(path)'
  PROVE  file'[path] = file[path] /\ durable'[path] = durable[path]
<1>1. FilesAre /\ FilesAre'  BY FileFacts, NextFacts
<1>2. CASE Writing(path)
  <2>1. PICK p \in Opened : Stream(p).path = path /\ Stream(p).mode = "w"  BY <1>2 DEF Writing
  <2>2. file[path] = disk[path] \o Stream(p).buffer  BY <1>1, <2>1 DEF FilesAre
  <2>3. file'[path] = disk'[path] \o Stream(p)'.buffer  BY <1>1, <2>1 DEF FilesAre
  <2> QED BY <1>1, <2>1, <2>2, <2>3 DEF FilesAre
<1>3. CASE ~ Writing(path)
  BY <1>1, <1>3 DEF FilesAre
<1> QED BY <1>2, <1>3

LEMMA SameFiles ==
  ASSUME IInv, IInv', \A path \in Path : file'[path] = file[path] /\ durable'[path] = durable[path]
  PROVE  file' = file /\ durable' = durable
<1>1. FilesAre /\ FilesAre'  BY FileFacts, NextFacts
<1> QED BY <1>1 DEF FilesAre

LEMMA SameStream ==
  ASSUME IInv, IInv', NEW q \in Port, port'[q] = port[q],
         q \in Opened => /\ Stream(q)'.path = Stream(q).path
                        /\ Stream(q)'.mode = Stream(q).mode /\ Stream(q)'.pos = Stream(q).pos
  PROVE  stream'[q] = stream[q]
<1>1. StreamsAre /\ StreamsAre'  BY StreamFacts, NextFacts
<1>2. q \in Opened' <=> q \in Opened  BY DEF Opened
<1>3. CASE q \in Opened
  <2>1. OpenStream(q)' = OpenStream(q)  BY <1>3 DEF OpenStream
  <2>2. stream[q] = OpenStream(q)  BY <1>3, <1>1 DEF StreamsAre
  <2>3. stream'[q] = OpenStream(q)'  BY <1>3, <1>1, <1>2 DEF StreamsAre
  <2> QED BY <2>1, <2>2, <2>3
<1>4. CASE q \notin Opened  BY <1>4, <1>1, <1>2 DEF StreamsAre
<1> QED BY <1>3, <1>4

LEMMA SameStreams ==
  ASSUME IInv, IInv', \A q \in Port : stream'[q] = stream[q]
  PROVE  stream' = stream
<1>1. StreamsAre /\ StreamsAre'  BY StreamFacts, NextFacts
<1> QED BY <1>1 DEF StreamsAre

LEMMA OneStream ==
  ASSUME IInv, IInv', NEW p \in Port, \A q \in Port : q # p => stream'[q] = stream[q]
  PROVE  stream' = [stream EXCEPT ![p] = stream'[p]]
<1>1. StreamsAre /\ StreamsAre'  BY StreamFacts, NextFacts
<1> QED BY <1>1 DEF StreamsAre

LEMMA OneFile ==
  ASSUME IInv, IInv', NEW path \in Path,
         \A x \in Path : x # path => file'[x] = file[x] /\ durable'[x] = durable[x]
  PROVE  /\ file' = [file EXCEPT ![path] = file'[path]]
         /\ durable' = [durable EXCEPT ![path] = durable'[path]]
<1>1. FilesAre /\ FilesAre'  BY FileFacts, NextFacts
<1>2. /\ file = [x \in Path |-> file[x]] /\ file' = [x \in Path |-> file'[x]]
      /\ durable = [x \in Path |-> durable[x]] /\ durable' = [x \in Path |-> durable'[x]]
  BY <1>1 DEF FilesAre
<1>3. file' = [file EXCEPT ![path] = file'[path]]  BY <1>2
<1>4. durable' = [durable EXCEPT ![path] = durable'[path]]  BY <1>2
<1> QED BY <1>3, <1>4

-----------------------------------------------------------------------------
(* The operations, one by one *)

LEMMA ExitStep ==
  ASSUME IInv, ended = "no", exit
  PROVE  IInv' /\ S!Next
<1>0. FilesAre /\ StreamsAre  BY FileFacts, StreamFacts
<1>1. disk' = file
  <2>1. ASSUME NEW path \in Path
        PROVE  disk'[path] = file[path]
    <3> DEFINE Fs == {FILE[f] : f \in FilePointer \ Free}
               F == CHOOSE F \in Fs : F.path = path /\ F.mode = "w"
    <3>1. CASE Writing(path)
      <4>1. PICK p \in Opened : Stream(p).path = path /\ Stream(p).mode = "w"  BY <3>1 DEF Writing
      <4>2. port[p].value \in FilePointer \ Free /\ FILE[port[p].value] = Stream(p)
        BY OpenedFacts DEF Free
      <4>3. F \in Fs /\ F.path = path /\ F.mode = "w"  BY <4>1, <4>2
      <4>4. PICK f \in FilePointer \ Free : F = FILE[f]  BY <4>3
      <4>5. disk'[path] = disk[path] \o F.buffer  BY <4>1, <4>2, OpenedFacts DEF exit
      <4> HIDE DEF F, Fs
      <4>6. PICK q \in Opened : port[q].value = f  BY DEF IInv, FilesAreTheirOwn
      <4>7. F = Stream(q)  BY <4>4, <4>6 DEF Stream
      <4>8. q = p  BY <4>1, <4>3, <4>7 DEF IInv
      <4> QED BY <4>1, <4>5, <4>7, <4>8, <1>0 DEF FilesAre
    <3>2. CASE ~ Writing(path)
      <4>1. ~ \E f \in FilePointer : FILE[f] # NULL /\ FILE[f].path = path /\ FILE[f].mode = "w"
        <5> SUFFICES ASSUME NEW f \in FilePointer, FILE[f] # NULL, FILE[f].path = path, FILE[f].mode = "w"
                     PROVE  FALSE
          OBVIOUS
        <5>1. PICK p \in Opened : port[p].value = f  BY DEF IInv, FilesAreTheirOwn, Free
        <5> QED BY <5>1, <3>2 DEF Writing, Stream
      <4>2. disk'[path] = disk[path]  BY <4>1 DEF exit
      <4> QED BY <3>2, <4>2, <1>0 DEF FilesAre
    <3> QED BY <3>1, <3>2
  <2>2. disk' = [path \in Path |-> disk'[path]]  BY DEF exit
  <2> QED BY <2>1, <2>2, <1>0 DEF FilesAre
<1>2. \A f \in FilePointer : FILE[f] # NULL =>
        /\ [FILE[f] EXCEPT !.buffer = << >>] \in File
        /\ [FILE[f] EXCEPT !.buffer = << >>].path = FILE[f].path
        /\ [FILE[f] EXCEPT !.buffer = << >>].mode = FILE[f].mode
        /\ [FILE[f] EXCEPT !.buffer = << >>].pos = FILE[f].pos
        /\ [FILE[f] EXCEPT !.buffer = << >>].buffer = << >>
  BY EmptySeq DEF IInv, File
<1>3. KeepsPorts
  <2>1. \A f \in FilePointer : IF FILE[f] = NULL THEN FILE'[f] = NULL
                               ELSE FILE'[f] = [FILE[f] EXCEPT !.buffer = << >>]
    BY DEF exit
  <2>2. FILE' \in [FilePointer -> File \union {NULL}]  BY <1>2 DEF exit
  <2> QED BY <1>2, <2>1, <2>2, NothingIsNull DEF KeepsPorts, exit
<1>4. DiskGrows  BY <1>0, <1>1 DEF DiskGrows, FilesAre
<1>5. IInv'  BY <1>3, <1>4, KeepsPortsKeeps
<1>6. FilesAre' /\ StreamsAre'  BY <1>5, NextFacts
<1>7. \A p \in Opened : /\ Stream(p)'.path = Stream(p).path /\ Stream(p)'.mode = Stream(p).mode
                        /\ Stream(p)'.pos = Stream(p).pos /\ Stream(p)'.buffer = << >>
  <2> TAKE p \in Opened
  <2>1. Stream(p)' = [Stream(p) EXCEPT !.buffer = << >>]  BY OpenedFacts DEF Stream, exit
  <2> QED BY <1>2, <2>1, OpenedFacts
<1>8. stream' = stream
  <2>1. \A q \in Port : stream'[q] = stream[q]  BY <1>5, <1>7, SameStream DEF exit
  <2> QED BY <1>5, <2>1, SameStreams
<1>9. file' = disk'
  <2>1. Opened' = Opened  BY DEF exit, Opened
  <2>2. ASSUME NEW path \in Path  PROVE file'[path] = disk'[path]
    <3>1. CASE Writing(path)'
      <4>1. PICK p \in Opened : Stream(p)'.path = path /\ Stream(p)'.mode = "w"
        BY <2>1, <3>1 DEF Writing
      <4>2. file'[path] = disk'[path] \o << >>  BY <1>6, <1>7, <2>1, <4>1 DEF FilesAre
      <4>3. disk'[path] \in Seq(Char)
        <5>1. disk'[path] # NULL  BY <1>5, <2>1, <4>1 DEF IInv
        <5> QED BY <1>5, <5>1 DEF IInv
      <4> QED BY <4>2, <4>3, ConcatEmptySeq
    <3>2. CASE ~ Writing(path)'  BY <3>2, <1>6 DEF FilesAre
    <3> QED BY <3>1, <3>2
  <2> QED BY <2>2, <1>5, <1>6 DEF FilesAre, IInv
<1>10. file' = file  BY <1>1, <1>9
<1>11. durable' = [path \in Path |-> IF file[path] = NULL THEN 0 ELSE Len(file[path])]
  BY <1>1, <1>6 DEF FilesAre
<1>12. S!Exit  BY <1>8, <1>10, <1>11 DEF S!Exit, S!Unread, exit
<1> QED BY <1>5, <1>12 DEF S!Next

LEMMA CrashStep ==
  ASSUME IInv, ended = "no", crash
  PROVE  IInv' /\ S!Next
<1>0. FilesAre /\ StreamsAre  BY FileFacts, StreamFacts
<1>1. disk' = disk /\ port' = port  BY DEF crash
<1>2. \A f \in FilePointer : FILE[f] # NULL =>
        /\ [FILE[f] EXCEPT !.buffer = << >>] \in File
        /\ [FILE[f] EXCEPT !.buffer = << >>].path = FILE[f].path
        /\ [FILE[f] EXCEPT !.buffer = << >>].mode = FILE[f].mode
        /\ [FILE[f] EXCEPT !.buffer = << >>].pos = FILE[f].pos
        /\ [FILE[f] EXCEPT !.buffer = << >>].buffer = << >>
  BY EmptySeq DEF IInv, File
<1>3. KeepsPorts
  <2>1. \A f \in FilePointer : IF FILE[f] = NULL THEN FILE'[f] = NULL
                               ELSE FILE'[f] = [FILE[f] EXCEPT !.buffer = << >>]
    BY DEF crash
  <2>2. FILE' \in [FilePointer -> File \union {NULL}]  BY <1>2 DEF crash
  <2> QED BY <1>2, <2>1, <2>2, NothingIsNull DEF KeepsPorts, crash
<1>4. DiskGrows  BY <1>1 DEF DiskGrows, IInv
<1>5. IInv'  BY <1>3, <1>4, KeepsPortsKeeps
<1>6. FilesAre' /\ StreamsAre'  BY <1>5, NextFacts
<1>7. \A p \in Opened : /\ Stream(p)'.path = Stream(p).path /\ Stream(p)'.mode = Stream(p).mode
                        /\ Stream(p)'.pos = Stream(p).pos /\ Stream(p)'.buffer = << >>
  <2> TAKE p \in Opened
  <2>1. Stream(p)' = [Stream(p) EXCEPT !.buffer = << >>]  BY <1>1, OpenedFacts DEF Stream, crash
  <2> QED BY <1>2, <2>1, OpenedFacts
<1>8. stream' = stream
  <2>1. \A q \in Port : stream'[q] = stream[q]  BY <1>1, <1>5, <1>7, SameStream
  <2> QED BY <1>5, <2>1, SameStreams
<1>9. Opened' = Opened  BY <1>1 DEF Opened
<1>10. \A path \in Path : file'[path] = disk[path]
  <2> TAKE path \in Path
  <2>1. CASE Writing(path)'
    <3>1. PICK p \in Opened : Stream(p)'.path = path /\ Stream(p)'.mode = "w"
      BY <1>9, <2>1 DEF Writing
    <3>2. file'[path] = disk'[path] \o << >>  BY <1>6, <1>7, <1>9, <3>1 DEF FilesAre
    <3>3. disk'[path] \in Seq(Char)
      <4>1. disk'[path] # NULL  BY <1>5, <1>9, <3>1 DEF IInv
      <4> QED BY <1>5, <4>1 DEF IInv
    <3> QED BY <1>1, <3>2, <3>3, ConcatEmptySeq
  <2>2. CASE ~ Writing(path)'  BY <2>2, <1>1, <1>6 DEF FilesAre
  <2> QED BY <2>1, <2>2
<1>11. ASSUME NEW path \in Path, file[path] # NULL
       PROVE  SubSeq(file[path], 1, durable[path]) = disk[path]
  <2>1. disk[path] \in Seq(Char) /\ durable[path] = Len(disk[path])
    BY <1>0, <1>11 DEF FilesAre, IInv
  <2>2. CASE Writing(path)
    <3>1. PICK p \in Opened : Stream(p).path = path /\ Stream(p).mode = "w"  BY <2>2 DEF Writing
    <3>2. file[path] = disk[path] \o Stream(p).buffer /\ Stream(p).buffer \in Seq(Char)
      BY <1>0, <3>1, OpenedFacts DEF FilesAre
    <3> QED BY <2>1, <3>2, ConcatThenCut
  <2>3. CASE ~ Writing(path)
    <3>1. file[path] = disk[path]  BY <1>0, <2>3 DEF FilesAre
    <3> QED BY <2>1, <3>1, SubSeqFull
  <2> QED BY <2>2, <2>3
<1>12. file' = [path \in Path |-> IF file[path] = NULL THEN NULL ELSE SubSeq(file[path], 1, durable[path])]
  <2>1. \A path \in Path : file[path] = NULL <=> disk[path] = NULL  BY <1>0 DEF FilesAre
  <2> QED BY <2>1, <1>6, <1>10, <1>11 DEF FilesAre
<1>13. durable' = durable  BY <1>0, <1>1, <1>6 DEF FilesAre
<1>14. S!Crash  BY <1>8, <1>12, <1>13 DEF S!Crash, S!Unread, crash
<1> QED BY <1>5, <1>14 DEF S!Next

LEMMA NoLongerKept ==
  ASSUME NEW a, NEW b, NEW c, NEW k, NEW r,
         r = [path |-> a, mode |-> b, pos |-> c, kept |-> k]
  PROVE  [r EXCEPT !.kept = FALSE] = [path |-> a, mode |-> b, pos |-> c, kept |-> FALSE]
<1>1. \A x : [r EXCEPT !.kept = x] = [path |-> a, mode |-> b, pos |-> c, kept |-> x]
  OBVIOUS
<1> QED BY <1>1, Zenon

LEMMA ForgetStep ==
  ASSUME IInv, ended = "no", NEW p \in Port, forget(p)
  PROVE  IInv' /\ S!Next
<1>1. Forgets(p) /\ p \in Usable \ {console} /\ UNCHANGED <<disk, FILE>> /\ Returns(NULL)
  BY DEF forget, Forgets, Usable
<1>2. IInv'  BY <1>1, ForgetsKeeps
<1>3. p \in Opened /\ Opened' = Opened /\ p \in Opened'  BY <1>1, ForgetsFacts DEF Forgets
<1>4. \A q \in Opened : Stream(q)' = Stream(q)  BY <1>1, ForgetsFacts
<1>5. \A q \in Port : q # p => stream'[q] = stream[q]
  BY <1>1, <1>2, <1>4, ForgetsFacts, SameStream
<1>6. stream'[p] = [stream[p] EXCEPT !.kept = FALSE]
  <2>1. stream[p] = OpenStream(p) /\ stream'[p] = OpenStream(p)'
    BY <1>2, <1>3, StreamFacts, NextFacts DEF StreamsAre
  <2>2. Stream(p)' = Stream(p) /\ port'[p].state # "open"  BY <1>1, <1>3, <1>4, ForgetsFacts
  <2>3. (port'[p].state = "open") = FALSE  BY <2>2
  <2>4. OpenStream(p)' = [path |-> Stream(p)'.path, mode |-> Stream(p)'.mode, pos |-> Stream(p)'.pos,
                          kept |-> port'[p].state = "open"]
    BY DEF OpenStream
  <2>5. OpenStream(p)' = [path |-> Stream(p).path, mode |-> Stream(p).mode, pos |-> Stream(p).pos,
                          kept |-> FALSE]
    BY <2>2, <2>3, <2>4, Zenon
  <2>7. OpenStream(p) = [path |-> Stream(p).path, mode |-> Stream(p).mode, pos |-> Stream(p).pos,
                         kept |-> port[p].state = "open"]
    BY DEF OpenStream
  <2> DEFINE old == OpenStream(p)
             k == port[p].state = "open"
  <2>8. old = [path |-> Stream(p).path, mode |-> Stream(p).mode, pos |-> Stream(p).pos, kept |-> k]
    BY <2>7, Zenon
  <2> HIDE DEF old, k
  <2>9. [old EXCEPT !.kept = FALSE]
        = [path |-> Stream(p).path, mode |-> Stream(p).mode, pos |-> Stream(p).pos, kept |-> FALSE]
    BY <2>8, NoLongerKept
  <2> QED BY <2>1, <2>5, <2>9, Zenon DEF old
<1>7. stream' = [stream EXCEPT ![p].kept = FALSE]
  BY <1>2, <1>5, <1>6, OneStream
<1>8. file' = file /\ durable' = durable
  <2>1. ASSUME NEW path \in Path  PROVE file'[path] = file[path] /\ durable'[path] = durable[path]
    BY <1>1, <1>2, <1>3, <1>4, SameFile DEF Writing
  <2> QED BY <2>1, <1>2, SameFiles
<1>9. p \in S!Usable \ {console}  BY <1>1, SameAnswers
<1>10. S!Forget(p)  BY <1>1, <1>7, <1>8, <1>9 DEF S!Forget, S!Unread, Returns
<1> QED BY <1>2, <1>10 DEF S!Next

LEMMA ReadCharStep ==
  ASSUME IInv, ended = "no", NEW p \in Port, read_char(p)
  PROVE  IInv' /\ S!Next
<1> DEFINE f == port[p].value
           F == Stream(p)
           text == IF FILE[f].mode = "r" THEN disk[FILE[f].path] ELSE << >>
           next == FILE[f].pos + 1
<1>1. p \in Usable /\ p \in Opened /\ disk' = disk /\ port' = port /\ ended' = ended
  BY DEF read_char, Usable, Returns
<1>2. f \in FilePointer /\ FILE[f] = F /\ F \in File /\ F # NULL /\ F.path \in Path /\ F.pos \in Nat
      /\ disk[F.path] \in Seq(Char)
  BY <1>1, OpenedFacts
<1>3. stream[p] = OpenStream(p) /\ p \in S!Usable /\ stream[p].pos = F.pos /\ stream[p].path = F.path
      /\ stream[p].mode = F.mode
  BY <1>1, StreamFacts, SameAnswers, OpenStreamFacts DEF StreamsAre
<1>4. F.mode = "r" => file[F.path] = disk[F.path]
  <2>1. ASSUME F.mode = "r", Writing(F.path)  PROVE FALSE
    <3>1. PICK q \in Opened : Stream(q).path = F.path /\ Stream(q).mode = "w"  BY <2>1 DEF Writing
    <3>2. p = q  BY <1>1, <3>1 DEF IInv
    <3> QED BY <2>1, <3>1, <3>2
  <2> QED BY <2>1, <1>2, FileFacts DEF FilesAre
<1>5. next <= Len(text) <=> stream[p].mode = "r" /\ stream[p].pos + 1 <= Len(file[stream[p].path])
  <2>1. CASE F.mode = "r"  BY <2>1, <1>2, <1>3, <1>4
  <2>2. CASE F.mode # "r"
    <3>1. Len(text) = 0  BY <2>2, <1>2, EmptySeq
    <3> QED BY <3>1, <2>2, <1>2, <1>3
  <2> QED BY <2>1, <2>2
<1>6. CASE next <= Len(text)
  <2> DEFINE G == [F EXCEPT !.pos = next]
  <2>1. FILE' = [FILE EXCEPT ![f] = G] /\ result' = text[next]
    BY <1>2, <1>6 DEF read_char, Returns
  <2>2. G \in File /\ G.path = F.path /\ G.mode = F.mode /\ G.buffer = F.buffer /\ G.pos = next
    BY <1>2 DEF File
  <2> HIDE DEF G
  <2>3. KeepsPorts
    <3>1. FILE' \in [FilePointer -> File \union {NULL}]  BY <2>1, <2>2, <1>2 DEF IInv
    <3>2. \A g \in FilePointer : FILE'[g] = IF g = f THEN G ELSE FILE[g]  BY <2>1, <1>2 DEF IInv
    <3>3. G # NULL  BY <2>2, NothingIsNull
    <3> QED BY <1>1, <1>2, <2>2, <3>1, <3>2, <3>3 DEF KeepsPorts
  <2>4. IInv'  BY <2>3, <1>1, KeepsPortsKeeps DEF DiskGrows, IInv
  <2>5. \A q \in Opened : IF q = p THEN Stream(q)' = G ELSE Stream(q)' = Stream(q)
    <3> TAKE q \in Opened
    <3>1. port[q].value \in FilePointer /\ (port[q].value = f => q = p)  BY <1>1, OpenedFacts
    <3> QED BY <1>1, <1>2, <2>1, <3>1 DEF Stream, IInv
  <2>6. Opened' = Opened  BY <1>1 DEF Opened
  <2>7. \A q \in Port : q # p => stream'[q] = stream[q]  BY <1>1, <2>4, <2>5, SameStream
  <2>8. stream'[p] = [stream[p] EXCEPT !.pos = next]
    <3>1. stream'[p] = OpenStream(p)'  BY <1>1, <2>4, <2>6, NextFacts DEF StreamsAre
    <3>2. Stream(p)' = G  BY <1>1, <2>5
    <3> QED BY <1>1, <1>3, <2>2, <3>1, <3>2 DEF OpenStream
  <2> HIDE DEF next
  <2>9. stream' = [stream EXCEPT ![p].pos = next]  BY <2>4, <2>7, <2>8, OneStream
  <2>10. \A q \in Opened : Stream(q)'.path = Stream(q).path /\ Stream(q)'.mode = Stream(q).mode
                           /\ Stream(q)'.buffer = Stream(q).buffer
    BY <2>2, <2>5
  <2>11. file' = file /\ durable' = durable
    <3>1. ASSUME NEW path \in Path  PROVE file'[path] = file[path] /\ durable'[path] = durable[path]
      BY <1>1, <2>4, <2>6, <2>10, SameFile DEF Writing
    <3> QED BY <3>1, <2>4, SameFiles
  <2>12. next = stream[p].pos + 1 /\ stream[p].mode = "r" /\ next <= Len(file[stream[p].path])
    BY <1>2, <1>3, <1>5, <1>6 DEF next
  <2>13. result' = file[stream[p].path][next]  BY <2>1, <2>12, <1>2, <1>3, <1>4
  <2>14. S!ReadChar(p)  BY <1>1, <1>3, <2>9, <2>11, <2>12, <2>13 DEF S!ReadChar
  <2> QED BY <2>4, <2>14 DEF S!Next
<1>7. CASE ~ (next <= Len(text))
  <2>1. FILE' = FILE /\ result' = eof  BY <1>7 DEF read_char, Returns
  <2>2. UNCHANGED <<disk, FILE, port, ended>> /\ result' = eof  BY <1>1, <2>1
  <2>3. IInv' /\ stream' = stream /\ file' = file /\ durable' = durable
    BY <2>2 DEF IInv, FilesAreTheirOwn, Opened, Free, Stream, stream, StreamOf, file, durable,
                Unflushed, Writing
  <2>4. S!ReadChar(p)  BY <1>1, <1>3, <1>5, <1>7, <2>2, <2>3 DEF S!ReadChar
  <2> QED BY <2>3, <2>4 DEF S!Next
<1> QED BY <1>6, <1>7

(* What was written to a file is d on the disk and b in the buffer. *)
LEMMA Writes ==
  ASSUME IInv, NEW p \in Opened, Stream(p).mode = "w", NEW b \in Seq(Char), NEW d \in Seq(Char),
         FILE' = [FILE EXCEPT ![port[p].value].buffer = b],
         disk' = [disk EXCEPT ![Stream(p).path] = d], port' = port
  PROVE  /\ IInv' /\ stream' = stream
         /\ file' = [file EXCEPT ![Stream(p).path] = d \o b]
         /\ durable' = [durable EXCEPT ![Stream(p).path] = Len(d)]
<1> DEFINE f == port[p].value
           F == Stream(p)
           path == Stream(p).path
           G == [F EXCEPT !.buffer = b]
<1>1. f \in FilePointer /\ FILE[f] = F /\ F \in File /\ F # NULL /\ path \in Path
      /\ disk[path] \in Seq(Char)
  BY OpenedFacts
<1>2. FILE' = [FILE EXCEPT ![f] = G]  BY <1>1
<1>3. G \in File /\ G.path = F.path /\ G.mode = F.mode /\ G.pos = F.pos /\ G.buffer = b
  BY <1>1 DEF File
<1> HIDE DEF G
<1>4. d # NULL /\ G # NULL  BY <1>3, NothingIsNull
<1>5. disk' \in [Path -> Seq(Char) \union {NULL}] /\ disk'[path] = d
      /\ \A x \in Path : x # path => disk'[x] = disk[x]
  BY <1>1 DEF IInv
<1>6. DiskGrows  BY <1>4, <1>5 DEF DiskGrows
<1>7. \A g \in FilePointer : FILE'[g] = IF g = f THEN G ELSE FILE[g]  BY <1>1, <1>2 DEF IInv
<1>8. KeepsPorts
  <2>1. FILE' \in [FilePointer -> File \union {NULL}]  BY <1>1, <1>2, <1>3 DEF IInv
  <2> QED BY <1>1, <1>3, <1>4, <1>7, <2>1 DEF KeepsPorts
<1>9. IInv'  BY <1>6, <1>8, KeepsPortsKeeps
<1>10. \A q \in Opened : IF q = p THEN Stream(q)' = G ELSE Stream(q)' = Stream(q)
  <2> TAKE q \in Opened
  <2>1. port[q].value \in FilePointer /\ (port[q].value = f => q = p)  BY OpenedFacts
  <2> QED BY <1>1, <1>7, <2>1 DEF Stream
<1>11. Opened' = Opened  BY DEF Opened
<1>12. stream' = stream
  <2>1. \A q \in Port : stream'[q] = stream[q]  BY <1>3, <1>9, <1>10, SameStream
  <2> QED BY <1>9, <2>1, SameStreams
<1>13. \A x \in Path : x # path => file'[x] = file[x] /\ durable'[x] = durable[x]
  <2> TAKE x \in Path
  <2>1. ASSUME x # path  PROVE ~ Writing(x) => ~ Writing(x)'
    BY <1>3, <1>10, <1>11 DEF Writing
  <2>2. ASSUME x # path, NEW q \in Opened, Stream(q).path = x
        PROVE  q \in Opened' /\ Stream(q)' = Stream(q)
    BY <1>10, <1>11, <2>2
  <2> QED BY <1>5, <1>9, <2>1, <2>2, SameFile
<1>14. file'[path] = d \o b /\ durable'[path] = Len(d)
  <2>1. FilesAre'  BY <1>9, NextFacts
  <2>2. Stream(p)' = G /\ p \in Opened'  BY <1>10, <1>11
  <2>3. file'[path] = disk'[path] \o G.buffer  BY <1>3, <2>1, <2>2 DEF FilesAre
  <2> QED BY <1>1, <1>3, <1>4, <1>5, <2>1, <2>3 DEF FilesAre
<1> HIDE DEF path
<1>15. file' = [file EXCEPT ![path] = d \o b] /\ durable' = [durable EXCEPT ![path] = Len(d)]
  BY <1>1, <1>9, <1>13, <1>14, OneFile
<1> QED BY <1>9, <1>12, <1>15 DEF path

(* Nothing but the answer changes. *)
LEMMA NothingWritten ==
  ASSUME IInv, UNCHANGED <<disk, FILE, port>>
  PROVE  IInv' /\ stream' = stream /\ file' = file /\ durable' = durable
BY DEF IInv, FilesAreTheirOwn, Opened, Free, Stream, stream, StreamOf, file, durable, Unflushed, Writing

LEMMA WriteCharStep ==
  ASSUME IInv, ended = "no", NEW p \in Port, NEW c \in Char, write_char(p, c)
  PROVE  IInv' /\ S!Next
<1> DEFINE F == Stream(p)
           path == F.path
           b == F.buffer
           full == Len(b) = BUFSIZ
           b2 == IF full THEN <<c>> ELSE Append(b, c)
           d2 == IF full THEN disk[path] \o b ELSE disk[path]
<1>1. p \in Usable /\ p \in Opened /\ UNCHANGED <<port, ended>> /\ result' = NULL
  BY DEF write_char, Usable, Returns
<1>2. /\ FILE[port[p].value] = F /\ port[p].value \in FilePointer /\ F \in File /\ path \in Path /\ b \in Seq(Char)
      /\ disk[path] \in Seq(Char)
  BY <1>1, OpenedFacts
<1>3. p \in S!Usable /\ stream[p].path = path /\ stream[p].mode = F.mode
  BY <1>1, StreamFacts, SameAnswers, OpenStreamFacts DEF StreamsAre
<1>4. CASE F.mode = "w"
  <2>1. b2 \in Seq(Char) /\ d2 \in Seq(Char)  BY <1>2, ConcatProperties, AppendProperties
  <2>2. disk[path] \o b \in Seq(Char) /\ Len(disk[path] \o b) = Len(disk[path]) + Len(b)
    BY <1>2, ConcatProperties
  <2>3. file[path] = disk[path] \o b /\ durable[path] = Len(disk[path])
    BY <1>1, <1>2, <1>4, FileFacts, NothingIsNull, ZenonT(30) DEF FilesAre
  <2>4. d2 \o b2 = Append(file[path], c)
    <3> DEFINE d == disk[path]
               one == <<c>>
    <3> HIDE DEF b, d, one
    <3>1. b \in Seq(Char) /\ d \in Seq(Char) /\ one \in Seq(Char)
      BY <1>2, AppendProperties, EmptySeq DEF one, b, d
    <3>2. (d \o b) \o one = d \o (b \o one)  BY <3>1, ConcatAssociative, SMTT(30)
    <3>3. d \o b \in Seq(Char)  BY <3>1, ConcatProperties
    <3>4. Append(b, c) = b \o one /\ Append(d \o b, c) = (d \o b) \o one
      BY <3>1, <3>3, AppendIsConcat DEF one
    <3> QED BY <3>2, <3>4, <2>3 DEF one, d
  <2>41. Len(d2) \in durable[path] .. Len(Append(file[path], c))
    <3>1. Len(Append(file[path], c)) = Len(file[path]) + 1  BY <2>2, <2>3, AppendProperties
    <3>2. Len(disk[path]) \in Nat /\ Len(b) \in Nat  BY <1>2, LenProperties
    <3>3. Len(file[path]) = Len(disk[path]) + Len(b)  BY <2>2, <2>3
    <3>4. Len(d2) = Len(disk[path]) \/ Len(d2) = Len(disk[path]) + Len(b)  BY <2>2
    <3>5. \A x, y \in Nat : \A z : z = x \/ z = x + y => z \in x .. x + y + 1  OBVIOUS
    <3>6. Len(d2) \in Len(disk[path]) .. Len(disk[path]) + Len(b) + 1  BY <3>2, <3>4, <3>5
    <3> HIDE DEF d2
    <3> QED BY <2>3, <3>1, <3>3, <3>6
  <2>5. FILE' = [FILE EXCEPT ![port[p].value].buffer = b2]
    BY <1>2, <1>4 DEF write_char
  <2>6. disk' = [disk EXCEPT ![path] = d2]
    <3>1. disk = [disk EXCEPT ![path] = disk[path]]  BY DEF IInv
    <3>2. CASE full  BY <1>2, <1>4, <3>2 DEF write_char, Flushed
    <3>3. CASE ~ full  BY <1>2, <1>4, <3>1, <3>3 DEF write_char
    <3> QED BY <3>2, <3>3
  <2> HIDE DEF b2, d2
  <2>7. /\ IInv' /\ stream' = stream /\ file' = [file EXCEPT ![path] = d2 \o b2]
        /\ durable' = [durable EXCEPT ![path] = Len(d2)]
    BY <1>1, <1>4, <2>1, <2>5, <2>6, Writes
  <2>8. file' = [file EXCEPT ![path] = Append(@, c)]  BY <2>4, <2>7
  <2>9. file'[path] = Append(file[path], c)
    BY <2>8, <1>2, FileFacts DEF FilesAre
  <2> HIDE DEF path
  <2>10. S!WriteChar(p, c)
    BY <1>1, <1>3, <1>4, <2>41, <2>7, <2>8, <2>9 DEF S!WriteChar, S!Unread
  <2> QED BY <2>7, <2>10 DEF S!Next
<1>5. CASE F.mode # "w"
  <2>1. UNCHANGED <<disk, FILE>>  BY <1>2, <1>5 DEF write_char
  <2>2. IInv' /\ stream' = stream /\ file' = file /\ durable' = durable
    BY <1>1, <2>1, NothingWritten
  <2>3. S!WriteChar(p, c)  BY <1>1, <1>3, <1>5, <2>2 DEF S!WriteChar, S!Unread
  <2> QED BY <2>2, <2>3 DEF S!Next
<1> QED BY <1>4, <1>5

LEMMA DisplayStep ==
  ASSUME IInv, ended = "no", NEW p \in Port, NEW c \in Char, display(p, <<c, c>>)
  PROVE  IInv' /\ S!Next
<1> DEFINE F == Stream(p)
           path == F.path
           b == F.buffer
           s == <<c, c>>
           d2 == (disk[path] \o b) \o s
           none == << >>
<1>1. p \in Usable /\ p \in Opened /\ UNCHANGED <<port, ended>> /\ result' = NULL
  BY DEF display, Usable, Returns
<1>2. /\ FILE[port[p].value] = F /\ port[p].value \in FilePointer /\ F \in File /\ path \in Path /\ b \in Seq(Char)
      /\ disk[path] \in Seq(Char)
  BY <1>1, OpenedFacts
<1>3. p \in S!Usable /\ stream[p].path = path /\ stream[p].mode = F.mode
  BY <1>1, StreamFacts, SameAnswers, OpenStreamFacts DEF StreamsAre
<1>4. CASE F.mode = "w"
  <2>0. s \in Seq(Char) /\ none \in Seq(Char)  BY EmptySeq
  <2>1. disk[path] \o b \in Seq(Char) /\ file[path] = disk[path] \o b
    BY <1>1, <1>2, <1>4, ConcatProperties, FileFacts, NothingIsNull DEF FilesAre
  <2>2. d2 \in Seq(Char) /\ d2 = file[path] \o s  BY <2>0, <2>1, ConcatProperties
  <2>3. FILE' = [FILE EXCEPT ![port[p].value].buffer = none]
    BY <1>2, <1>4 DEF display
  <2>4. disk' = [disk EXCEPT ![path] = d2]
    <3>1. disk' = [[disk EXCEPT ![path] = disk[path] \o b] EXCEPT ![path] = @ \o s]
      BY <1>2, <1>4 DEF display, Flushed
    <3> QED BY <1>2, <3>1 DEF IInv
  <2> HIDE DEF d2, none
  <2>5. /\ IInv' /\ stream' = stream /\ file' = [file EXCEPT ![path] = d2 \o none]
        /\ durable' = [durable EXCEPT ![path] = Len(d2)]
    BY <1>1, <1>4, <2>0, <2>2, <2>3, <2>4, Writes
  <2>6. d2 \o none = d2  BY <2>2, ConcatEmptySeq DEF none
  <2> HIDE DEF s
  <2>7. file' = [file EXCEPT ![path] = @ \o s]  BY <2>2, <2>5, <2>6
  <2>8. file'[path] = d2  BY <2>2, <2>7, <1>2, FileFacts DEF FilesAre
  <2> HIDE DEF path
  <2>9. S!Display(p, s)
    BY <1>1, <1>3, <1>4, <2>5, <2>7, <2>8 DEF S!Display, S!Unread
  <2> QED BY <2>5, <2>9 DEF S!Next, s
<1>5. CASE F.mode # "w"
  <2>1. UNCHANGED <<disk, FILE>>  BY <1>2, <1>5 DEF display
  <2>2. IInv' /\ stream' = stream /\ file' = file /\ durable' = durable
    BY <1>1, <2>1, NothingWritten
  <2>3. S!Display(p, s)  BY <1>1, <1>3, <1>5, <2>2 DEF S!Display, S!Unread
  <2> QED BY <2>2, <2>3 DEF S!Next
<1> QED BY <1>4, <1>5

LEMMA CloseStep ==
  ASSUME IInv, ended = "no", NEW p \in Port, close_file(p)
  PROVE  IInv' /\ S!Next
<1> DEFINE F == Stream(p)
           path == F.path
           b == F.buffer
<1>1. p \in Usable \ {console} /\ p \in Opened /\ ended' = ended /\ result' = NULL /\ Closes(p)
  BY DEF close_file, Usable, Returns, Closes
<1>2. /\ FILE[port[p].value] = F /\ F \in File /\ path \in Path /\ b \in Seq(Char)
      /\ disk[path] \in Seq(Char)
  BY <1>1, OpenedFacts
<1>3. p \in S!Usable \ {console} /\ stream[p].path = path /\ stream[p].mode = F.mode
  BY <1>1, StreamFacts, SameAnswers, OpenStreamFacts DEF StreamsAre
<1>4. disk[path] \o b \in Seq(Char)  BY <1>2, ConcatProperties
<1>5. /\ disk' \in [Path -> Seq(Char) \union {NULL}]
      /\ \A x \in Path : disk'[x] = IF x = path /\ F.mode = "w" THEN disk[path] \o b ELSE disk[x]
  BY <1>2, <1>4 DEF close_file, Flushed, IInv
<1>6. DiskGrows  BY <1>4, <1>5, NothingIsNull DEF DiskGrows
<1>7. IInv'  BY <1>1, <1>6, ClosesKeeps
<1>8. Opened' = Opened \ {p} /\ \A q \in Opened' : Stream(q)' = Stream(q)
  BY <1>1, ClosesFacts
<1>9. stream' = [stream EXCEPT ![p] = closed]
  <2>1. \A q \in Port : q # p => stream'[q] = stream[q]
    <3> TAKE q \in Port
    <3> SUFFICES ASSUME q # p PROVE stream'[q] = stream[q]
      OBVIOUS
    <3>1. port'[q] = port[q]  BY <1>1, ClosesFacts
    <3>2. q \in Opened => Stream(q)' = Stream(q)  BY <1>8
    <3> QED BY <3>1, <3>2, <1>7, SameStream
  <2>2. stream'[p] = closed
    <3>1. p \in Port \ Opened' /\ port'[p] # NULL  BY <1>1, <1>8, ClosesFacts
    <3> QED BY <3>1, <1>7, NextFacts DEF StreamsAre
  <2> QED BY <2>1, <2>2, <1>7, OneStream
<1>10. CASE F.mode = "w"
  <2>1. \A x \in Path : x # path => file'[x] = file[x] /\ durable'[x] = durable[x]
    <3> TAKE x \in Path
    <3> SUFFICES ASSUME x # path PROVE file'[x] = file[x] /\ durable'[x] = durable[x]
      OBVIOUS
    <3>1. \A q \in Opened : Stream(q).path = x => q \in Opened' /\ Stream(q)' = Stream(q)
      BY <1>8
    <3>2. ~ Writing(x) => ~ Writing(x)'  BY <1>8 DEF Writing
    <3> QED BY <3>1, <3>2, <1>5, <1>7, SameFile
  <2>2. \A x \in Path : x = path => ~ Writing(x)'
    <3>1. \A q \in Opened' : Stream(q)'.path # path  BY <1>1, <1>8, <1>10 DEF IInv
    <3> QED BY <3>1 DEF Writing
  <2>3. file'[path] = disk[path] \o b /\ durable'[path] = Len(disk[path] \o b)
    <3>1. FilesAre'  BY <1>7, NextFacts
    <3>2. disk'[path] = disk[path] \o b /\ disk'[path] # NULL
      BY <1>2, <1>4, <1>5, <1>10, NothingIsNull
    <3>3. file'[path] = disk'[path]  BY <1>2, <2>2, <3>1 DEF FilesAre
    <3>4. durable'[path] = Len(disk'[path])
      <4> HIDE DEF path
      <4> QED BY <1>2, <3>1, <3>2 DEF FilesAre
    <3> QED BY <3>2, <3>3, <3>4
  <2>4. file[path] = disk[path] \o b  BY <1>1, <1>10, FileFacts DEF FilesAre
  <2> HIDE DEF path
  <2>5. file' = file
    <3>1. \A x \in Path : file'[x] = file[x]  BY <2>1, <2>3, <2>4
    <3> QED BY <3>1, <1>7, FileFacts, NextFacts DEF FilesAre
  <2>6. durable' = [durable EXCEPT ![path] = Len(file[path])]
    BY <2>1, <2>3, <2>4, <1>2, <1>7, OneFile
  <2>7. S!Close(p)  BY <1>1, <1>3, <1>9, <1>10, <2>5, <2>6 DEF S!Close, S!Unread
  <2> QED BY <2>7, <1>7 DEF S!Next
<1>11. CASE F.mode # "w"
  <2>1. ASSUME NEW x \in Path  PROVE file'[x] = file[x] /\ durable'[x] = durable[x]
    <3>1. \A q \in Opened : Stream(q).path = x /\ Stream(q).mode = "w" =>
            q \in Opened' /\ Stream(q)' = Stream(q)
      BY <1>8, <1>11
    <3>2. ~ Writing(x) => ~ Writing(x)'  BY <1>8 DEF Writing
    <3> QED BY <3>1, <3>2, <1>5, <1>7, <1>11, SameFile
  <2>2. file' = file /\ durable' = durable  BY <2>1, <1>7, SameFiles
  <2>3. S!Close(p)  BY <1>1, <1>3, <1>9, <1>11, <2>2 DEF S!Close, S!Unread
  <2> QED BY <2>3, <1>7 DEF S!Next
<1> QED BY <1>10, <1>11

LEMMA OpenedStream ==
  ASSUME IInv, IInv', NEW p, NEW path, NEW mode, Opens(p, path, mode)
  PROVE  stream' = [stream EXCEPT ![p] = S!Stream(path, mode)] /\ stream[p] = NULL
<1>1. /\ Opened' = Opened \union {p} /\ p \notin Opened /\ p \in Port /\ port'[p].state = "open"
      /\ Stream(p)' = NewFile(path, mode)
      /\ \A q \in Opened : Stream(q)' = Stream(q)
      /\ \A q \in Port : q # p => port'[q] = port[q]
  BY OpensFacts
<1>2. \A q \in Port : q # p => stream'[q] = stream[q]
  <2> TAKE q \in Port
  <2> SUFFICES ASSUME q # p PROVE stream'[q] = stream[q]
    OBVIOUS
  <2>1. port'[q] = port[q]  BY <1>1
  <2>2. q \in Opened => Stream(q)' = Stream(q)  BY <1>1
  <2> QED BY <2>1, <2>2, SameStream
<1>3. stream'[p] = S!Stream(path, mode)
  <2>1. stream'[p] = OpenStream(p)'  BY <1>1, NextFacts DEF StreamsAre
  <2>2. /\ NewFile(path, mode).path = path /\ NewFile(path, mode).mode = mode
        /\ NewFile(path, mode).pos = 0
    BY NewFileFacts DEF Opens
  <2>3. OpenStream(p)' = [path |-> Stream(p)'.path, mode |-> Stream(p)'.mode, pos |-> Stream(p)'.pos,
                          kept |-> port'[p].state = "open"]
    BY DEF OpenStream
  <2>4. (port'[p].state = "open") = TRUE  BY <1>1
  <2>5. OpenStream(p)' = [path |-> path, mode |-> mode, pos |-> 0, kept |-> TRUE]
    BY <1>1, <2>2, <2>3, <2>4, Zenon
  <2> QED BY <2>1, <2>5, Zenon DEF S!Stream
<1>4. stream[p] = NULL  BY <1>1, StreamFacts DEF StreamsAre, Opens
<1> QED BY <1>1, <1>2, <1>3, <1>4, OneStream

LEMMA OpenInputStep ==
  ASSUME IInv, ended = "no", NEW p \in Port, NEW path \in Path \ {terminal}, open_input_file(p, path)
  PROVE  IInv' /\ S!Next
<1>1. CASE disk[path] = NULL \/ Free = {}  BY <1>1, ExitStep DEF open_input_file
<1>2. CASE disk[path] # NULL /\ Free # {}
  <2>1. /\ port[p] = NULL /\ ~ Writing(path) /\ fopen(p, path, "r")
        /\ UNCHANGED <<disk, ended>> /\ result' = NULL
    BY <1>2 DEF open_input_file, Returns
  <2>2. Opens(p, path, "r")  BY <2>1, OpenedFacts DEF Opens, Writing
  <2>3. DiskGrows  BY <2>1 DEF DiskGrows, IInv
  <2>4. IInv'  BY <1>2, <2>1, <2>2, <2>3, OpensKeeps
  <2>5. stream' = [stream EXCEPT ![p] = S!Stream(path, "r")] /\ stream[p] = NULL
    BY <2>2, <2>4, OpenedStream
  <2>6. /\ Opened' = Opened \union {p} /\ Stream(p)' = NewFile(path, "r")
        /\ \A q \in Opened : Stream(q)' = Stream(q)
    BY <2>2, OpensFacts
  <2>7. Stream(p)'.mode # "w"  BY <2>6, NewFileFacts
  <2>8. ASSUME NEW x \in Path  PROVE file'[x] = file[x] /\ durable'[x] = durable[x]
    <3>1. \A q \in Opened : q \in Opened' /\ Stream(q)' = Stream(q)  BY <2>6
    <3>2. ~ Writing(x) => ~ Writing(x)'  BY <2>6, <2>7 DEF Writing
    <3> QED BY <3>1, <3>2, <2>1, <2>4, SameFile
  <2>9. file' = file /\ durable' = durable  BY <2>4, <2>8, SameFiles
  <2>10. ~ S!Writing(path) /\ file[path] # NULL
    BY <1>2, <2>1, SameAnswers, FileFacts DEF FilesAre
  <2>11. S!OpenInput(p, path)  BY <2>1, <2>5, <2>9, <2>10 DEF S!OpenInput, S!Unread
  <2> QED BY <2>4, <2>11 DEF S!Next
<1> QED BY <1>1, <1>2

LEMMA OpenOutputStep ==
  ASSUME IInv, ended = "no", NEW p \in Port, NEW path \in Path \ {terminal}, open_output_file(p, path)
  PROVE  IInv' /\ S!Next
<1>1. CASE Free = {}  BY <1>1, ExitStep DEF open_output_file
<1>2. CASE Free # {}
  <2>1. /\ port[p] = NULL /\ ~ Busy(path) /\ fopen(p, path, "w")
        /\ disk' = [disk EXCEPT ![path] = << >>] /\ UNCHANGED ended /\ result' = NULL
    BY <1>2 DEF open_output_file, Returns
  <2>2. Opens(p, path, "w")  BY <2>1 DEF Opens, Busy
  <2> DEFINE none == << >>
  <2>3. none \in Seq(Char) /\ none # NULL  BY EmptySeq, NothingIsNull
  <2>4. /\ disk' \in [Path -> Seq(Char) \union {NULL}] /\ disk'[path] = none
        /\ \A x \in Path : x # path => disk'[x] = disk[x]
    BY <2>1, <2>3 DEF IInv
  <2>5. DiskGrows  BY <2>3, <2>4 DEF DiskGrows
  <2>6. IInv'  BY <2>2, <2>3, <2>4, <2>5, OpensKeeps
  <2>7. stream' = [stream EXCEPT ![p] = S!Stream(path, "w")] /\ stream[p] = NULL
    BY <2>2, <2>6, OpenedStream
  <2>8. /\ Opened' = Opened \union {p} /\ Stream(p)' = NewFile(path, "w")
        /\ \A q \in Opened : Stream(q)' = Stream(q)
    BY <2>2, OpensFacts
  <2>9. Stream(p)'.mode = "w" /\ Stream(p)'.path = path /\ Stream(p)'.buffer = none
    BY <2>8, NewFileFacts
  <2>10. \A x \in Path : x # path => file'[x] = file[x] /\ durable'[x] = durable[x]
    <3> TAKE x \in Path
    <3> SUFFICES ASSUME x # path PROVE file'[x] = file[x] /\ durable'[x] = durable[x]
      OBVIOUS
    <3>1. \A q \in Opened : q \in Opened' /\ Stream(q)' = Stream(q)  BY <2>8
    <3>2. ~ Writing(x) => ~ Writing(x)'  BY <2>8, <2>9 DEF Writing
    <3> QED BY <3>1, <3>2, <2>4, <2>6, SameFile
  <2>11. file'[path] = none /\ durable'[path] = 0
    <3>1. file'[path] = none \o none
      <4>1. FilesAre' /\ p \in Opened'  BY <2>6, <2>8, NextFacts
      <4>2. file'[path] = disk'[path] \o Stream(p)'.buffer  BY <2>9, <4>1 DEF FilesAre
      <4> QED BY <2>4, <2>9, <4>2
    <3>2. none \o none = none  BY <2>3, ConcatEmptySeq
    <3>3. durable'[path] = Len(none)  BY <2>3, <2>4, <2>6, NextFacts DEF FilesAre
    <3> QED BY <3>1, <3>2, <3>3, EmptySeq
  <2> HIDE DEF none
  <2>12. file' = [file EXCEPT ![path] = none] /\ durable' = [durable EXCEPT ![path] = 0]
    BY <2>6, <2>10, <2>11, OneFile
  <2>13. ~ S!Busy(path)  BY <2>1, SameAnswers
  <2>14. S!OpenOutput(p, path)  BY <2>1, <2>7, <2>12, <2>13 DEF S!OpenOutput, S!Unread, none
  <2> QED BY <2>6, <2>14 DEF S!Next
<1> QED BY <1>1, <1>2

-----------------------------------------------------------------------------

LEMMA InitIsStream == Init => S!Init
<1> SUFFICES ASSUME Init PROVE S!Init
  OBVIOUS
<1>1. IInv /\ FilesAre /\ StreamsAre  BY InitIsRight, FileFacts, StreamFacts
<1>2. disk = [Existing EXCEPT ![terminal] = << >>] /\ result = NULL /\ ended = "no"
      /\ FILE = [f \in FilePointer |-> IF f = stdout THEN NewFile(terminal, "w") ELSE NULL]
      /\ port = [p \in Port |-> IF p = console THEN NewPort(stdout) ELSE NULL]
  BY DEF Init
<1>3. /\ NewFile(terminal, "w").path = terminal /\ NewFile(terminal, "w").mode = "w"
      /\ NewFile(terminal, "w").pos = 0 /\ NewFile(terminal, "w").buffer = << >>
      /\ NewPort(stdout).value = stdout /\ NewPort(stdout).state = "open" /\ NewPort(stdout) # NULL
  BY StandardOutput, NewFileFacts, NewPortFacts
<1>4. Opened = {console} /\ Stream(console) = NewFile(terminal, "w")
  BY <1>2, <1>3, StandardOutput DEF Opened, Stream
<1>5. file = disk
  <2>1. ASSUME NEW x \in Path  PROVE file[x] = disk[x]
    <3>1. CASE x = terminal
      <4> DEFINE none == << >>
      <4>1. disk[x] = none /\ none \in Seq(Char)  BY <1>2, <3>1, StandardOutput, EmptySeq
      <4>2. file[x] = disk[x] \o Stream(console).buffer  BY <1>1, <1>3, <1>4, <3>1 DEF FilesAre
      <4>3. Stream(console).buffer = none  BY <1>3, <1>4
      <4> QED BY <4>1, <4>2, <4>3, ConcatEmptySeq
    <3>2. CASE x # terminal
      <4>1. ~ Writing(x)  BY <1>3, <1>4, <3>2 DEF Writing
      <4> QED BY <4>1, <1>1 DEF FilesAre
    <3> QED BY <3>1, <3>2
  <2> QED BY <2>1, <1>1 DEF FilesAre, IInv
<1>6. durable = [x \in Path |-> IF file[x] = NULL THEN 0 ELSE Len(file[x])]
  BY <1>1, <1>5 DEF FilesAre
<1>7. stream = [p \in Port |-> IF p = console THEN S!Stream(terminal, "w") ELSE NULL]
  <2>1. \A p \in Port : p # console => stream[p] = NULL
    BY <1>1, <1>2, <1>4 DEF StreamsAre
  <2>2. stream[console] = S!Stream(terminal, "w")
    <3>1. stream[console] = OpenStream(console)  BY <1>1, <1>4 DEF StreamsAre
    <3>2. OpenStream(console) = [path |-> Stream(console).path, mode |-> Stream(console).mode,
                                 pos |-> Stream(console).pos, kept |-> port[console].state = "open"]
      BY DEF OpenStream
    <3>3. (port[console].state = "open") = TRUE  BY <1>2, <1>3, StandardOutput
    <3>4. OpenStream(console) = [path |-> terminal, mode |-> "w", pos |-> 0, kept |-> TRUE]
      BY <1>3, <1>4, <3>2, <3>3, Zenon
    <3> QED BY <3>1, <3>4, Zenon DEF S!Stream
  <2> QED BY <2>1, <2>2, <1>1 DEF StreamsAre
<1> QED BY <1>2, <1>5, <1>6, <1>7 DEF S!Init

LEMMA OneStep == IInv /\ [Next]_vars => IInv' /\ [S!Next]_(S!vars)
<1> SUFFICES ASSUME IInv, [Next]_vars PROVE IInv' /\ [S!Next]_(S!vars)
  OBVIOUS
<1>1. CASE UNCHANGED vars
  BY <1>1, NothingWritten DEF vars, S!vars
<1>2. CASE ended = "no" /\ \E p \in Port, path \in Path \ {terminal} :
             open_input_file(p, path) \/ open_output_file(p, path)
  BY <1>2, OpenInputStep, OpenOutputStep
<1>3. CASE ended = "no" /\ \E p \in Usable, c \in Char :
             (Short(p, 1) /\ write_char(p, c)) \/ (Short(p, 2) /\ display(p, <<c, c>>))
  <2>1. PICK p \in Usable, c \in Char : write_char(p, c) \/ display(p, <<c, c>>)  BY <1>3
  <2>2. p \in Port  BY DEF Usable, Opened
  <2> QED BY <1>3, <2>1, <2>2, WriteCharStep, DisplayStep
<1>4. CASE ended = "no" /\ \E p \in Port : read_char(p) \/ close_file(p) \/ forget(p)
  BY <1>4, ReadCharStep, CloseStep, ForgetStep
<1>5. CASE ended = "no" /\ (exit \/ crash)
  BY <1>5, ExitStep, CrashStep
<1> QED BY <1>1, <1>2, <1>3, <1>4, <1>5 DEF Next

LEMMA AlwaysInvariant == Spec => []IInv
<1>1. Init => IInv  BY InitIsRight
<1>2. IInv /\ [Next]_vars => IInv'  BY OneStep
<1> QED BY <1>1, <1>2, PTL DEF Spec

(* However many places for FILEs there are, and however often they are used *)
(* again, a port that is not closed has a FILE of its own                   *)
(* (object.c:225-252, procedures.c:343-386).                                *)
THEOREM FilesAreAlwaysTheirOwn == Spec => []FilesAreTheirOwn
<1>1. IInv => FilesAreTheirOwn  BY DEF IInv
<1> QED BY <1>1, AlwaysInvariant, PTL

(* Ports implement streams: for every number of ports, files and FILEs,     *)
(* every BUFSIZ and files of every length, a port reads what its file       *)
(* holds and writes to it alone, and what was displayed, or written before  *)
(* close or exit, is on the disk (procedures.c:271-311, 343-432).           *)
THEOREM PortsAreStreams == Spec => StreamSpec
<1>1. Init => S!Init  BY InitIsStream
<1>2. IInv /\ [Next]_vars => [S!Next]_(S!vars)  BY OneStep
<1> QED BY <1>1, <1>2, AlwaysInvariant, PTL DEF Spec, StreamSpec, S!Spec
=============================================================================
