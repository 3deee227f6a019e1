------------------------------- MODULE Packet -------------------------------
(***************************************************************************)
(* msgp of trunk/core/msgp.cc: a message and its attachments written into  *)
(* one block of memory, read back where they lie (map) and copied (clone). *)
(* The size and the sender's address go through the four-byte functions of *)
(* trunk/util/putint.cc and putptr.cc, the rest is copied as it is.        *)
(*                                                                         *)
(* Memory is a set of fields, each with its place, its length and what it  *)
(* holds.  A byte has Base values.                                         *)
(***************************************************************************)
EXTENDS Naturals, Sequences

CONSTANTS Base,       \* values of a byte (256)
          SizeT,      \* sizeof(size_t)
          PtrSize,    \* sizeof(mdisp *)
          InfoSize,   \* sizeof(para_msgi_t)
          VecSize,    \* sizeof(para_iov_t)
          Senders,    \* addresses; 0 is NULL
          Codes,      \* message codes
          Contents,   \* what attachments hold
          Infos,      \* what users send: a code and the attachments
          Unset       \* what unwritten memory and an unset variable hold

\* All attachments of no bytes are the same.
Attachment ==
  {a \in [data : Contents, size : Nat] : a.size = 0 => a.data = "nothing"}

ASSUME PacketAssumption ==
  /\ Base \in Nat /\ Base > 1
  /\ Senders \subseteq Nat
  /\ Infos \subseteq [id : Codes, attv : Seq(Attachment)]
  /\ \A n \in {SizeT, PtrSize, InfoSize, VecSize} : n \in Nat \ {0}

VARIABLES packet,  \* the block
          seen,    \* what map() set
          sent     \* ghost: what the block was made from

packetVars == <<packet, seen, sent>>

Null == [size |-> 0, fields |-> {}]

PacketInit == packet = Null /\ seen = Unset /\ sent = Unset

\* value >> 8.
Shift(v) == v \div Base

\* faeutil_putint: four bytes, highest first.
PutInt(v) ==
  <<Shift(Shift(Shift(v))) % Base, Shift(Shift(v)) % Base, Shift(v) % Base, v % Base>>

\* faeutil_putptr: of an address, too, the low four bytes.
PutPtr(p) == PutInt(p)

\* Mutant: the bytes are read in the order of a little-endian machine.
GetIntReversed(b) == ((b[4] * Base + b[3]) * Base + b[2]) * Base + b[1]

\* faeutil_getint.
GetInt(b) == ((b[1] * Base + b[2]) * Base + b[3]) * Base + b[4]

\* faeutil_getptr.
GetPtr(bytes) == GetInt(bytes)

\* Where a pointer is that starts at `from' and goes past pieces of these
\* sizes: past the first i of them, for each i.
Passing(from, size) ==
  LET tmp[i \in 0 .. Len(size)] == IF i = 0 THEN from ELSE tmp[i - 1] + size[i]
  IN tmp

Lengths(attv) == [i \in 1 .. Len(attv) |-> attv[i].size]

Total(attv) == Passing(0, Lengths(attv))[Len(attv)]

Field(at, size, what) == [at |-> at, size |-> size, what |-> what]

\* Where the array of attachments begins, and each attachment.
VecAt == 4 + 4 + InfoSize
DataAt(info, i) ==
  Passing(VecAt + VecSize * Len(info.attv), Lengths(info.attv))[i - 1]

\* Mutant: no room for the array.
NeedNoVectors(info) == SizeT + PtrSize + InfoSize + Total(info.attv)

\* What the constructor asks malloc() for,
Need(info) ==
  SizeT + PtrSize + InfoSize + Total(info.attv) + VecSize * Len(info.attv)

\* and what it writes.
Written(info, sender) ==
  {Field(0, 4, PutInt(Need(info))), Field(4, 4, PutPtr(sender)),
   Field(8, InfoSize, <<info.id, Len(info.attv)>>)}
  \cup {Field(VecAt + VecSize * (i - 1), VecSize, info.attv[i].size)
          : i \in DOMAIN info.attv}
  \cup {Field(DataAt(info, i), info.attv[i].size, info.attv[i].data)
          : i \in DOMAIN info.attv}

Build(info, sender) ==
  /\ packet = Null
  /\ packet' = [size |-> Need(info), fields |-> Written(info, sender)]
  /\ sent' = [info |-> info, sender |-> sender]
  /\ seen' = Unset

Read(at, size) ==
  LET there == {f \in packet.fields : f.at = at /\ f.size = size}
  IN IF there = {} THEN Unset ELSE (CHOOSE f \in there : TRUE).what

\* map(): the fields are read in the order they were written; attachments
\* one after another, each as long as its vector says.
MapPacket ==
  /\ packet # Null /\ seen = Unset
  /\ LET head == Read(8, InfoSize)
         size == [i \in 1 .. head[2] |-> Read(VecAt + VecSize * (i - 1), VecSize)]
         at == Passing(VecAt + VecSize * head[2], size)
     IN seen' = [info |-> [id |-> head[1],
                           attv |-> [i \in 1 .. head[2] |->
                             [data |-> Read(at[i - 1], size[i]), size |-> size[i]]]],
                 sender |-> GetPtr(Read(4, 4))]
  /\ UNCHANGED <<packet, sent>>

\* clone(): as many bytes as the first field says; here the clone is what is
\* used from then on.
Clone ==
  /\ packet # Null
  /\ LET n == GetInt(Read(0, 4))
     IN packet' = [size |-> n, fields |-> {f \in packet.fields : f.at + f.size <= n}]
  /\ UNCHANGED <<seen, sent>>

Discard == packet # Null /\ packet' = Null /\ seen' = Unset /\ sent' = Unset

PacketNext ==
  \/ \E info \in Infos, sender \in Senders : Build(info, sender)
  \/ MapPacket \/ Clone \/ Discard

PacketSpec == PacketInit /\ [][PacketNext]_packetVars
-----------------------------------------------------------------------------
\* Nothing is written outside the block, two fields never share a byte, and
\* the block is exactly filled: what the constructor asserts when debugging.
PacketFits ==
  /\ \A f \in packet.fields :
       /\ f.at + f.size <= packet.size
       /\ \A g \in packet.fields \ {f} :
            f.at + f.size <= g.at \/ g.at + g.size <= f.at
  /\ \A byte \in 0 .. packet.size - 1 :
       \E f \in packet.fields : f.at <= byte /\ byte < f.at + f.size

\* What a receiver maps, from the packet or from a clone of it, is what the
\* sender wrote: every attachment with its length, and whom to unblock.
PacketCarries == seen # Unset => seen = sent
=============================================================================
