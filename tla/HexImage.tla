------------------------------ MODULE HexImage ------------------------------
(***************************************************************************)
(* The host's reader of Intel hex files, proc_hex_file and                 *)
(* make_output_bin_file of src/fwl_src/usbfwu/fwu_hex_processing.cpp, over *)
(* the sorted list of src/fwl_src/usbfwu/fwu_list.cpp.                     *)
(* A chunk is a run of bytes with no gap in it; the file's records may     *)
(* come in any order.  The list holds the chunks by address, and the       *)
(* binary file is written from it.  A line of the file is one step.        *)
(***************************************************************************)
EXTENDS Integers, SequencesExt

CONSTANTS
  Lines,        \* the lines a file may hold
  MaxLines,     \* bound: lines of a file
  Modulus,      \* 2^32: addresses are unsigned __int32
  LinearUnit,   \* 65536
  SegmentUnit   \* 16

ASSUME HexAssumption ==
  /\ {MaxLines, Modulus, LinearUnit, SegmentUnit} \subseteq Nat \ {0}
  /\ \A l \in Lines : /\ l.type \in {"data", "eof", "segment", "linear", "cs:ip", "eip", "bad"}
                      /\ l.addr \in 0 .. Modulus - 1
                      /\ l.type = "data" => l.data \in Seq(0 .. 255)

VARIABLES
  list,              \* gFileList: chunks [start_addr, bytes], and curr_capacity
  curr,              \* start_addr of the chunk of curr_file, or -1: none
  prev_mem_addr, linear_base_addr, segment_addr,
  phase,             \* "read", "made", "loaded"; or "err"
  out,               \* the binary file, a sequence of bytes
  told               \* history: the records accepted, <<address, bytes>>

hvars == <<list, curr, prev_mem_addr, linear_base_addr, segment_addr, phase, out, told>>

NoList == [elem |-> <<>>, capacity |-> 0]
HexInit ==
  /\ list = NoList /\ curr = -1 /\ prev_mem_addr = Modulus - 1
  /\ linear_base_addr = 0 /\ segment_addr = 0
  /\ phase = "read" /\ out = <<>> /\ told = <<>>

-----------------------------------------------------------------------------
(* fwu_list.cpp.                                                           *)

Grow(c) == c + (IF c > 64 THEN c \div 4 ELSE IF c > 8 THEN 16 ELSE 4)
Insert(L, pos, item) ==            \* pos counts from 0
  [elem |-> InsertAt(L.elem, pos + 1, item),
   capacity |-> IF Len(L.elem) = L.capacity THEN Grow(L.capacity) ELSE L.capacity]

addr_compare_func(a, b) ==
  IF a.start_addr < b.start_addr THEN -1 ELSE IF a.start_addr > b.start_addr THEN 1 ELSE 0

(* fwu_list_search, a binary search: the entry looked at last, from 0, and *)
(* on which side of it the item belongs.                                   *)
Search(L, item) ==
  LET side(mid) == addr_compare_func(item, L.elem[mid + 1])
      n == Len(L.elem)
      from[r \in (0 .. n) \X (-1 .. n)] ==
        LET mid == (r[1] + r[2]) \div 2
            here == [at |-> mid, cond |-> side(mid)]
        IN  CASE side(mid) < 0 /\ mid > 0 /\ mid - 1 >= r[1] -> from[<<r[1], mid - 1>>]
              [] side(mid) > 0 /\ mid + 1 <= r[2] -> from[<<mid + 1, r[2]>>]
              [] OTHER -> here
  IN  from[<<0, n - 1>>]

(* fwu_list_insert_by_order with NOT_INSERT_DUP.                           *)
IsDup(L, item) == L.elem # <<>> /\ Search(L, item).cond = 0
InsertByOrderBefore(L, item) ==    \* mutant: before the entry, on either side
  Insert(L, IF L.elem = <<>> THEN 0 ELSE Search(L, item).at, item)

InsertByOrder(L, item) ==
  LET s == Search(L, item)
  IN  Insert(L, IF L.elem = <<>> THEN 0 ELSE IF s.cond < 0 THEN s.at ELSE s.at + 1, item)

-----------------------------------------------------------------------------
(* proc_hex_file.                                                          *)

Reading == phase = "read" /\ Len(told) < MaxLines
FileFails ==
  /\ phase' = "err"
  /\ UNCHANGED <<list, curr, prev_mem_addr, linear_base_addr, segment_addr, out, told>>

(* A line without a colon, with a wrong checksum, or with a character that *)
(* is no hex digit.  Of the address only the second byte is looked at:     *)
(* line_addr is unsigned and never below zero, and a first byte that is no *)
(* hex counts as -1, for an address among the last 256 below Modulus.      *)
BadLine == Reading /\ (\E l \in Lines : l.type = "bad") /\ FileFails

(* Data that do not follow the last ones start a chunk.                    *)
MemAddr(l) == (linear_base_addr * LinearUnit + segment_addr * SegmentUnit + l.addr) % Modulus
Follows(l) == MemAddr(l) = prev_mem_addr
Overlaps(l) == \E i \in DOMAIN list.elem :
  LET c == list.elem[i]  n == Len(c.bytes)
  IN  \/ MemAddr(l) >= c.start_addr /\ (c.start_addr + n - 1) % Modulus > MemAddr(l)
      \/ n = 0 /\ MemAddr(l) = c.start_addr
Chunk(l) == [start_addr |-> MemAddr(l), bytes |-> <<>>]
Refused(l) == ~Follows(l) /\ (Overlaps(l) \/ IsDup(list, Chunk(l)))

(* The bytes go into the current chunk; a first record that seems to       *)
(* follow has none.                                                        *)
Filled(L, start, bytes) ==
  LET more(c) == IF c.start_addr = start THEN [c EXCEPT !.bytes = @ \o bytes] ELSE c
  IN  [L EXCEPT !.elem = [i \in DOMAIN L.elem |-> more(L.elem[i])]]
RefusesData == Reading /\ \E l \in Lines :
  /\ l.type = "data"
  /\ Refused(l) \/ (Follows(l) /\ curr = -1 /\ l.data # <<>>)
  /\ FileFails

DataRecord == Reading /\ \E l \in Lines :
  LET start == IF Follows(l) THEN curr ELSE MemAddr(l)
      L == IF Follows(l) THEN list ELSE InsertByOrder(list, Chunk(l))
  IN  /\ l.type = "data" /\ ~Refused(l)
      /\ start = -1 => l.data = <<>>
      /\ list' = Filled(L, start, l.data) /\ curr' = start
      /\ prev_mem_addr' = (MemAddr(l) + Len(l.data)) % Modulus
      /\ told' = Append(told, <<MemAddr(l), l.data>>)
      /\ UNCHANGED <<linear_base_addr, segment_addr, phase, out>>

(* The addresses of the records that follow; neither resets the other.     *)
SegmentRecord == Reading /\ \E l \in Lines :
  /\ l.type = "segment" /\ segment_addr' = l.addr
  /\ UNCHANGED <<list, curr, prev_mem_addr, linear_base_addr, phase, out, told>>
LinearRecord == Reading /\ \E l \in Lines :
  /\ l.type = "linear" /\ linear_base_addr' = l.addr
  /\ UNCHANGED <<list, curr, prev_mem_addr, segment_addr, phase, out, told>>

(* Where to start to run, of either kind, is not used.                     *)
StartSegmentRecord == Reading /\ (\E l \in Lines : l.type = "cs:ip") /\ UNCHANGED hvars
StartLinearRecord == Reading /\ (\E l \in Lines : l.type = "eip") /\ UNCHANGED hvars

-----------------------------------------------------------------------------
(* make_output_bin_file: each chunk at its distance from the first one.    *)
(* The offset that fseek takes is signed, with as many bits as an address: *)
(* half of the addresses are negative, fseek fails, nobody looks, and the  *)
(* chunk goes where the chunk before it ended.                             *)
WrittenAt(file, pos, bytes) ==
  IF bytes = <<>> THEN file
  ELSE [i \in 1 .. Max({Len(file), pos + Len(bytes)}) |->
          IF i - pos \in DOMAIN bytes THEN bytes[i - pos]
          ELSE IF i \in DOMAIN file THEN file[i] ELSE 0]
Sought(pos, file_addr) == IF file_addr < Modulus \div 2 THEN file_addr ELSE pos
BinFile ==
  LET e == list.elem
      file[n \in 0 .. Len(e)] ==
        IF n = 0 THEN [bytes |-> <<>>, pos |-> 0]
        ELSE LET f == file[n - 1]
                 at == Sought(f.pos, (e[n].start_addr - e[1].start_addr) % Modulus)
             IN  [bytes |-> WrittenAt(f.bytes, at, e[n].bytes), pos |-> at + Len(e[n].bytes)]
  IN  file[Len(e)].bytes
(* The list is emptied from its head; its capacity stays.                  *)
Emptied(L) == [L EXCEPT !.elem = <<>>]

(* An end record, or the end of the file.                                  *)
EndOfFile ==
  /\ phase = "read"
  /\ out' = BinFile /\ list' = Emptied(list) /\ phase' = "made"
  /\ UNCHANGED <<curr, prev_mem_addr, linear_base_addr, segment_addr, told>>

(* LoadHexFile: the binary file, unless it is empty, becomes FWBuf.        *)
LoadHexFile ==
  /\ phase = "made" /\ phase' = IF out = <<>> THEN "err" ELSE "loaded"
  /\ UNCHANGED <<list, curr, prev_mem_addr, linear_base_addr, segment_addr, out, told>>

(* The next file: clear_list drops what an error left in the list.         *)
NextFile ==
  /\ phase \in {"loaded", "err"}
  /\ list' = Emptied(list) /\ curr' = -1 /\ prev_mem_addr' = Modulus - 1
  /\ linear_base_addr' = 0 /\ segment_addr' = 0
  /\ phase' = "read" /\ out' = <<>> /\ told' = <<>>

HexNext == \/ BadLine \/ RefusesData \/ DataRecord \/ SegmentRecord \/ LinearRecord
           \/ StartSegmentRecord \/ StartLinearRecord
           \/ EndOfFile \/ LoadHexFile \/ NextFile
HexSpec == HexInit /\ [][HexNext]_hvars

-----------------------------------------------------------------------------
Bytes(r) == r[1] .. r[1] + Len(r[2]) - 1     \* the addresses of a record
Disjoint == \A i, j \in DOMAIN told : i # j => Bytes(told[i]) \cap Bytes(told[j]) = {}
Within == \A i \in DOMAIN told : told[i][1] + Len(told[i][2]) < Modulus
At(a) == LET r == {told[i] : i \in {n \in DOMAIN told : a \in Bytes(told[n])}}
         IN  IF r = {} THEN 0 ELSE LET x == CHOOSE x \in r : TRUE IN x[2][a - x[1] + 1]

Near == \A i, j \in DOMAIN told : told[i][1] + Len(told[i][2]) < told[j][1] + Modulus \div 2

(* Every byte of every record is in the binary file at its distance from   *)
(* the lowest record, gaps are zero and there is nothing more.             *)
IsTheFile ==
  LET first == Min({told[i][1] : i \in DOMAIN told})
      all == UNION {Bytes(told[i]) : i \in DOMAIN told}
  IN  IF all = {} THEN out = <<>>
      ELSE out = [i \in 1 .. Max(all) - first + 1 |-> At(first + i - 1)]

(* The image is the file's, in whatever order the records came and         *)
(* whichever base addresses they used, when they do not overlap, stay      *)
(* below the last address, and are as near to each other as fseek reaches. *)
ImageIsTheFile == phase \in {"made", "loaded"} /\ Disjoint /\ Within /\ Near => IsTheFile
=============================================================================
