------------------------------- MODULE DtvPdu -------------------------------
(***************************************************************************)
(* What the DTV service's PDUs hold and the sizes computed for them        *)
(* beforehand (dtv_pdu.c, memptr.c, and the create_pdu_wbuf calls of       *)
(* dtv_io.c).  A payload is a sequence of fields with their bytes; of a    *)
(* string only the length is kept.                                         *)
(***************************************************************************)
EXTENDS Integers, Sequences, SequencesExt

U8 == 1
U32 == 4
U64 == 8
SizeOfInt == 4

Field(name, bytes) == [name |-> name, bytes |-> bytes]
(* Conversion "0" appends a string with its '\0'. *)
Text(name, length) == Field(name, length + 1)

Sum(numbers) ==
  LET total[n \in 0..Len(numbers)] == IF n = 0 THEN 0 ELSE total[n - 1] + numbers[n]
  IN  total[Len(numbers)]
Bytes(fields) == Sum([i \in DOMAIN fields |-> fields[i].bytes])
SizeOfTexts(lengths) == Sum([i \in DOMAIN lengths |-> lengths[i] + 1])
Each(append(_), items) == FlattenSeq([i \in DOMAIN items |-> append(items[i])])
-----------------------------------------------------------------------------
(* A tuner is the length of its id and its number of supported types.      *)
tv_tuner == [id : Nat, num_types : Nat]

calculate_tuner_size(tuner) == U32 + (tuner.id + 1) + tuner.num_types
append_tuner(tuner) ==
  <<Text("id", tuner.id), Field("num_types", U32)>>
    \o [i \in 1..tuner.num_types |-> Field("supported_type", U8)]

(* A program is the lengths of its strings and of its languages'.          *)
tv_program == [evt_id : Nat, title : Nat, descpt : Nat, rating : Nat,
               langs : Seq(Nat), stl_langs : Seq(Nat)]

calculate_prog_size(prog) ==
  SizeOfTexts(<<prog.evt_id, prog.title, prog.descpt, prog.rating>>)
    + U64 + U64
    + U32 + SizeOfTexts(prog.langs)
    + U32 + SizeOfTexts(SubSeq(prog.stl_langs, 1, Len(prog.langs)))

(* lang_num counts the subtitle languages here, so the loop stops early or *)
(* runs past their end: see ReadsBeyond.  The title is not appended.       *)
append_program(prog) ==
  <<Text("evt_id", prog.evt_id), Field("start_time", U64), Field("duration", U64),
    Text("descpt", prog.descpt), Text("rating", prog.rating), Field("lang_num", U32)>>
    \o [i \in DOMAIN prog.langs |-> Text("lang", prog.langs[i])]
    \o <<Field("stl_lang_num", U32)>>
    \o [i \in DOMAIN prog.langs |-> Text("stl_lang", prog.stl_langs[i])]

ReadsBeyond(prog) == Len(prog.langs) > Len(prog.stl_langs)

(* A channel list: appending a channel runs out of arguments, in C         *)
(* undefined, so that only an empty list has fields.                       *)
ChannelListFields == <<Field("ch_num", U32)>>
-----------------------------------------------------------------------------
(* A native handle: how many descriptors and how many integers its data    *)
(* holds.  The loop over the integers ends numFds entries too early.       *)

HandleSize(handle) == U32 + U32 + U32 + SizeOfInt * handle.numInts
HandleFields(handle) ==
  <<Field("version", U32), Field("numFds", U32), Field("numInts", U32)>>
    \o [i \in 1 .. handle.numInts - handle.numFds |-> Field("data", U32)]

(* The descriptors travel as ancillary data, built in the buffer's tail:   *)
(* struct ancillary_data, aligned, and behind it the control message.      *)
ALIGNMENT_PADDING == 8

(* Variant: aligns to the next boundary but one. *)
CeilAlignTwice(ptr, align) == (ptr \div align + 2) * align

ceil_align(ptr, align) == (ptr \div align + 1) * align

CmsgAlign(bytes) == ((bytes + 7) \div 8) * 8
CMSG_SPACE(bytes) == 16 + CmsgAlign(bytes)

AncillarySize(fd_num) ==
  ALIGNMENT_PADDING + (SizeOfInt + SizeOfInt * fd_num) + CMSG_SPACE(SizeOfInt * fd_num)

(* Where the control message ends when the tail begins at address tail. *)
AncillaryEnd(tail, fd_num) ==
  ceil_align(tail, ALIGNMENT_PADDING)
    + (SizeOfInt + SizeOfInt * fd_num) + CMSG_SPACE(SizeOfInt * fd_num)
=============================================================================
