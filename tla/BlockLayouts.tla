---------------------------- MODULE BlockLayouts ----------------------------
(***************************************************************************)
(* Where the readers look inside a block (src/blocks, src/mdf3/blocks.rs), *)
(* where the block map's summary looks (src/inspect.rs), and where the     *)
(* writer puts what it writes (src/write.rs). A block is a header, links   *)
(* and fields; a reading of it is the set of sections it takes, each with  *)
(* its name, its first byte and its width in bytes.                        *)
(***************************************************************************)
EXTENDS Integers, Sequences, FiniteSetsExt, Folds

HeaderSize == 24
LinkSize == 8

Section(name, at, width) == [name |-> name, at |-> at, width |-> width]

\* Parts one after another, from a byte on.
Laid(start, parts) ==
    LET at[i \in DOMAIN parts] == IF i = 1 THEN start ELSE at[i - 1] + parts[i - 1][2]
    IN  {Section(parts[i][1], at[i], parts[i][2]) : i \in {j \in DOMAIN parts : parts[j][2] > 0}}

End(s) == s.at + s.width

-----------------------------------------------------------------------------
(***************************************************************************)
(* The readers of version 4. A block has its identifier (kind), declared   *)
(* size and number of links, the bytes the file has left for it, and what  *)
(* decides about its layout: flags (by bit), a count, dimensions and a     *)
(* storage. It is read as the block the link to it is for (want).          *)
(***************************************************************************)

Refused == [links |-> {}, fields |-> {}, read |-> FALSE]
DataOffset(b) == HeaderSize + LinkSize * b.links

HeaderHolds(b) == b.size >= HeaderSize /\ DataOffset(b) <= b.size /\ b.size <= b.room

\* Every read is checked against the bytes of the block, not against the
\* section it is meant for.
Parsed(b, kinds, least, links, fields) ==
    IF HeaderHolds(b) /\ b.kind \in kinds /\ b.size >= least /\ \A s \in links \cup fields : End(s) <= b.size
    THEN [links |-> links, fields |-> fields, read |-> TRUE] ELSE Refused

Links(names) == Laid(HeaderSize, [i \in DOMAIN names |-> <<names[i], LinkSize>>])
Fixed(b, kind, least, names, parts) == Parsed(b, {kind}, least, Links(names), Laid(DataOffset(b), parts))

\* The first bytes of a file, of which there are room. A recorder that was
\* stopped leaves another signature.
IdBlock(signature, room) ==
    IF room < 64 \/ signature \notin {"MDF", "UnFinMF"} THEN {}
    ELSE Laid(0, <<<<"identification", 8>>, <<"version", 8>>, <<"program", 8>>, <<"reserved", 4>>, <<"version_number", 2>>,
                   <<"reserved", 30>>, <<"unfinalized", 2>>, <<"custom_unfinalized", 2>>>>)

HdBlock(b) ==
    Fixed(b, "HD", 104, <<"dg_first", "fh_first", "ch_first", "at_first", "ev_first", "md_comment">>,
          <<<<"start_time", 8>>, <<"tz_offset", 2>>, <<"dst_offset", 2>>, <<"time_flags", 1>>, <<"flags", 1>>,
            <<"reserved", 2>>, <<"start_angle", 8>>, <<"start_distance", 8>>>>)

FhBlock(b) ==
    Fixed(b, "FH", 56, <<"fh_next", "md_comment">>,
          <<<<"time", 8>>, <<"tz_offset", 2>>, <<"dst_offset", 2>>, <<"time_flags", 1>>, <<"reserved", 3>>>>)

DgBlock(b) ==
    Fixed(b, "DG", 64, <<"dg_next", "cg_first", "data", "md_comment">>, <<<<"rec_id_size", 1>>, <<"reserved", 7>>>>)

CgBlock(b) ==
    Fixed(b, "CG", 104, <<"cg_next", "cn_first", "tx_acq_name", "si_acq_source", "sr_first", "md_comment">>,
          <<<<"record_id", 8>>, <<"cycle_count", 8>>, <<"flags", 2>>, <<"path_separator", 2>>, <<"reserved", 4>>,
            <<"data_bytes", 4>>, <<"inval_bytes", 4>>>>)

CnBlock(b) ==
    LET named == <<"cn_next", "composition", "tx_name", "si_source", "cc_conversion", "data", "md_unit", "md_comment">>
        more == (IF b.links > 8 THEN <<"at_reference">> ELSE <<>>)
                \o (IF b.links > 9 THEN <<"default_x", "default_x", "default_x">> ELSE <<>>)
    IN  Fixed(b, "CN", 160, named \o more,
              <<<<"channel_type", 1>>, <<"sync_type", 1>>, <<"data_type", 1>>, <<"bit_offset", 1>>,
                <<"byte_offset", 4>>, <<"bit_count", 4>>, <<"flags", 4>>, <<"inval_bit_pos", 4>>, <<"precision", 1>>,
                <<"reserved", 1>>, <<"attachment_count", 2>>, <<"ranges", 48>>>>)

CcBlock(b) ==
    Parsed(b, {"CC"}, 80, Laid(HeaderSize, <<<<"tx_name", 8>>, <<"md_unit", 8>>, <<"md_comment", 8>>, <<"cc_inverse", 8>>,
                                     <<"references", LinkSize * (b.links - 4)>>>>),
           Laid(DataOffset(b), <<<<"conversion_type", 1>>, <<"precision", 1>>, <<"flags", 2>>, <<"ref_count", 2>>,
                                 <<"val_count", 2>>, <<"phy_range", 16>>, <<"values", 8 * b.count>>>>))

SiBlock(b) ==
    Fixed(b, "SI", 56, <<"tx_name", "tx_path", "md_comment">>,
          <<<<"source_type", 1>>, <<"bus_type", 1>>, <<"flags", 1>>, <<"reserved", 5>>>>)

\* The least size counts four of the five links.
EvBlock(b) ==
    Fixed(b, "EV", 88, <<"ev_next", "ev_parent", "ev_range", "tx_name", "md_comment">>,
          <<<<"ev_type", 1>>, <<"ev_sync_type", 1>>, <<"ev_range_type", 1>>, <<"ev_cause", 1>>, <<"ev_flags", 1>>,
            <<"reserved", 3>>, <<"ev_scope_count", 4>>, <<"ev_attachment_count", 2>>, <<"ev_creator_index", 2>>,
            <<"ev_sync_base_value", 8>>, <<"ev_sync_factor", 8>>>>)

AtBlock(b) ==
    Fixed(b, "AT", 96, <<"at_next", "tx_filename", "tx_mimetype", "md_comment">>,
          <<<<"flags", 2>>, <<"creator_index", 2>>, <<"reserved", 4>>, <<"md5_checksum", 16>>,
            <<"original_size", 8>>, <<"embedded_size", 8>>>>)

SrBlock(b) ==
    Fixed(b, "SR", 64, <<"sr_next", "sr_data">>,
          <<<<"sr_cycle_count", 8>>, <<"sr_interval", 8>>, <<"sr_sync_type", 1>>, <<"sr_flags", 1>>, <<"reserved", 6>>>>)

HlBlock(b) == Fixed(b, "HL", HeaderSize, <<"dl_first">>, <<<<"flags", 2>>, <<"zip_type", 1>>, <<"reserved", 5>>>>)

\* No links: its data starts after the header whatever it declares.
DzBlock(b) ==
    Parsed(b, {"DZ"}, 48, {}, Laid(HeaderSize, <<<<"original_type", 2>>, <<"zip_type", 1>>, <<"reserved", 1>>,
                                         <<"zip_parameter", 4>>, <<"original_size", 8>>, <<"compressed_size", 8>>>>))

\* One container under five names.
DtBlock(b) == Parsed(b, {"DT", "SD", "RD", "DV", "DI"}, HeaderSize, {}, {Section("records", HeaderSize, b.size - HeaderSize)})
TxBlock(b) == Parsed(b, {"TX", "MD"}, HeaderSize, {}, {Section("text", HeaderSize, b.size - HeaderSize)})

\* What a list says of each of its blocks: bit 0 gives all of them one length,
\* bits 1 to 3 add a value of each.
PerBlock(b) ==
    (IF 0 \in b.flags THEN <<<<"equal_length", 8>>>> ELSE <<<<"offsets", 8 * b.count>>>>)
    \o (IF 1 \in b.flags THEN <<<<"time_values", 8 * b.count>>>> ELSE <<>>)
    \o (IF 2 \in b.flags THEN <<<<"angle_values", 8 * b.count>>>> ELSE <<>>)
    \o (IF 3 \in b.flags THEN <<<<"distance_values", 8 * b.count>>>> ELSE <<>>)

DlBlock(b) ==
    Parsed(b, {"DL"}, HeaderSize, Laid(HeaderSize, <<<<"dl_next", 8>>, <<"dl_data", LinkSize * (b.links - 1)>>>>),
           Laid(DataOffset(b), <<<<"flags", 1>>, <<"reserved", 3>>, <<"count", 4>>>> \o PerBlock(b)))

\* Bit 31 adds as many links again, to the invalidation bytes of each block.
LdBlock(b) ==
    LET data == Min({b.count, Max({b.links - 1, 0})})
        inval == IF 31 \in b.flags THEN Min({b.count, Max({b.links - (1 + b.count), 0})}) ELSE 0
        links == Laid(HeaderSize, <<<<"ld_next", 8>>, <<"ld_data", LinkSize * data>>>>)
                 \cup Laid(HeaderSize + LinkSize * (1 + b.count), <<<<"ld_invalidation", LinkSize * inval>>>>)
    IN  Parsed(b, {"LD"}, HeaderSize, links, Laid(DataOffset(b), <<<<"flags", 4>>, <<"count", 4>>>> \o PerBlock(b)))

ChBlock(b) ==
    IF b.links < 4 THEN Refused
    ELSE Parsed(b, {"CH"}, HeaderSize,
                Laid(HeaderSize, <<<<"ch_next", 8>>, <<"ch_first", 8>>, <<"tx_name", 8>>, <<"md_comment", 8>>,
                                   <<"ch_element", 3 * LinkSize * ((b.links - 4) \div 3)>>>>),
                Laid(DataOffset(b), <<<<"ch_element_count", 4>>, <<"ch_type", 1>>, <<"reserved", 3>>>>))

(***************************************************************************)
(* An array's links depend on its flags and sizes. A part has links in     *)
(* units of one or three; what of it the block still has is taken; the     *)
(* next part starts after all its links ("exact") or after those taken.    *)
(***************************************************************************)
Part(name, unit, wanted, exact) == [name |-> name, unit |-> unit, wanted |-> wanted, exact |-> exact]
Elements(b) == FoldFunction(LAMBDA x, y : x * y, 1, b.dims)

CaPartsNarrow(b) ==
    LET dims == Len(b.dims)
    IN  <<Part("ca_composition", 1, 1, TRUE)>>
        \o (IF b.storage \in {"CgTemplate", "DgTemplate"} THEN <<Part("ca_data", 1, Elements(b), TRUE)>> ELSE <<>>)
        \o (IF 0 \in b.flags THEN <<Part("ca_dynamic_size", 3, dims, FALSE)>> ELSE <<>>)
        \o (IF 1 \in b.flags THEN <<Part("input_quantity", 1, dims, TRUE)>> ELSE <<>>)
        \o (IF 2 \in b.flags THEN <<Part("output_quantity", 3, 1, TRUE)>> ELSE <<>>)
        \o (IF 3 \in b.flags THEN <<Part("comparison_quantity", 3, 1, TRUE)>> ELSE <<>>)
        \o (IF 4 \in b.flags THEN <<Part("ca_axis_conversion", 1, dims, FALSE)>> ELSE <<>>)
        \o (IF 4 \in b.flags /\ 5 \notin b.flags THEN <<Part("ca_axis", 3, dims, FALSE)>> ELSE <<>>)

CaParts(b) ==
    LET dims == Len(b.dims)
    IN  <<Part("ca_composition", 1, 1, TRUE)>>
        \o (IF b.storage \in {"CgTemplate", "DgTemplate"} THEN <<Part("ca_data", 1, Elements(b), TRUE)>> ELSE <<>>)
        \o (IF 0 \in b.flags THEN <<Part("ca_dynamic_size", 3, dims, FALSE)>> ELSE <<>>)
        \o (IF 1 \in b.flags THEN <<Part("input_quantity", 3, dims, TRUE)>> ELSE <<>>)
        \o (IF 2 \in b.flags THEN <<Part("output_quantity", 3, 1, TRUE)>> ELSE <<>>)
        \o (IF 3 \in b.flags THEN <<Part("comparison_quantity", 3, 1, TRUE)>> ELSE <<>>)
        \o (IF 4 \in b.flags THEN <<Part("ca_axis_conversion", 1, dims, FALSE)>> ELSE <<>>)
        \o (IF 4 \in b.flags /\ 5 \notin b.flags THEN <<Part("ca_axis", 3, dims, FALSE)>> ELSE <<>>)

Skipped == {"input_quantity", "output_quantity", "comparison_quantity"}

CaPartition(b, parts) ==
    LET Taken(p, i) == Min({p.wanted, Max({b.links - i, 0}) \div p.unit})
        first[k \in 1..Len(parts)] ==
            IF k = 1 THEN 0
            ELSE LET p == parts[k - 1]
                 IN  first[k - 1] + p.unit * (IF p.exact THEN p.wanted ELSE Taken(p, first[k - 1]))
    IN  {Section(parts[k].name, HeaderSize + LinkSize * first[k], LinkSize * parts[k].unit * Taken(parts[k], first[k])) :
            k \in {j \in DOMAIN parts : parts[j].name \notin Skipped}}

CaBlock(b) ==
    LET axis == IF 5 \in b.flags THEN 8 * FoldFunction(LAMBDA x, y : x + y, 0, b.dims) ELSE 0
    IN  IF b.dims = <<>> THEN Refused
        ELSE Parsed(b, {"CA"}, HeaderSize, {s \in CaPartition(b, CaParts(b)) : s.width > 0},
                    Laid(DataOffset(b), <<<<"ca_type", 1>>, <<"ca_storage", 1>>, <<"ca_ndim", 2>>, <<"ca_flags", 4>>,
                                          <<"ca_byte_offset_base", 4>>, <<"ca_invalidation_bit_base", 4>>,
                                          <<"ca_dim_size", 8 * Len(b.dims)>>, <<"ca_axis_values", axis>>>>))

Kinds == {"HD", "FH", "DG", "CG", "CN", "CC", "SI", "EV", "AT", "SR", "HL", "DZ", "DT", "TX", "DL", "LD", "CH", "CA"}

Parse(b) ==
    CASE b.want = "HD" -> HdBlock(b) [] b.want = "FH" -> FhBlock(b) [] b.want = "DG" -> DgBlock(b)
      [] b.want = "CG" -> CgBlock(b) [] b.want = "CN" -> CnBlock(b) [] b.want = "CC" -> CcBlock(b)
      [] b.want = "SI" -> SiBlock(b) [] b.want = "EV" -> EvBlock(b) [] b.want = "AT" -> AtBlock(b)
      [] b.want = "SR" -> SrBlock(b) [] b.want = "HL" -> HlBlock(b) [] b.want = "DZ" -> DzBlock(b)
      [] b.want = "DT" -> DtBlock(b) [] b.want = "TX" -> TxBlock(b) [] b.want = "DL" -> DlBlock(b)
      [] b.want = "LD" -> LdBlock(b) [] b.want = "CH" -> ChBlock(b) [] b.want = "CA" -> CaBlock(b)

(***************************************************************************)
(* What the bytes stand for.                                               *)
(***************************************************************************)

ChannelTypes == <<"fixed-length", "variable-length", "master", "virtual master", "synchronisation", "maximum-length", "virtual">>
SyncTypes == <<"none", "time", "angle", "distance", "index">>
ConversionTypes ==
    <<"identity", "linear", "rational", "algebraic", "interpolating table", "table", "range table", "text table",
      "range text table", "text-to-value", "text-to-text", "bitfield">>
SourceTypes == <<"other", "ECU", "bus", "I/O", "tool", "user">>
BusTypes == <<"none", "other", "CAN", "LIN", "MOST", "FlexRay", "K-Line", "Ethernet", "USB">>
CompressionTypes == <<"deflate", "transposed deflate", "zstd", "transposed zstd", "lz4", "transposed lz4">>
EventTypes ==
    <<"recording", "recording interrupt", "acquisition interrupt", "start trigger", "stop trigger", "trigger", "marker">>
EventSyncTypes == <<"unknown", "time", "angle", "distance", "index">>
SrSyncTypes == <<"unknown", "time", "angle", "distance", "index">>
ArrayTypes == <<"value", "scaling axis", "look-up">>
Storages == <<"CnTemplate", "CgTemplate", "DgTemplate">>
HierarchyTypes ==
    <<"group", "function", "structure", "map list", "input", "output", "local", "calibration definition",
      "calibration reference">>

\* The values of a field in their order; from_u8 keeps a number beyond them.
Codes ==
    [channel_type |-> ChannelTypes, sync_type |-> SyncTypes, conversion_type |-> ConversionTypes,
     source_type |-> SourceTypes, bus_type |-> BusTypes, zip_type |-> CompressionTypes, ev_type |-> EventTypes,
     ev_sync_type |-> EventSyncTypes, sr_sync_type |-> SrSyncTypes, ca_type |-> ArrayTypes, ca_storage |-> Storages,
     ch_type |-> HierarchyTypes]

Decoded(codes, value) == IF value < Len(codes) THEN codes[value + 1] ELSE "unknown"
-----------------------------------------------------------------------------
(***************************************************************************)
(* The block map: what its one line about a block takes from the data      *)
(* section, and how it calls the links.                                    *)
(***************************************************************************)

\* What of a block's data the walk keeps.
SummaryPrefix == 320

SummaryFields(b) ==
    [HD |-> {Section("start_time", 0, 8), Section("time_flags", 12, 1)},
     FH |-> {Section("time", 0, 8)},
     DG |-> {Section("rec_id_size", 0, 1)},
     CG |-> {Section("record_id", 0, 8), Section("cycle_count", 8, 8), Section("flags", 16, 2),
             Section("data_bytes", 20, 4), Section("inval_bytes", 24, 4)},
     CN |-> {Section("channel_type", 0, 1), Section("sync_type", 1, 1), Section("data_type", 2, 1),
             Section("bit_offset", 3, 1), Section("byte_offset", 4, 4), Section("bit_count", 8, 4)},
     CC |-> {Section("conversion_type", 0, 1), Section("ref_count", 4, 2), Section("val_count", 6, 2)},
     SI |-> {Section("source_type", 0, 1), Section("bus_type", 1, 1), Section("flags", 2, 1)},
     DZ |-> {Section("original_type", 0, 2), Section("zip_type", 2, 1), Section("original_size", 8, 8),
             Section("compressed_size", 16, 8)},
     DL |-> {Section("flags", 0, 1), Section("count", 4, 4), Section("equal_length", 8, 8)},
     LD |-> {Section("flags", 0, 4), Section("count", 4, 4), Section("equal_length", 8, 8)},
     HL |-> {Section("flags", 0, 2), Section("zip_type", 2, 1)},
     AT |-> {Section("flags", 16, 2), Section("original_size", 24, 8), Section("embedded_size", 32, 8)},
     EV |-> {Section("ev_type", 0, 1), Section("ev_sync_type", 1, 1), Section("ev_scope_count", 8, 4),
             Section("ev_sync_base_value", 16, 8), Section("ev_sync_factor", 24, 8)},
     CA |-> {Section("ca_type", 0, 1), Section("ca_storage", 1, 1), Section("ca_ndim", 2, 2),
             Section("ca_dim_size", 16, 8 * Len(b.dims))},
     CH |-> {Section("ch_element_count", 0, 4), Section("ch_type", 4, 1)},
     SR |-> {Section("sr_cycle_count", 0, 8), Section("sr_interval", 8, 8), Section("sr_sync_type", 16, 1)},
     DT |-> {Section("records", 0, b.size - DataOffset(b))},
     TX |-> {Section("text", 0, Min({b.size - DataOffset(b), SummaryPrefix}))}]

SummaryId == {Section("version", 8, 8), Section("program", 16, 8), Section("unfinalized", 60, 2)}

\* The equal length is read only from a list that says it has one.
Summarize(b) ==
    {Section(s.name, DataOffset(b) + s.at, s.width) :
        s \in {r \in SummaryFields(b)[b.want] : r.name = "equal_length" => 0 \in b.flags}}

\* The names the summary has for the numbers, in the readers' words. A bus is
\* named only if its number is not nought.
SummaryChannelTypes == <<"fixed-length", "variable-length", "master", "virtual master", "synchronisation", "maximum-length", "virtual">>
SyncNames == <<"none", "time", "angle", "distance", "index">>
SyncUnits == <<"unknown", "time", "angle", "distance", "index">>
SummaryConversionTypes ==
    <<"identity", "linear", "rational", "algebraic", "interpolating table", "table", "range table", "text table",
      "range text table", "text-to-value", "text-to-text", "bitfield">>
SummarySourceTypes == <<"other", "ECU", "bus", "I/O", "tool", "user">>
SummaryBusTypes == <<"none", "CAN", "LIN", "MOST", "FlexRay", "K-Line", "Ethernet", "USB">>
SummaryCompressions == <<"deflate", "transposed deflate">>
SummaryEventTypes ==
    <<"recording", "recording interrupt", "acquisition interrupt", "start trigger", "stop trigger", "trigger", "marker">>
SummaryArrayTypes == <<"value", "scaling axis", "look-up", "interval axis", "classification result">>
SummaryStorages == <<"CnTemplate", "CgTemplate", "DgTemplate">>
SummaryHierarchyTypes ==
    <<"group", "function", "structure", "map list", "input", "output", "local", "calibration definition",
      "calibration reference">>

SummaryCodes ==
    [channel_type |-> SummaryChannelTypes, sync_type |-> SyncNames, conversion_type |-> SummaryConversionTypes,
     source_type |-> SummarySourceTypes, bus_type |-> SummaryBusTypes, zip_type |-> SummaryCompressions,
     ev_type |-> SummaryEventTypes, ev_sync_type |-> SyncUnits, sr_sync_type |-> SyncUnits,
     ca_type |-> SummaryArrayTypes, ca_storage |-> SummaryStorages, ch_type |-> SummaryHierarchyTypes]

\* Names of the first links, and of all those after them. (AtBlock calls the
\* third link of an attachment its path.)
LinkNames ==
    [HD |-> <<"dg_first", "fh_first", "ch_first", "at_first", "ev_first", "md_comment">>,
     FH |-> <<"fh_next", "md_comment">>,
     DG |-> <<"dg_next", "cg_first", "data", "md_comment">>,
     CG |-> <<"cg_next", "cn_first", "tx_acq_name", "si_acq_source", "sr_first", "md_comment">>,
     CN |-> <<"cn_next", "composition", "tx_name", "si_source", "cc_conversion", "data", "md_unit", "md_comment">>,
     CC |-> <<"tx_name", "md_unit", "md_comment", "cc_inverse">>,
     SI |-> <<"tx_name", "tx_path", "md_comment">>,
     CA |-> <<"ca_composition">>, DL |-> <<"dl_next">>, LD |-> <<"ld_next">>, HL |-> <<"dl_first">>,
     AT |-> <<"at_next", "tx_filename", "tx_mimetype", "md_comment">>,
     EV |-> <<"ev_next", "ev_parent", "ev_range", "tx_name", "md_comment">>,
     CH |-> <<"ch_next", "ch_first", "tx_name", "md_comment">>,
     SR |-> <<"sr_next", "sr_data">>, DZ |-> <<>>, DT |-> <<>>, TX |-> <<>>]

TailName(kind) ==
    CASE kind = "CN" -> "at_reference" [] kind = "CC" -> "references" [] kind = "CA" -> "ca_data"
      [] kind = "DL" -> "dl_data" [] kind = "LD" -> "ld_data" [] kind = "EV" -> "ev_scope"
      [] kind = "CH" -> "ch_element" [] OTHER -> "link"

LinkLabel(kind, i) == IF i < Len(LinkNames[kind]) THEN LinkNames[kind][i + 1] ELSE TailName(kind)

-----------------------------------------------------------------------------
(***************************************************************************)
(* The writer: the size a block declares, and the links and the bytes that *)
(* are pushed after its header, one after another.                         *)
(***************************************************************************)

Written(size, links, parts) ==
    [size |-> size, count |-> Len(links), links |-> Links(links), fields |-> Laid(HeaderSize + LinkSize * Len(links), parts)]

WriteId ==
    {Section("identification", 0, 8), Section("version", 8, 8), Section("program", 16, 8), Section("version_number", 28, 2)}
WriteHd ==
    Written(104, <<"dg_first", "fh_first", "ch_first", "at_first", "ev_first", "md_comment">>,
            <<<<"start_time", 8>>, <<"tz_offset", 2>>, <<"dst_offset", 2>>, <<"time_flags", 1>>, <<"flags", 1>>,
              <<"reserved", 1>>, <<"reserved", 1>>, <<"start_angle", 8>>, <<"start_distance", 8>>>>)
WriteFh ==
    Written(56, <<"fh_next", "md_comment">>,
            <<<<"time", 8>>, <<"tz_offset", 2>>, <<"dst_offset", 2>>, <<"time_flags", 1>>, <<"reserved", 3>>>>)
\* The text and the nought after it.
WriteTx(length) == Written(HeaderSize + length + 1, <<>>, <<<<"text", length + 1>>>>)
WriteDg == Written(64, <<"dg_next", "cg_first", "data", "md_comment">>, <<<<"rec_id_size", 1>>, <<"reserved", 7>>>>)
WriteCg ==
    Written(104, <<"cg_next", "cn_first", "tx_acq_name", "si_acq_source", "sr_first", "md_comment">>,
            <<<<"record_id", 8>>, <<"cycle_count", 8>>, <<"flags", 2>>, <<"path_separator", 2>>, <<"reserved", 4>>,
              <<"data_bytes", 4>>, <<"inval_bytes", 4>>>>)
WriteCn ==
    Written(160, <<"cn_next", "composition", "tx_name", "si_source", "cc_conversion", "data", "md_unit", "md_comment">>,
            <<<<"channel_type", 1>>, <<"sync_type", 1>>, <<"data_type", 1>>, <<"bit_offset", 1>>, <<"byte_offset", 4>>,
              <<"bit_count", 4>>, <<"flags", 4>>, <<"inval_bit_pos", 4>>, <<"precision", 1>>, <<"reserved", 1>>,
              <<"attachment_count", 2>>, <<"ranges", 48>>>>)
WriteCa(dims) ==
    Written(48 + 8 * dims, <<"ca_composition">>,
            <<<<"ca_type", 1>>, <<"ca_storage", 1>>, <<"ca_ndim", 2>>, <<"ca_flags", 4>>, <<"ca_byte_offset_base", 4>>,
              <<"ca_invalidation_bit_base", 4>>, <<"ca_dim_size", 8 * dims>>>>)

\* CcPlan::size
CcSize(refs, values) == HeaderSize + LinkSize * (4 + refs) + 24 + 8 * values
WriteCc(refs, values) ==
    Written(CcSize(refs, values), <<"tx_name", "md_unit", "md_comment", "cc_inverse">> \o [i \in 1..refs |-> "references"],
            <<<<"conversion_type", 1>>, <<"precision", 1>>, <<"flags", 2>>, <<"ref_count", 2>>, <<"val_count", 2>>,
              <<"phy_range", 16>>, <<"values", 8 * values>>>>)

\* The records of a group, or the payloads of a channel, as they are; and the
\* list of one block that the compressed records have (write_payload).
WriteData(length) == Written(HeaderSize + length, <<>>, <<<<"records", length>>>>)
WriteHl == Written(40, <<"dl_first">>, <<<<"flags", 2>>, <<"zip_type", 1>>, <<"reserved", 5>>>>)
WriteDl ==
    Written(56, <<"dl_next", "dl_data">>, <<<<"flags", 1>>, <<"reserved", 3>>, <<"count", 4>>, <<"equal_length", 8>>>>)
WriteDz(length) ==
    Written(48 + length, <<>>, <<<<"original_type", 2>>, <<"zip_type", 1>>, <<"reserved", 1>>, <<"zip_parameter", 4>>,
                                 <<"original_size", 8>>, <<"compressed_size", 8>>, <<"compressed", length>>>>)

-----------------------------------------------------------------------------
(***************************************************************************)
(* Version 3: the blocks have their fields at fixed places, and longer     *)
(* forms of a block add fields at its end. A block is the one looked for   *)
(* (want), its identifier (kind), the length it declares, the bytes given  *)
(* to the parser, and whether what it must say is right (sound): the name  *)
(* of the format, at most two identifiers a record, and a width in bits.   *)
(***************************************************************************)

Parsed3(b, least, fields) ==
    IF b.kind = b.want /\ b.given >= least /\ \A s \in fields : End(s) <= b.given
    THEN [fields |-> fields, read |-> TRUE] ELSE [fields |-> {}, read |-> FALSE]
Unsound3 == [fields |-> {}, read |-> FALSE]

Id3(b) ==
    IF ~b.sound THEN Unsound3
    ELSE Parsed3(b, 64, {Section("identification", 0, 8), Section("version", 8, 8), Section("program", 16, 8),
                         Section("byte_order", 24, 2), Section("float_format", 26, 2), Section("version_number", 28, 2),
                         Section("code_page", 30, 2)})

\* The absolute time needs a length that has it, and its own ten bytes.
Hd3(b) ==
    Parsed3(b, 164,
            {Section("id", 0, 2), Section("length", 2, 2), Section("dg_first", 4, 4), Section("comment", 8, 4),
             Section("program", 12, 4), Section("dg_count", 16, 2), Section("date", 18, 10), Section("time", 28, 8),
             Section("author", 36, 32), Section("department", 68, 32), Section("project", 100, 32),
             Section("subject", 132, 32)}
            \cup IF b.length >= 164 + 44 /\ b.given >= 164 + 10
                 THEN {Section("abs_time", 164, 8), Section("tz_offset", 172, 2)} ELSE {})

Dg3(b) ==
    IF ~b.sound THEN Unsound3
    ELSE Parsed3(b, 24, {Section("id", 0, 2), Section("dg_next", 4, 4), Section("cg_first", 8, 4), Section("trigger", 12, 4),
                         Section("data", 16, 4), Section("cg_count", 20, 2), Section("record_id_count", 22, 2)})

Cg3(b) ==
    Parsed3(b, 26, {Section("id", 0, 2), Section("cg_next", 4, 4), Section("cn_first", 8, 4), Section("comment", 12, 4),
                    Section("record_id", 16, 2), Section("channel_count", 18, 2), Section("record_size", 20, 2),
                    Section("cycle_count", 22, 4)})

\* A longer form than the bytes given is refused.
Cn3(b) ==
    IF ~b.sound THEN Unsound3
    ELSE Parsed3(b, 218,
                 {Section("id", 0, 2), Section("length", 2, 2), Section("cn_next", 4, 4), Section("conversion", 8, 4),
                  Section("source", 12, 4), Section("dependency", 16, 4), Section("comment", 20, 4),
                  Section("channel_type", 24, 2), Section("short_name", 26, 32), Section("description", 58, 128),
                  Section("start_offset", 186, 2), Section("bit_count", 188, 2), Section("data_type", 190, 2),
                  Section("range_valid", 192, 2), Section("min_raw", 194, 8), Section("max_raw", 202, 8),
                  Section("sampling_rate", 210, 8)}
                 \cup (IF b.length >= 222 THEN {Section("long_name", 218, 4)} ELSE {})
                 \cup (IF b.length >= 228 THEN {Section("display_name", 222, 4), Section("additional_byte_offset", 226, 2)}
                       ELSE {}))

Tx3(b) ==
    IF b.length < 4 THEN Unsound3
    ELSE Parsed3(b, 4, {Section("id", 0, 2), Section("length", 2, 2)}
                       \cup {s \in {Section("text", 4, Min({b.length, b.given}) - 4)} : s.width > 0})

Parse3(b) ==
    CASE b.want = "ID" -> Id3(b) [] b.want = "HD" -> Hd3(b) [] b.want = "DG" -> Dg3(b) [] b.want = "CG" -> Cg3(b)
      [] b.want = "CN" -> Cn3(b) [] b.want = "TX" -> Tx3(b)

=============================================================================
