------------------------------- MODULE PtpPack -------------------------------
(***************************************************************************)
(* The data sets of PTP: ptp-pack.c takes them apart and puts them         *)
(* together at offsets it counts itself, and chdkptp.c turns them into Lua *)
(* tables and back.  A data set on the wire is a sequence of bytes, little *)
(* endian (params->byteorder is always PTP_DL_LE); offsets count from 0.   *)
(* Strings are sequences of character codes.  The standard layout, one     *)
(* field after the other, is the reference.                                *)
(***************************************************************************)
EXTENDS Integers, Sequences, SequencesExt, FiniteSetsExt

CONSTANTS
    PackStrings,  \* strings in data sets, ASCII
    PackArrays,   \* arrays of codes in data sets
    PackDates,    \* dates in data sets, <<year, month, day, hour, minute, second>>
    PackSummer    \* those at which the local time is daylight saving time

ASSUME PackAssumption ==
    /\ \A s \in PackStrings : Len(s) < 255 /\ \A i \in DOMAIN s : s[i] \in 1..127
    /\ \A a \in PackArrays : \A i \in DOMAIN a : a[i] \in 0..65535
    /\ \A t \in PackDates : Len(t) = 6 /\ t[1] \in 1000..9999 /\ \A i \in 2..6 : t[i] \in 0..99
    /\ PackSummer \subseteq PackDates

VARIABLE pack    \* the call made, the data set that was sent and what was made of it

-----------------------------------------------------------------------------
\* Numbers of 8, 16 and 32 bits.
Num(d, o, w) == d[o + 1] + (IF w > 1 THEN 256 * d[o + 2] ELSE 0)
                + (IF w > 2 THEN 65536 * d[o + 3] + 16777216 * d[o + 4] ELSE 0)
\* The same, as a signed number: the highest byte carries the sign.
Signed(d, o, w) == LET top == d[o + w] IN
    Num([d EXCEPT ![o + w] = 0], o, w)
    + (IF top > 127 THEN top - 256 ELSE top) * (CASE w = 1 -> 1 [] w = 2 -> 256 [] w = 4 -> 16777216)
Bytes(v, w) == [i \in 1..w |-> (v \div (CASE i = 1 -> 1 [] i = 2 -> 256 [] i = 3 -> 65536
                                        [] i = 4 -> 16777216)) % 256]

-----------------------------------------------------------------------------
\* The standard layout of a value of a type, and of a data set: its fields
\* <<name, type>> in order.  A string counts its characters, a terminating
\* zero included, and is just a zero if it is empty.
Text(v) == IF v = <<>> THEN <<0>>
           ELSE Bytes(Len(v) + 1, 1) \o FlattenSeq([i \in 1..Len(v) |-> Bytes(v[i], 2)]) \o <<0, 0>>

\* YYYYMMDDThhmmss; no date is an empty string.
Digits(n) == <<48 + (n \div 10), 48 + (n % 10)>>
DateString(t) == IF t = <<>> THEN <<>>
                 ELSE Digits(t[1] \div 100) \o Digits(t[1] % 100) \o Digits(t[2]) \o Digits(t[3])
                      \o <<84>> \o Digits(t[4]) \o Digits(t[5]) \o Digits(t[6])

Encode(type, v) ==
    CASE type = "u8"  -> Bytes(v, 1)
      [] type = "u16" -> Bytes(v, 2)
      [] type = "u32" -> Bytes(v, 4)
      [] type = "u64" -> Bytes(v, 4) \o Bytes(0, 4)
      [] type = "str" -> Text(v)
      [] type = "date" -> Text(DateString(v))
      [] type = "a16" -> Bytes(Len(v), 4) \o FlattenSeq([i \in 1..Len(v) |-> Bytes(v[i], 2)])
      [] type = "a32" -> Bytes(Len(v), 4) \o FlattenSeq([i \in 1..Len(v) |-> Bytes(v[i], 4)])

DataSet(fields, ds) == FlattenSeq([i \in 1..Len(fields) |-> Encode(fields[i][2], ds[fields[i][1]])])

DeviceInfo == <<
    <<"StandardVersion", "u16">>, <<"VendorExtensionID", "u32">>, <<"VendorExtensionVersion", "u16">>,
    <<"VendorExtensionDesc", "str">>, <<"FunctionalMode", "u16">>, <<"OperationsSupported", "a16">>,
    <<"EventsSupported", "a16">>, <<"DevicePropertiesSupported", "a16">>, <<"CaptureFormats", "a16">>,
    <<"ImageFormats", "a16">>, <<"Manufacturer", "str">>, <<"Model", "str">>,
    <<"DeviceVersion", "str">>, <<"SerialNumber", "str">> >>

StorageInfo == <<
    <<"StorageType", "u16">>, <<"FilesystemType", "u16">>, <<"AccessCapability", "u16">>,
    <<"MaxCapacity", "u64">>, <<"FreeSpaceInBytes", "u64">>, <<"FreeSpaceInImages", "u32">>,
    <<"StorageDescription", "str">>, <<"VolumeLabel", "str">> >>

ObjectInfo == <<
    <<"StorageID", "u32">>, <<"ObjectFormat", "u16">>, <<"ProtectionStatus", "u16">>,
    <<"ObjectCompressedSize", "u32">>, <<"ThumbFormat", "u16">>, <<"ThumbCompressedSize", "u32">>,
    <<"ThumbPixWidth", "u32">>, <<"ThumbPixHeight", "u32">>, <<"ImagePixWidth", "u32">>,
    <<"ImagePixHeight", "u32">>, <<"ImageBitDepth", "u32">>, <<"ParentObject", "u32">>,
    <<"AssociationType", "u16">>, <<"AssociationDesc", "u32">>, <<"SequenceNumber", "u32">>,
    <<"Filename", "str">>, <<"CaptureDate", "date">>, <<"ModificationDate", "date">>, <<"Keywords", "str">> >>

-----------------------------------------------------------------------------
\* The functions for strings and arrays take their offset as a uint16_t.
uint16_t(o) == o % 65536

\* ptp_unpack_string: the length byte, and the low bytes of the characters up to
\* the terminating zero; no string at all if the length is 0.
Null == <<-1>>
ptp_unpack_string(d, offset) ==
    LET o == uint16_t(offset)
        len == d[o + 1]
        chars == [i \in 1..len |-> IF i = len THEN 0 ELSE Num(d, o + 2 * i - 1, 2) % 256]
    IN  [len |-> len,
         s   |-> IF len = 0 THEN Null
                 ELSE SubSeq(chars, 1, Min({i \in 1..len : chars[i] = 0}) - 1)]

\* ptp_pack_string: the count includes a terminating zero the caller has cleared;
\* a char beyond ASCII is negative and fills the high byte.
ptp_pack_string_NoTerminator(s) ==  \* faulty variant: the terminator is not counted
    LET len == Len(s) % 256
    IN  Bytes(len, 1) \o FlattenSeq([i \in 1..len |-> <<s[i], IF s[i] > 127 THEN 255 ELSE 0>>])

ptp_pack_string(s) ==
    LET len == Len(s) % 256
    IN  Bytes((len + 1) % 256, 1)
        \o FlattenSeq([i \in 1..len |-> <<s[i], IF s[i] > 127 THEN 255 ELSE 0>>])

ptp_unpack_uint16_t_array(d, offset) ==
    LET o == uint16_t(offset) IN [i \in 1..Num(d, o, 4) |-> Num(d, o + 2 * (i + 1), 2)]
ptp_unpack_uint32_t_array(d, offset) ==
    LET o == uint16_t(offset) IN [i \in 1..Num(d, o, 4) |-> Num(d, o + 4 * i, 4)]

\* Fields at fixed offsets: <<offset, width>>.
Fixed(d, table) == [f \in DOMAIN table |-> Num(d, table[f][1], table[f][2])]

-----------------------------------------------------------------------------
\* ptp_unpack_DI: totallen counts what the strings and arrays before a field
\* take.  The five arrays follow each other, then the four strings.
PTP_di == [StandardVersion |-> <<0, 2>>, VendorExtensionID |-> <<2, 4>>,
           VendorExtensionVersion |-> <<6, 2>>]
di_arrays  == <<"OperationsSupported", "EventsSupported", "DevicePropertiesSupported",
                "CaptureFormats", "ImageFormats">>
di_strings == <<"Manufacturer", "Model", "DeviceVersion", "SerialNumber">>

ptp_unpack_DI(d) ==
    LET desc == ptp_unpack_string(d, 8)
        arr[i \in 1..6] ==          \* totallen before the i-th array
            IF i = 1 THEN desc.len * 2 + 1
            ELSE LET before == arr[i - 1] IN before + Num(d, uint16_t(10 + before), 4) * 2 + 4
        str[i \in 1..4] ==          \* totallen before the i-th string
            IF i = 1 THEN arr[6]
            ELSE LET before == str[i - 1] IN before + ptp_unpack_string(d, 10 + before).len * 2 + 1
        Field(f) ==
            CASE f = "VendorExtensionDesc" -> desc.s
              [] f = "FunctionalMode"      -> Num(d, 8 + arr[1], 2)
              [] f \in Range(di_arrays)    ->
                   ptp_unpack_uint16_t_array(d, 10 + arr[CHOOSE i \in 1..5 : di_arrays[i] = f])
              [] f \in Range(di_strings)   ->
                   ptp_unpack_string(d, 10 + str[CHOOSE i \in 1..4 : di_strings[i] = f]).s
              [] OTHER                     -> Num(d, PTP_di[f][1], PTP_di[f][2])
    IN  [f \in {DeviceInfo[i][1] : i \in DOMAIN DeviceInfo} |-> Field(f)]

\* ptp_unpack_SI: the 64 bit fields are skipped.
PTP_si == [StorageType |-> <<0, 2>>, FilesystemType |-> <<2, 2>>, AccessCapability |-> <<4, 2>>,
           FreeSpaceInImages |-> <<22, 4>>]
ptp_unpack_SI(d) ==
    LET desc == ptp_unpack_string(d, 26)
    IN  Fixed(d, PTP_si) @@ [StorageDescription |-> desc.s,
                             VolumeLabel |-> ptp_unpack_string(d, 26 + desc.len * 2 + 1).s]

-----------------------------------------------------------------------------
PTP_oi == [StorageID |-> <<0, 4>>, ObjectFormat |-> <<4, 2>>, ProtectionStatus |-> <<6, 2>>,
           ObjectCompressedSize |-> <<8, 4>>, ThumbFormat |-> <<12, 2>>,
           ThumbCompressedSize |-> <<14, 4>>, ThumbPixWidth |-> <<18, 4>>,
           ThumbPixHeight |-> <<22, 4>>, ImagePixWidth |-> <<26, 4>>, ImagePixHeight |-> <<30, 4>>,
           ImageBitDepth |-> <<34, 4>>, ParentObject |-> <<38, 4>>, AssociationType |-> <<42, 2>>,
           AssociationDesc |-> <<44, 4>>, SequenceNumber |-> <<48, 4>>]
PTP_oi_filenamelen == 52

\* Faulty variant: the date of modification is taken from one byte too early.
DateOffsets_Early(name, captured) ==
    <<PTP_oi_filenamelen + name * 2 + 1, PTP_oi_filenamelen + name * 2 + captured * 2 + 1>>

\* Where the dates start, after strings of name and captured characters.
DateOffsets(name, captured) ==
    <<PTP_oi_filenamelen + name * 2 + 1, PTP_oi_filenamelen + name * 2 + captured * 2 + 2>>

\* mktime: the moment that a date of the local time is.  It reads the date as
\* daylight saving time if tm_isdst says so, and corrects tm_isdst.
mktime(t, tm_isdst) == [moment |-> <<t, tm_isdst>>, tm_isdst |-> t \in PackSummer]

\* A date of at least 15 characters: year, month, day, hour, minute, second.  A
\* shorter one leaves the field of the struct as it was, which is junk, and tm too.
Date(u, tm_isdst, junk) ==
    LET Digit(i) == u.s[i] - 48
        Two(i)   == 10 * Digit(i) + Digit(i + 1)
    IN  IF u.len > 15 THEN mktime(<<100 * Two(1) + Two(3), Two(5), Two(7), Two(10), Two(12), Two(14)>>, tm_isdst)
                      ELSE [moment |-> junk, tm_isdst |-> tm_isdst]

\* Both dates go through one struct tm, cleared before the first.
ptp_unpack_OI(d, junk) ==
    LET name == ptp_unpack_string(d, PTP_oi_filenamelen)
        capt == ptp_unpack_string(d, DateOffsets(name.len, 0)[1])
        modi == ptp_unpack_string(d, DateOffsets(name.len, capt.len)[2])
        captured == Date(capt, FALSE, junk)
        modified == Date(modi, captured.tm_isdst, junk)
    IN  Fixed(d, PTP_oi) @@ [Filename |-> name.s, CaptureDate |-> captured.moment,
                             ModificationDate |-> modified.moment]

\* ptp_pack_OI: a cleared buffer, the fields at their offsets, the name, and
\* room for the terminating zero and two empty dates.
ptp_pack_OI(oi) ==
    LET name == ptp_pack_string(oi.Filename)
        size == 53 + ((Len(oi.Filename) % 256) + 1) * 2 + 4
        Covers(f, i) == i \in PTP_oi[f][1] .. PTP_oi[f][1] + PTP_oi[f][2] - 1
        Byte(i) == IF \E f \in DOMAIN PTP_oi : Covers(f, i)
                   THEN LET f == CHOOSE f \in DOMAIN PTP_oi : Covers(f, i)
                        IN  Bytes(oi[f], PTP_oi[f][2])[i - PTP_oi[f][1] + 1]
                   ELSE IF i - PTP_oi_filenamelen \in 0 .. Len(name) - 1
                   THEN name[i - PTP_oi_filenamelen + 1]
                   ELSE 0
    IN  [i \in 1..size |-> Byte(i - 1)]

-----------------------------------------------------------------------------
\* Property values: code of a data type, width in bytes, whether it is signed.
\* Other types are not taken apart.
PTP_DTC == [INT8 |-> <<1, 1, TRUE>>, UINT8 |-> <<2, 1, FALSE>>, INT16 |-> <<3, 2, TRUE>>,
            UINT16 |-> <<4, 2, FALSE>>, INT32 |-> <<5, 4, TRUE>>, UINT32 |-> <<6, 4, FALSE>>]
PTP_DTC_STR == 65535

\* The value of a type at an offset, and the offset after it (CTVA).
CTVA(d, o, type) ==
    IF type = "STR" THEN LET u == ptp_unpack_string(d, o) IN <<u.s, o + u.len * 2 + 1>>
    ELSE <<IF PTP_DTC[type][3] THEN Signed(d, o, PTP_DTC[type][2]) ELSE Num(d, o, PTP_DTC[type][2]),
           o + PTP_DTC[type][2]>>

\* The values of n fields of a type that follow each other (MCTVA).
MCTVA(d, o, type, n) ==
    LET at[i \in 1..n] == IF i = 1 THEN o ELSE CTVA(d, at[i - 1], type)[2]
    IN  [i \in 1..n |-> CTVA(d, at[i], type)[1]]

TypeOf(code) == IF code = PTP_DTC_STR THEN "STR"
                ELSE IF \E t \in DOMAIN PTP_DTC : PTP_DTC[t][1] = code
                THEN CHOOSE t \in DOMAIN PTP_DTC : PTP_DTC[t][1] = code
                ELSE "other"

\* ptp_unpack_DPD: default and current value, then the form: none, a range or
\* an enumeration.
ptp_unpack_DPD(d) ==
    LET type  == TypeOf(Num(d, 2, 2))
        def   == CTVA(d, 5, type)
        cur   == CTVA(d, def[2], type)
        flag  == Num(d, cur[2], 1)
    IN  [DevicePropertyCode |-> Num(d, 0, 2), DataType |-> Num(d, 2, 2), GetSet |-> Num(d, 4, 1)]
        @@ IF type = "other"
           THEN [FactoryDefaultValue |-> Null, CurrentValue |-> Null, FormFlag |-> 0, Form |-> <<>>]
           ELSE [FactoryDefaultValue |-> def[1], CurrentValue |-> cur[1], FormFlag |-> flag,
                 Form |-> CASE flag = 1 /\ type # "STR" -> MCTVA(d, cur[2] + 1, type, 3)
                            [] flag = 2 -> MCTVA(d, cur[2] + 3, type, Num(d, cur[2] + 1, 2))
                            [] OTHER    -> <<>>]

\* ptp_pack_DPV and ptp_unpack_DPV: a property value alone.
ptp_pack_DPV(v, type) ==
    IF type = "STR" THEN ptp_pack_string(v) \o <<0, 0>> ELSE Bytes(v, PTP_DTC[type][2])
ptp_unpack_DPV(d, type) == CTVA(d, 0, type)[1]

-----------------------------------------------------------------------------
\* What cameras send: every number of a data set has a value of its own that
\* fills its bytes, so that a field read from the wrong place shows.
NumberOf(type, i) ==
    CASE type = "u8" -> 130 + i [] type = "u16" -> 256 * (20 + i) + i
      [] type \in {"u32", "u64"} -> 16777216 * i + 65536 * (40 + i) + 256 * (80 + i) + 200

Fields(ds) == {ds[i][1] : i \in DOMAIN ds}
DataSets(ds) ==
    LET Of(type) == {ds[i][1] : i \in {j \in DOMAIN ds : ds[j][2] = type}}
        Place(f) == CHOOSE i \in DOMAIN ds : ds[i][1] = f
        nums == [f \in Fields(ds) \ (Of("str") \cup Of("a16") \cup Of("date") \cup Of("a32")) |->
                   NumberOf(ds[Place(f)][2], Place(f))]
    IN  {nums @@ s @@ a @@ t : s \in [Of("str") -> PackStrings], a \in [Of("a16") \cup Of("a32") -> PackArrays],
                               t \in [Of("date") -> PackDates \cup {<<>>}]}

\* Values of properties, and their descriptions.
PropValues == [INT8 |-> {-128, 5}, UINT8 |-> {200}, INT16 |-> {-300, 299}, UINT16 |-> {65000},
               INT32 |-> {-2147483647, 70000}, UINT32 |-> {2000000000}, STR |-> PackStrings]
EncodeProp(type, v) == IF type = "STR" THEN Text(v) ELSE Bytes(v, PTP_DTC[type][2])
CodeOf(type) == IF type = "STR" THEN PTP_DTC_STR ELSE PTP_DTC[type][1]

PropDescs(type) ==
    LET vs == PropValues[type]
        Desc(def, cur, flag, form) ==
            [DevicePropertyCode |-> 20481, DataType |-> CodeOf(type), GetSet |-> 1,
             FactoryDefaultValue |-> def, CurrentValue |-> cur, FormFlag |-> flag, Form |-> form]
    IN  {Desc(def, cur, 0, <<>>) : def \in vs, cur \in vs}
        \cup (IF type = "STR" THEN {} ELSE {Desc(def, def, 1, form) : def \in vs, form \in [1..3 -> vs]})
        \cup {Desc(def, cur, 2, form) : def \in vs, cur \in vs, form \in SeqOf(vs, 2)}

LayoutDesc(p) ==
    LET type == TypeOf(p.DataType)
        Value(v) == EncodeProp(type, v)
    IN  Bytes(p.DevicePropertyCode, 2) \o Bytes(p.DataType, 2) \o Bytes(p.GetSet, 1)
        \o Value(p.FactoryDefaultValue) \o Value(p.CurrentValue) \o Bytes(p.FormFlag, 1)
        \o (IF p.FormFlag = 2 THEN Bytes(Len(p.Form), 2) ELSE <<>>)
        \o FlattenSeq([i \in 1..Len(p.Form) |-> Value(p.Form[i])])

-----------------------------------------------------------------------------
\* The calls.  No call leaves anything behind for the next one, so one is enough.
NoCall == [call |-> "none", sent |-> <<>>, got |-> <<>>]
PackInit == pack = NoCall

Called(call, sent, got) == pack.call = "none" /\ pack' = [call |-> call, sent |-> sent, got |-> got]

\* chdk_get_ptp_devinfo: some keys are not the names of the standard.
di_key(f) == CASE f = "Model" -> "model" [] f = "Manufacturer" -> "manufacturer"
               [] f = "DeviceVersion" -> "device_version" [] f = "SerialNumber" -> "serial_number"
               [] OTHER -> f
chdk_get_ptp_devinfo ==
    \E ds \in DataSets(DeviceInfo) :
      LET di == ptp_unpack_DI(DataSet(DeviceInfo, ds))
      IN  Called("get_ptp_devinfo", ds,
                 [k \in {di_key(f) : f \in DOMAIN di} |-> di[CHOOSE f \in DOMAIN di : di_key(f) = k]])

\* chdk_ptp_get_storage_ids and chdk_ptp_get_object_handles.
chdk_ptp_get_storage_ids ==
    \E ids \in PackArrays :
      Called("ptp_get_storage_ids", ids, ptp_unpack_uint32_t_array(Encode("a32", ids), 0))
chdk_ptp_get_object_handles ==
    \E ids \in PackArrays :
      Called("ptp_get_object_handles", ids, ptp_unpack_uint32_t_array(Encode("a32", ids), 0))

\* An absent string becomes the text (null).
NullText == <<40, 110, 117, 108, 108, 41>>
OrNull(s) == IF s = Null THEN NullText ELSE s

chdk_ptp_get_storage_info ==
    \E ds \in DataSets(StorageInfo) :
      LET si == ptp_unpack_SI(DataSet(StorageInfo, ds))
      IN  Called("ptp_get_storage_info", ds,
                 [MaxCapability |-> 0, FreeSpaceInBytes |-> 0,
                  StorageDescription |-> OrNull(si.StorageDescription),
                  VolumeLabel |-> OrNull(si.VolumeLabel)] @@ si)

\* The dates are junk of the stack where the camera sends none.
chdk_ptp_get_object_info ==
    \E ds \in DataSets(ObjectInfo), junk \in (PackDates \X BOOLEAN) \cup {<<>>} :
      LET oi == ptp_unpack_OI(DataSet(ObjectInfo, ds), junk)
      IN  Called("ptp_get_object_info", ds, [oi EXCEPT !.Filename = OrNull(oi.Filename)])

\* chdk_ptp_send_object_info: three fields of the table are required, the others
\* are 0 if it has none.
oi_required == {"ObjectFormat", "ObjectCompressedSize", "Filename"}
chdk_ptp_send_object_info ==
    \E info \in DataSets(ObjectInfo), given \in {oi_required, Fields(ObjectInfo)} :
      LET oi == [f \in DOMAIN PTP_oi |-> IF f \in given THEN info[f] ELSE 0]
                @@ [Filename |-> info.Filename]
      IN  Called("ptp_send_object_info", oi, ptp_pack_OI(oi))

\* Properties of the device: ptp.c offers them, no method calls them.
ptp_getdevicepropdesc ==
    \E type \in DOMAIN PropValues : \E p \in PropDescs(type) :
      Called("getdevicepropdesc", p, ptp_unpack_DPD(LayoutDesc(p)))
ptp_getdevicepropvalue ==
    \E type \in DOMAIN PropValues : \E v \in PropValues[type] :
      Called("getdevicepropvalue", [type |-> type, value |-> v], ptp_unpack_DPV(EncodeProp(type, v), type))
ptp_setdevicepropvalue ==
    \E type \in DOMAIN PropValues : \E v \in PropValues[type] :
      Called("setdevicepropvalue", [type |-> type, value |-> v], ptp_pack_DPV(v, type))

PackNext == \/ chdk_get_ptp_devinfo \/ chdk_ptp_get_storage_ids \/ chdk_ptp_get_storage_info
            \/ chdk_ptp_get_object_handles \/ chdk_ptp_get_object_info \/ chdk_ptp_send_object_info
            \/ ptp_getdevicepropdesc \/ ptp_getdevicepropvalue \/ ptp_setdevicepropvalue
PackSpec == PackInit /\ [][PackNext]_pack

-----------------------------------------------------------------------------
Received(v) == IF v = <<>> THEN Null ELSE v
Kept(type, v) == IF type = "STR" THEN Received(v) ELSE v

\* The capture date is read as standard time, the modification date as the kind
\* of time there was at the capture date.
DatesOf(sent, got) ==
    LET capt == sent.CaptureDate modi == sent.ModificationDate IN
    /\ capt # <<>> => got.CaptureDate = <<capt, FALSE>>
    /\ modi # <<>> => got.ModificationDate = <<modi, capt \in PackSummer>>

\* All offsets in the data set are 16 bit numbers.
Short(layout) == Len(layout) <= 65536

UnpackedIsSent ==
    LET got == pack.got sent == pack.sent IN
    CASE pack.call = "get_ptp_devinfo" ->
           Short(DataSet(DeviceInfo, sent)) => \A i \in DOMAIN DeviceInfo :
             LET f == DeviceInfo[i][1] IN
             got[di_key(f)] = IF DeviceInfo[i][2] = "str" THEN Received(sent[f]) ELSE sent[f]
      [] pack.call \in {"ptp_get_storage_ids", "ptp_get_object_handles"} -> got = sent
      [] pack.call = "ptp_get_storage_info" ->
           /\ \A f \in DOMAIN PTP_si : got[f] = sent[f]
           /\ \A f \in {"StorageDescription", "VolumeLabel"} : got[f] = OrNull(Received(sent[f]))
      [] pack.call = "ptp_get_object_info" ->
           /\ \A f \in DOMAIN PTP_oi : got[f] = sent[f]
           /\ got.Filename = OrNull(Received(sent.Filename))
           /\ DatesOf(sent, got)
      [] pack.call = "getdevicepropdesc" ->
           LET S(v) == Kept(TypeOf(sent.DataType), v)
           IN  Short(LayoutDesc(sent)) => got = [sent EXCEPT !.FactoryDefaultValue = S(@), !.CurrentValue = S(@),
                                  !.Form = [i \in DOMAIN @ |-> S(@[i])]]
      [] pack.call = "getdevicepropvalue" -> got = Kept(sent.type, sent.value)
      [] OTHER -> TRUE

PackedIsStandard ==
    LET got == pack.got sent == pack.sent IN
    CASE pack.call = "ptp_send_object_info" ->
           LET std == DataSet(ObjectInfo, [CaptureDate |-> <<>>, ModificationDate |-> <<>>, Keywords |-> <<>>] @@ sent)
               back == ptp_unpack_OI(got, <<>>)
           IN  /\ sent.Filename # <<>> => IsPrefix(std, got)
               /\ \A f \in DOMAIN sent : back[f] = sent[f]
               /\ back.CaptureDate = <<>> /\ back.ModificationDate = <<>>
      [] pack.call = "setdevicepropvalue" ->
           \/ sent.type = "STR" /\ sent.value = <<>>
           \/ got = EncodeProp(sent.type, sent.value)
      [] OTHER -> TRUE

\* What the program makes of a data set of at most 64K bytes is what the camera
\* put into it, wherever the strings and arrays before a field move it to:
\* ptp-pack.c counts every one of them into the offset of the fields that follow
\* (89-685).  Three things it does not make of it: MaxCapability and
\* FreeSpaceInBytes of a storage are always 0 (chdkptp.c 2017-2020), and a date is
\* the moment at which a clock shows it that is set to standard time or, for a
\* modification date, to the kind of time that was in force at the capture date
\* (ptp-pack.c 396, 424).  What the program sends is laid out as the standard
\* says, up to padding at the end; only an empty string is sent as a terminator
\* alone, which reads as empty.
DataSetsSound == UnpackedIsSent /\ PackedIsStandard
=============================================================================
