--------------------------- MODULE MCDataFormats ---------------------------
\* Instances of DataFormats: small images in every pixel format, frames of the
\* sizes LiveImg lists, a buffer of a few bytes, and data sets with strings and
\* arrays that are empty or not.
EXTENDS DataFormats
\* All formats but 14 bit big endian, whose writes lose pixels.
MCFormats == DOMAIN raw_formats \ {"f14b"}
MCFills == {[i \in 0..(RawHeight * 16 + 1) |-> 0],
            [i \in 0..(RawHeight * 16 + 1) |-> (i * 37 + 11) % 256]}
\* No bit and every bit.
MCValues == {0, 65535}
MCStrings == {<<>>, <<80, 105, 120>>}
MCArrays == {<<>>, <<4097, 258>>}
MCSummer == {<<2023, 10, 7, 6, 5, 4>>}
MCDates == {<<2024, 2, 29, 23, 59, 58>>} \cup MCSummer
=============================================================================
