------------------------------- MODULE RawImg -------------------------------
(***************************************************************************)
(* Raw sensor images (rawimg.c): the nine pixel formats and the operations *)
(* of a rawimg bound to an lbuf.  The concrete state is the image record   *)
(* with its bytes; rawPix is the image a script believes it has, a value   *)
(* for every pixel, and the pixel formats have to carry it.                *)
(*                                                                         *)
(* A part of a pixel is <<byte, mask, shift>>, shift positive to the left. *)
(* A read adds up one to three parts, each a masked byte shifted into the  *)
(* value; a write has one part for each byte, whose mask says which bits   *)
(* are kept, and the value is shifted into the others.  Parts of one pixel *)
(* do not overlap, so | is +.                                              *)
(***************************************************************************)
EXTENDS Integers, Sequences, FiniteSets, Functions

CONSTANTS RawFormats,   \* the formats images are made in
          RawHeight,    \* rows of an image, of eight pixels each
          RawFills,     \* contents of the buffers images are bound to
          RawValues,    \* values set, cut to the depth of the format
          RawOps        \* calls made on an image

Mask(b, m) == IF m < 128 THEN b % (m + 1) ELSE b - (b % (256 - m))
Pow2 == <<2, 4, 8, 16, 32, 64, 128, 256, 512, 1024, 2048, 4096, 8192, 16384, 32768, 65536>>
Shift(v, s) == IF s > 0 THEN v * Pow2[s] ELSE IF s < 0 THEN v \div Pow2[-s] ELSE v

\* The sum of up to four numbers.
Term(s, i) == IF i \in DOMAIN s THEN s[i] ELSE 0
Total(s) == Term(s, 1) + Term(s, 2) + Term(s, 3) + Term(s, 4)

FMT_DEF(bits, bytes, get, set) ==
    [bpp |-> bits, block_bytes |-> bytes, block_pixels |-> (bytes * 8) \div bits,
     get |-> get, set |-> set]

Pixel8  == FMT_DEF(8, 1, << << <<0, 255, 0>> >> >>, << {<<0, 0, 0>>} >>)

Pixel10l == FMT_DEF(10, 10,
  << << <<1,255,2>>, <<0,255,-6>> >>, << <<0,63,4>>, <<3,255,-4>> >>, << <<3,15,6>>, <<2,255,-2>> >>,
     << <<2,3,8>>, <<5,255,0>> >>,    << <<4,255,2>>, <<7,255,-6>> >>, << <<7,63,4>>, <<6,255,-4>> >>,
     << <<6,15,6>>, <<9,255,-2>> >>,  << <<9,3,8>>, <<8,255,0>> >> >>,
  << {<<0,63,6>>, <<1,0,-2>>},    {<<0,192,-4>>, <<3,15,4>>},  {<<2,3,2>>, <<3,240,-6>>},
     {<<2,252,-8>>, <<5,0,0>>},   {<<4,0,-2>>, <<7,63,6>>},    {<<6,15,4>>, <<7,192,-4>>},
     {<<6,240,-6>>, <<9,3,2>>},   {<<8,0,0>>, <<9,252,-8>>} >>)

Pixel10b == FMT_DEF(10, 5,
  << << <<0,255,2>>, <<1,255,-6>> >>, << <<1,63,4>>, <<2,255,-4>> >>,
     << <<2,15,6>>, <<3,255,-2>> >>,  << <<3,3,8>>, <<4,255,0>> >> >>,
  << {<<0,0,-2>>, <<1,63,6>>},    {<<1,192,-4>>, <<2,15,4>>},
     {<<3,3,2>>, <<2,240,-6>>},   {<<3,252,-8>>, <<4,0,0>>} >>)

Pixel12l == FMT_DEF(12, 6,
  << << <<1,255,4>>, <<0,255,-4>> >>, << <<0,15,8>>, <<3,255,0>> >>,
     << <<2,255,4>>, <<5,255,-4>> >>, << <<5,15,8>>, <<4,255,0>> >> >>,
  << {<<0,15,4>>, <<1,0,-4>>},    {<<0,240,-8>>, <<3,0,0>>},
     {<<2,0,-4>>, <<5,15,4>>},    {<<4,0,0>>, <<5,240,-8>>} >>)

Pixel12b == FMT_DEF(12, 3,
  << << <<0,255,4>>, <<1,255,-4>> >>, << <<1,15,8>>, <<2,255,0>> >> >>,
  << {<<0,0,-4>>, <<1,15,4>>},    {<<1,240,-8>>, <<2,0,0>>} >>)

Pixel14l == FMT_DEF(14, 14,
  << << <<1,255,6>>, <<0,255,-2>> >>,               << <<0,3,12>>, <<3,255,4>>, <<2,255,-4>> >>,
     << <<2,15,10>>, <<5,255,2>>, <<4,255,-6>> >>,  << <<4,63,8>>, <<7,255,0>> >>,
     << <<6,255,6>>, <<9,255,-2>> >>,               << <<9,3,12>>, <<8,255,4>>, <<11,255,-4>> >>,
     << <<11,15,10>>, <<10,255,2>>, <<13,255,-6>> >>, << <<13,63,8>>, <<12,255,0>> >> >>,
  << {<<0,3,2>>, <<1,0,-6>>},                   {<<0,252,-12>>, <<2,15,4>>, <<3,0,-4>>},
     {<<2,240,-10>>, <<4,63,6>>, <<5,0,-2>>},   {<<4,192,-8>>, <<7,0,0>>},
     {<<6,0,-6>>, <<9,3,2>>},                   {<<8,0,-4>>, <<9,252,-12>>, <<11,15,4>>},
     {<<10,0,-2>>, <<11,240,-10>>, <<13,63,6>>}, {<<12,0,0>>, <<13,192,-8>>} >>)

\* The write switches on x%8 and has the cases 0 to 3 only; the read on x%4.
Pixel14b == FMT_DEF(14, 7,
  << << <<0,255,6>>, <<1,255,-2>> >>,              << <<1,3,12>>, <<2,255,4>>, <<3,255,-4>> >>,
     << <<3,15,10>>, <<4,255,2>>, <<5,255,-6>> >>, << <<5,63,8>>, <<6,255,0>> >> >>,
  << {<<1,3,2>>, <<0,0,-6>>},                  {<<1,252,-12>>, <<3,15,4>>, <<2,0,-4>>},
     {<<3,240,-10>>, <<5,63,6>>, <<4,0,-2>>},  {<<5,192,-8>>, <<6,0,0>>},
     {}, {}, {}, {} >>)

Pixel16l == FMT_DEF(16, 2, << << <<1,255,8>>, <<0,255,0>> >> >>, << {<<0,0,0>>, <<1,0,-8>>} >>)
Pixel16b == FMT_DEF(16, 2, << << <<0,255,8>>, <<1,255,0>> >> >>, << {<<0,0,-8>>, <<1,0,0>>} >>)

\* The formats by the name of their functions' suffix.
raw_formats == [f8l |-> Pixel8, f10l |-> Pixel10l, f10b |-> Pixel10b, f12l |-> Pixel12l,
                f12b |-> Pixel12b, f14l |-> Pixel14l, f14b |-> Pixel14b,
                f16l |-> Pixel16l, f16b |-> Pixel16b]
Little == {"f10l", "f12l", "f14l", "f16l"}

ASSUME RawAssumption ==
    /\ RawFormats \subseteq DOMAIN raw_formats
    /\ RawHeight \in Nat \ {0} /\ RawOps \in Nat /\ RawValues \subseteq Nat
    /\ RawFills \subseteq [0..(RawHeight * 16 + 1) -> 0..255]

(***************************************************************************)
(* Reading and writing a pixel: p is the lbuf's bytes, off where the image *)
(* starts in it.                                                           *)
(***************************************************************************)
Block(f, row_bytes, x, y) ==
    y * row_bytes + (x \div raw_formats[f].block_pixels) * raw_formats[f].block_bytes

raw_get_pixel(f, p, off, row_bytes, x, y) ==
    LET get == raw_formats[f].get
        parts == get[(x % Len(get)) + 1]
        value(t) == Shift(Mask(p[off + Block(f, row_bytes, x, y) + t[1]], t[2]), t[3])
    IN  Total([i \in DOMAIN parts |-> value(parts[i])])

\* Faulty variant: the bits of the neighbours in a shared byte are not kept.
raw_set_pixel_NoMask(f, p, off, row_bytes, x, y, value) ==
    LET set == raw_formats[f].set
        addr(t) == off + Block(f, row_bytes, x, y) + t[1]
        parts == set[(x % Len(set)) + 1]
    IN  [i \in DOMAIN p |->
            IF \E t \in parts : addr(t) = i
            THEN LET t == CHOOSE t \in parts : addr(t) = i IN Shift(value, t[3]) % 256
            ELSE p[i]]

raw_set_pixel(f, p, off, row_bytes, x, y, value) ==
    LET set == raw_formats[f].set
        addr(t) == off + Block(f, row_bytes, x, y) + t[1]
        parts == set[(x % Len(set)) + 1]
    IN  [i \in DOMAIN p |->
            IF \E t \in parts : addr(t) = i
            THEN LET t == CHOOSE t \in parts : addr(t) = i
                 IN  Mask(p[i], t[2]) + (Shift(value, t[3]) % 256)
            ELSE p[i]]

(***************************************************************************)
(* The format itself: the pixels of a row are the bits of its bytes, first *)
(* bit highest; a little endian format swaps the bytes of 16-bit words.  A *)
(* pixel is cut out of the number that the bytes it has a part in make.    *)
(***************************************************************************)
Stored(f, p, off, row_bytes, x, y) ==
    LET bits == raw_formats[f].bpp
        byte(i) == p[off + y * row_bytes + (IF f \in Little THEN i + 1 - 2 * (i % 2) ELSE i)]
        first == (x * bits) \div 8
        last == ((x + 1) * bits - 1) \div 8
        word == Total([k \in 1..(last - first + 1) |-> Shift(byte(first + k - 1), 8 * (last - first + 1 - k))])
    IN  Shift(word, (x + 1) * bits - 8 * (last + 1)) % Pow2[bits]

(***************************************************************************)
(* State: the image, what its pixels should be, and the last call's name   *)
(* with its result.                                                        *)
(***************************************************************************)
VARIABLES raw, rawPix, rawCall, rawLeft
rawVars == <<raw, rawPix, rawCall, rawLeft>>

Width == 8
Coords == (0..(Width - 1)) \X (0..(RawHeight - 1))
NoImage == [fmt |-> "none"]

\* What a script binds: the sizes, the patterns and the active areas that the
\* checks of bind_lbuf tell apart.  The last area has its sides swapped.
Areas == { [top |-> 0, left |-> 0, bottom |-> RawHeight, right |-> Width],
           [top |-> 0, left |-> 2, bottom |-> RawHeight, right |-> Width - 2],
           [top |-> 0, left |-> 4, bottom |-> RawHeight, right |-> 2] }
Specs == { [fmt |-> f, data |-> d, off |-> o, width |-> Width, height |-> RawHeight,
            cfa |-> IF o = 0 THEN <<0, 1, 1, 2>> ELSE <<0, 0, 0, 0>>,
            black |-> o, area |-> a] :
           f \in RawFormats, d \in RawFills, o \in {0, 3}, a \in Areas }

Dim(img) == img.row_bytes * img.height
Row_bytes(f, width) == (width * raw_formats[f].bpp) \div 8

bind_lbuf(s) ==
    IF \/ s.area.top >= s.area.bottom
       \/ s.area.left >= s.area.right
       \/ s.area.left > s.width              \* the message is about the right side
       \/ s.area.bottom > s.height
       \/ s.width % raw_formats[s.fmt].block_pixels # 0
       \/ s.off + Row_bytes(s.fmt, s.width) * s.height > Cardinality(DOMAIN s.data)
    THEN NoImage
    ELSE [fmt |-> s.fmt, data |-> s.data, off |-> s.off, width |-> s.width,
          height |-> s.height, row_bytes |-> Row_bytes(s.fmt, s.width),
          cfa |-> s.cfa, black |-> s.black, area |-> s.area]

get(img, x, y) == raw_get_pixel(img.fmt, img.data, img.off, img.row_bytes, x, y)
set(img, x, y, v) ==
    [img EXCEPT !.data = raw_set_pixel(img.fmt, @, img.off, img.row_bytes, x, y, v)]
Read(img) == [c \in Coords |-> Stored(img.fmt, img.data, img.off, img.row_bytes, c[1], c[2])]

cfa_color(img, x, y) == img.cfa[(x % 2) + 2 * (y % 2) + 1]
RED == 0   GREEN == 1   BLUE == 2

\* x-1 of an unsigned 0 is beyond every width.
get_pixel_safe(img, x, y) ==
    IF x \in 0..(img.width - 1) /\ y \in 0..(img.height - 1) THEN get(img, x, y) ELSE 0

\* Faulty variant: the nearest pixels of a row are taken for pixels of its colour.
rawimg_patch_pixel_Adjacent(img, x, y) ==
    LET near == << <<x-1, y>>, <<x+1, y>> >>
        v(i) == get_pixel_safe(img, near[i][1], near[i][2])
        total == Total([i \in 1..2 |-> IF v(i) > img.black THEN v(i) ELSE 0])
        count == Total([i \in 1..2 |-> IF v(i) > img.black THEN 1 ELSE 0])
    IN  IF count = 0 THEN img ELSE set(img, x, y, total \div count)

rawimg_patch_pixel(img, x, y) ==
    LET near == IF cfa_color(img, x, y) = GREEN
                THEN << <<x-1, y-1>>, <<x+1, y-1>>, <<x-1, y+1>>, <<x+1, y+1>> >>
                ELSE << <<x-2, y>>, <<x+2, y>>, <<x, y-2>>, <<x, y+2>> >>
        v(i) == get_pixel_safe(img, near[i][1], near[i][2])
        total == Total([i \in 1..4 |-> IF v(i) > img.black THEN v(i) ELSE 0])
        count == Total([i \in 1..4 |-> IF v(i) > img.black THEN 1 ELSE 0])
    IN  IF count = 0 THEN img ELSE set(img, x, y, total \div count)

\* The pixels of the active area in the order of the two loops.
patch_pixels(img, badval) ==
    LET w == img.area.right - img.area.left
        X(n) == img.area.left + (n % w)
        Y(n) == img.area.top + (n \div w)
        Step(im, n) == IF get(im, X(n), Y(n)) <= badval
                       THEN rawimg_patch_pixel(im, X(n), Y(n)) ELSE im
        all == w * (img.area.bottom - img.area.top)
        after[n \in 0..all] == IF n = 0 THEN img ELSE Step(after[n - 1], n - 1)
    IN  after[all]

\* The column of the blue sample is bx+gx in the code, not ix+bx.
make_rgb_thumb(img, width, height) ==
    LET at(c) == CHOOSE i \in 0..3 : img.cfa[i + 1] = c /\ \A j \in (i + 1)..3 : img.cfa[j + 1] # c
        dx(c) == IF c \in Range(img.cfa) THEN at(c) % 2 ELSE 0
        dy(c) == IF c \in Range(img.cfa) THEN at(c) \div 2 ELSE 0
        even(n) == n - (n % 2)
        ix(t) == even(img.area.left + (t[1] * (img.area.right - img.area.left)) \div width)
        iy(t) == even(img.area.top + (t[2] * (img.area.bottom - img.area.top)) \div height)
        top8(x, y) == Shift(get(img, x, y), 8 - raw_formats[img.fmt].bpp)
    IN  [t \in (0..(width - 1)) \X (0..(height - 1)) |->
            << top8(ix(t) + dx(RED),   iy(t) + dy(RED)),
               top8(ix(t) + dx(GREEN), iy(t) + dy(GREEN)),
               top8(dx(BLUE) + dx(GREEN), iy(t) + dy(BLUE)) >>]

\* To lower depths values are shifted down when valdownmod says so, to higher
\* ones up when valupmod does.
ConvertShift(from, to, up, down) ==
    LET d == raw_formats[from].bpp - raw_formats[to].bpp
    IN  IF d > 0 THEN (IF down THEN d ELSE 0) ELSE (IF up THEN d ELSE 0)

\* A negative shift of the black level is undefined in C; the processors the
\* program is built for leave 0.
convert(img, to, shift, fresh) ==
    LET blank == [img EXCEPT !.fmt = to, !.off = 0, !.data = fresh,
                             !.row_bytes = Row_bytes(to, img.width),
                             !.black = IF shift < 0 THEN 0 ELSE Shift(@, -shift)]
        Step(im, n) == set(im, n % img.width, n \div img.width,
                           Shift(get(img, n % img.width, n \div img.width), -shift))
        all == img.width * img.height
        after[n \in 0..all] == IF n = 0 THEN blank ELSE Step(after[n - 1], n - 1)
    IN  after[all]

(***************************************************************************)
(* The calls of a script.                                                  *)
(***************************************************************************)
Values(f) == {v % Pow2[raw_formats[f].bpp] : v \in RawValues}

RawInit ==
    /\ raw = NoImage /\ rawPix = [c \in Coords |-> 0]
    /\ rawCall = [op |-> "none"] /\ rawLeft = RawOps

RawBind ==
    /\ raw = NoImage
    /\ \E s \in Specs :
         /\ raw' = bind_lbuf(s)
         /\ rawPix' = IF raw' = NoImage THEN rawPix ELSE Read(raw')
    /\ rawCall' = [op |-> "bind"]
    /\ rawLeft' = rawLeft - 1

\* Scripts stay inside the image: the test of set_pixel is an or of the two
\* bounds and lets one of them be exceeded.
RawSet ==
    /\ raw # NoImage
    /\ \E c \in Coords, v \in Values(raw.fmt) :
         /\ raw' = set(raw, c[1], c[2], v)
         /\ rawPix' = [rawPix EXCEPT ![c] = v]
    /\ rawCall' = [op |-> "set_pixel"]
    /\ rawLeft' = rawLeft - 1

RawPatch ==
    /\ raw # NoImage
    /\ \E badval \in {0, Pow2[raw_formats[raw.fmt].bpp] \div 4} :
         /\ raw' = patch_pixels(raw, badval)
         /\ rawPix' = Read(raw')
         /\ rawCall' = [op |-> "patch_pixels", badval |-> badval]
    /\ rawLeft' = rawLeft - 1

RawThumb ==
    /\ raw # NoImage
    /\ \E size \in {<<1, 1>>, <<4, 2>>} :
         /\ size[1] <= raw.area.right - raw.area.left
         /\ size[2] <= raw.area.bottom - raw.area.top
         /\ rawCall' = [op |-> "thumb", size |-> size,
                        rgb |-> make_rgb_thumb(raw, size[1], size[2])]
    /\ rawLeft' = rawLeft - 1
    /\ UNCHANGED <<raw, rawPix>>

\* The new buffer comes from malloc or is one the script used before.  A value
\* that does not fit the new depth is the script's to avoid.
RawConvert ==
    /\ raw # NoImage
    /\ \E to \in RawFormats, up, down \in BOOLEAN, junk \in {0, 255} :
         LET shift == ConvertShift(raw.fmt, to, up, down)
             size == Row_bytes(to, raw.width) * raw.height
         IN  /\ raw_formats[raw.fmt].bpp > raw_formats[to].bpp => down
             /\ raw' = convert(raw, to, shift, [i \in 0..(size - 1) |-> junk])
             /\ rawPix' = [c \in Coords |-> Shift(rawPix[c], -shift)]
    /\ rawCall' = [op |-> "convert"]
    /\ rawLeft' = rawLeft - 1

RawNext == rawLeft > 0 /\ (RawBind \/ RawSet \/ RawPatch \/ RawThumb \/ RawConvert)

(***************************************************************************)
(* Properties.                                                             *)
(***************************************************************************)
\* The bytes are bytes and the image lies inside its buffer.
RawTypeOK ==
    /\ rawLeft \in 0..RawOps
    /\ raw # NoImage =>
         /\ raw.data \in [DOMAIN raw.data -> 0..255]
         /\ \A i \in raw.off..(raw.off + Dim(raw) - 1) : i \in DOMAIN raw.data

\* Every pixel reads back as what was last written to it, in this or the
\* format it was converted from, and is stored where the format puts it: the
\* read and write functions of a format agree with each other and with the
\* layout, and none of them touches a neighbour (rawimg.c:157-391, 598-676).
Decoded ==
    raw # NoImage =>
      \A c \in Coords : /\ get(raw, c[1], c[2]) = rawPix[c]
                        /\ Read(raw)[c] = rawPix[c]

\* patch_pixels works in place, and later pixels are interpolated from patched
\* ones: it changes only bad pixels of the active area and gives them values
\* between good ones of their own colour.
Good(c) == {rawPix[d] : d \in {e \in Coords : /\ cfa_color(raw, e[1], e[2]) = cfa_color(raw, c[1], c[2])
                                              /\ rawPix[e] > raw.black}}
PatchedOnly ==
    \A c \in Coords : rawPix'[c] # rawPix[c] =>
        /\ rawPix[c] <= rawCall'.badval
        /\ c[1] \in raw.area.left..(raw.area.right - 1)
        /\ \E lo, hi \in Good(c) : lo <= rawPix'[c] /\ rawPix'[c] <= hi
PatchSound == [][rawCall'.op = "patch_pixels" => PatchedOnly]_rawVars

=============================================================================
