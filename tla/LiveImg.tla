------------------------------ MODULE LiveImg ------------------------------
(***************************************************************************)
(* Live view images (liveimg.c): a frame of the camera holds a viewport in *)
(* one of three YUV layouts, an overlay that is paletted or YUV with a     *)
(* separate opacity buffer, and descriptions of each.  A script turns them *)
(* into a planar image that it hands in again, to either function, and     *)
(* packs it into an lbuf that it hands in again.  Planar images are upside *)
(* down, for the canvas; the packed ones are not.                          *)
(*                                                                         *)
(* The bytes of a buffer are a function of their position and the frame's  *)
(* seed, so that two bytes that are mixed up are almost always different;  *)
(* those at negative positions lie in front of the frame.  A frame holds   *)
(* its own header, whose length the code does not check, and its products  *)
(* of sides do not overflow.                                               *)
(***************************************************************************)
EXTENDS Integers, Sequences

CONSTANTS LiveSeeds,   \* distinguishes the contents of frames
          LiveOps      \* calls of a script

ASSUME LiveAssumption == LiveSeeds \subseteq Nat /\ LiveOps \in Nat

(***************************************************************************)
(* Colours.  Bytes are unsigned, char and the chroma arguments signed.     *)
(***************************************************************************)
int8(b) == IF b % 256 < 128 THEN b % 256 ELSE (b % 256) - 256
clip_yuv(v) == IF v < 0 THEN 0 ELSE IF v > 255 THEN 255 ELSE v
clamp_int8(v) == IF v > 127 THEN 127 ELSE IF v < -128 THEN -128 ELSE v

yuv_to_r(y, v)    == clip_yuv((y * 4096 + v * 5743 + 2048) \div 4096)
yuv_to_g(y, u, v) == clip_yuv((y * 4096 - u * 1411 - v * 2925 + 2048) \div 4096)
yuv_to_b(y, u)    == clip_yuv((y * 4096 + u * 7258 + 2048) \div 4096)
Rgb(y, u, v) == <<yuv_to_r(y, v), yuv_to_g(y, u, v), yuv_to_b(y, u)>>

(***************************************************************************)
(* Palettes: sequences of entries of four bytes, ayuv or vuya.             *)
(***************************************************************************)
palette_type1_default ==
  << <<0,0,0,0>>, <<255,224,0,0>>, <<255,96,238,98>>, <<255,185,0,0>>,
     <<127,0,0,0>>, <<255,126,161,179>>, <<255,204,184,94>>, <<255,95,0,0>>,
     <<255,148,197,93>>, <<255,138,80,176>>, <<255,75,61,212>>, <<127,40,0,0>>,
     <<127,0,123,226>>, <<255,48,0,0>>, <<255,105,0,0>>, <<255,0,0,0>> >>
num_entries == <<16, 16, 256, 16, 256>>            \* of the types 1 to 5
get_palette_size(type) == IF type \in DOMAIN num_entries THEN num_entries[type] * 4 ELSE 0
alpha2_lookup == <<128, 171, 214, 255>>

ayuv(e) == [a |-> e[1], y |-> e[2], u |-> int8(e[3]), v |-> int8(e[4])]
vuya(e) == [v |-> int8(e[1]), u |-> int8(e[2]), y |-> e[3], a |-> e[4]]

\* Types 1, 2 and 4 add the entries of the two halves of the index.
Sum(p, q) == [a |-> (p.a + q.a) \div 2,
              y |-> IF p.y + q.y > 255 THEN 255 ELSE p.y + q.y,
              u |-> clamp_int8(p.u + q.u), v |-> clamp_int8(p.v + q.v)]
Rgba(a, c) == Append(Rgb(c.y, c.u, c.v), a)
Clear == <<0, 0, 0, 0>>

to_rgba(type, palette, pixel) ==
    LET entry(n) == palette[n + 1]
        lo == pixel % 16   hi == pixel \div 16
        c == CASE type \in {1, 2} -> Sum(ayuv(entry(lo)), ayuv(entry(hi)))
               [] type = 4        -> Sum(vuya(entry(lo)), vuya(entry(hi)))
               [] OTHER           -> vuya(entry(pixel))
        grey == [c EXCEPT !.u = 0, !.v = 0]
    IN  CASE type = 1 -> Rgba(c.a, IF lo = 0 THEN grey ELSE c)
          [] type = 2 -> Rgba(alpha2_lookup[(c.a % 4) + 1], c)
          [] type \in {3, 4} -> IF pixel = 0 THEN Clear
                                ELSE Rgba(alpha2_lookup[(c.a % 4) + 1], c)
          [] type = 5 -> IF pixel = 0 THEN Clear
                         ELSE Rgba(alpha2_lookup[((c.a \div 16) % 4) + 1], c)

(***************************************************************************)
(* Frames.  at is the offset of a description, 0 for none; start that of   *)
(* the data, 0 if it was not asked for.  Both are signed numbers of the    *)
(* camera.  Visible widths are multiples of the pixel groups, as all       *)
(* cameras have them.                                                      *)
(***************************************************************************)
DescSize == 36
Byte(frame, i) == (i * 53 + (i \div 7) * 5 + frame.seed) % 256
Desc(type, start, size) ==
    [at |-> 32, type |-> type, start |-> start,
     buffer_width |-> size[1], visible_width |-> size[2], visible_height |-> size[3]]

NoDesc == [Desc("none", 0, <<0, 0, 0>>) EXCEPT !.at = 0]

\* Two sizes with as many pixels, one with margins in the buffer, and a smaller one.
Sizes == {<<8, 4, 2>>, <<8, 8, 1>>, <<4, 4, 1>>}
BaseFrame == [seed |-> 0, minor |-> 2, len |-> 400, palette_type |-> 0, palette_start |-> 0,
              vp |-> NoDesc, bm |-> NoDesc, bmo |-> NoDesc]
Viewports == [type : {"YUV8", "YUV8B", "YUV8C"}, size : Sizes, minor : {2, 3}, len : {90, 400}]
Overlays == [palette : 1..6, start : {0, 100}, len : {1200}]
            \cup [palette : {3, 5}, start : {100}, len : {1100}]   \* palettes beyond the end
            \cup [palette : {1, 6}, start : {-16}, len : {1200}]   \* and in front of the frame
ViewportFrame(s, f) ==
    [BaseFrame EXCEPT !.seed = s, !.minor = f.minor, !.len = f.len, !.vp = Desc(f.type, 80, f.size)]
PaletteFrame(s, p, size) ==
    [BaseFrame EXCEPT !.seed = s, !.palette_type = p.palette, !.palette_start = p.start,
                      !.len = p.len, !.bm = Desc("PAL8", 80, size)]
OpacityFrame(s, o, w) ==
    [BaseFrame EXCEPT !.seed = s, !.bm = Desc("YUV8B", 80, <<8, 4, 2>>),
                      !.bmo = Desc("OPACITY8", o, <<w, w, 2>>)]
SignedFrame(at, start) ==
    [BaseFrame EXCEPT !.vp = [Desc("YUV8", start, <<8, 4, 2>>) EXCEPT !.at = at]]
Frames == {ViewportFrame(s, f) : s \in LiveSeeds, f \in Viewports}
          \cup {PaletteFrame(s, p, size) : s \in LiveSeeds, p \in Overlays,
                                           size \in {<<8, 4, 2>>, <<8, 6, 1>>, <<8, 8, 1>>}}
          \cup {OpacityFrame(s, o, w) : s \in LiveSeeds, o \in {0, 120}, w \in {4, 8}}
          \cup {SignedFrame(at, start) : at \in {-32, 32}, start \in {-20, 80}}
          \cup {BaseFrame}

lv_proto_compatible(frame, minor) == ~ minor < frame.minor

\* The error of a description, "" if it can be used.  bpp is by type.
desc_error(frame, d, bpp, new) ==
    IF d.at <= 0 THEN "no desc"
    ELSE IF d.at + DescSize > frame.len THEN "data < fb_desc"
    ELSE IF d.type \notin DOMAIN bpp THEN "type not supported"
    ELSE IF d.type \in new /\ ~lv_proto_compatible(frame, 2) THEN "not supported by protocol"
    ELSE IF d.start # 0 /\ d.start + (d.buffer_width * d.visible_height * bpp[d.type]) \div 8 > frame.len
         THEN "data < buffer_width*height"
    ELSE IF d.visible_width > d.buffer_width THEN "width > buffer_width"
    ELSE ""
vp_error(frame) == desc_error(frame, frame.vp, [YUV8 |-> 12, YUV8B |-> 16, YUV8C |-> 16],
                              {"YUV8B", "YUV8C"})
bm_error(frame) == desc_error(frame, frame.bm, [PAL8 |-> 8, YUV8B |-> 16], {"YUV8B"})
bmo_error(frame) == IF ~lv_proto_compatible(frame, 2) THEN "not supported by protocol"
                    ELSE desc_error(frame, frame.bmo, [OPACITY8 |-> 8], {})
opacity_error(frame) ==
    IF bmo_error(frame) # "" THEN bmo_error(frame)
    ELSE IF \/ frame.bm.visible_width # frame.bmo.visible_width
            \/ frame.bm.visible_height # frame.bmo.visible_height
         THEN "opacity buffer size != bitmap size" ELSE ""
\* Faulty variant: the palette is taken to lie where it starts, whatever its size.
palette_error_Start(frame) ==
    IF frame.palette_start \notin 0..frame.len THEN "data < palette size" ELSE ""

\* The sum is unsigned: below zero it wraps to more than any length.
palette_error(frame) ==
    IF get_palette_size(frame.palette_type) + frame.palette_start \notin 0..frame.len
    THEN "data < palette size" ELSE ""

(***************************************************************************)
(* Conversion.  A loop over one row emits pixels in groups; a plane is the *)
(* list of what all rows emit, last row first.                             *)
(***************************************************************************)
\* Pixels of a group, its bytes, those of its luma, and the pixels emitted.
Layout(type, skip) ==
    IF type = "YUV8" THEN [pixels |-> 4, bytes |-> 6, y |-> <<1, 3, 4, 5>>, out |-> IF skip THEN 2 ELSE 4]
    ELSE [pixels |-> 2, bytes |-> 4, y |-> <<1, 3>>, out |-> IF skip THEN 1 ELSE 2]
row_inc(d) == (d.buffer_width * (IF d.type = "YUV8" THEN 12 ELSE 16)) \div 8
Chroma(type, b) == IF type = "YUV8B" THEN int8(b - 128) ELSE int8(b)

YuvAt(frame, d, row, group, j, L) ==
    LET p == d.start + row * row_inc(d) + group * L.bytes
    IN  Rgb(Byte(frame, p + L.y[j + 1]), Chroma(d.type, Byte(frame, p)),
            Chroma(d.type, Byte(frame, p + 2)))

Emit(perRow, height, pixel) ==
    [n \in 0..(perRow * height - 1) |-> pixel[height - 1 - (n \div perRow)][n % perRow]]

yuv_live_to_cd_rgb(frame, d, skip) ==
    LET L == Layout(d.type, skip)
        perRow == (d.visible_width \div L.pixels) * L.out
    IN  Emit(perRow, d.visible_height,
             [row \in 0..d.visible_height - 1 |-> [n \in 0..perRow - 1 |->
                 YuvAt(frame, d, row, n \div L.out, n % L.out, L)]])

\* Without an opacity buffer black with neutral chroma is transparent.
yuvb_live_to_cd_rgba(frame, d, bmo, skip) ==
    LET L == Layout("YUV8B", skip)
        group(row, n) == d.start + row * row_inc(d) + (n \div L.out) * 4
        none(p) == [i \in 1..4 |-> Byte(frame, p + i - 1)] = <<128, 0, 128, 0>>
        alpha(row, n) ==
            IF bmo.start # 0
            THEN Byte(frame, bmo.start + row * bmo.buffer_width + (n \div L.out) * 2 + (n % L.out))
            ELSE IF none(group(row, n)) THEN 0 ELSE 255
        perRow == (d.visible_width \div 2) * L.out
    IN  Emit(perRow, d.visible_height,
             [row \in 0..d.visible_height - 1 |-> [n \in 0..perRow - 1 |->
                 Append(YuvAt(frame, d, row, n \div L.out, n % L.out, L), alpha(row, n))]])

\* convert_palette: the default palette if the frame has none of a known type.
Colour(frame, pixel) ==
    IF frame.palette_type \in DOMAIN num_entries /\ frame.palette_start # 0
    THEN to_rgba(frame.palette_type,
                 [n \in 1..num_entries[frame.palette_type] |->
                     [i \in 1..4 |-> Byte(frame, frame.palette_start + 4 * (n - 1) + i - 1)]], pixel)
    ELSE to_rgba(1, palette_type1_default, pixel)

par(skip) == IF skip THEN 2 ELSE 1
palette_to_rgba(frame, d, skip) ==
    LET perRow == d.visible_width \div par(skip)
    IN  Emit(perRow, d.visible_height,
             [row \in 0..d.visible_height - 1 |-> [n \in 0..perRow - 1 |->
                 Colour(frame, Byte(frame, d.start + row * d.buffer_width + n * par(skip)))]])

(***************************************************************************)
(* The script: the frame at hand, its image, and the buffer packed last,   *)
(* with the sides of the image it was packed from.  A destroyed image has  *)
(* no pixels and no size.                                                  *)
(***************************************************************************)
VARIABLES live, liveLeft
liveVars == <<live, liveLeft>>

NoImg == [w |-> 0, h |-> 0, alpha |-> FALSE, px |-> <<>>, of |-> <<>>]
NoLbuf == [data |-> <<>>, of |-> <<>>]

\* The program after a write through a NULL plane.
Killed == [NoImg EXCEPT !.of = <<"killed">>]

\* Faulty variant: an image of as many pixels is reused with its old sides.
Reuse_Sides(im, w, h, alpha, resize) ==
    IF im # NoImg /\ im.w * im.h = w * h THEN im
    ELSE [NoImg EXCEPT !.w = w, !.h = h, !.alpha = alpha]

\* What get_viewport_pimg and get_bitmap_pimg do with the image handed in.
Reuse(im, w, h, alpha, resize) ==
    IF im # NoImg /\ im.w * im.h = w * h
    THEN (IF resize THEN [im EXCEPT !.w = w, !.h = h] ELSE im)
    ELSE [NoImg EXCEPT !.w = w, !.h = h, !.alpha = alpha]

\* The planes of im after the loops wrote px: an alpha plane that px has no
\* samples for stays as it was.
Painted(im, px, of) ==
    [im EXCEPT !.px = [n \in DOMAIN px |->
                         IF im.alpha /\ Len(px[n]) = 3 THEN Append(px[n], im.px[n][4]) ELSE px[n]],
               !.of = of]

get_viewport_pimg(im, frame, skip) ==
    LET vp == frame.vp   w == vp.visible_width \div par(skip)
    IN  IF vp_error(frame) # "" THEN im                      \* an error: the script keeps what it has
        ELSE IF vp.start = 0 \/ w * vp.visible_height = 0 THEN NoImg
        ELSE Painted(Reuse(im, w, vp.visible_height, FALSE, TRUE),
                     yuv_live_to_cd_rgb(frame, vp, skip), <<"viewport", frame, skip>>)

\* An image of a viewport that is reused has no plane for the transparency.
get_bitmap_pimg(im, frame, skip) ==
    LET bm == frame.bm   w == bm.visible_width \div par(skip)
        buffers_error == IF bm.type = "YUV8B" THEN opacity_error(frame) ELSE palette_error(frame)
        into == Reuse(im, w, bm.visible_height, TRUE, FALSE)
    IN  IF bm_error(frame) # "" THEN im
        ELSE IF bm.start = 0 \/ w * bm.visible_height = 0 THEN NoImg
        ELSE IF buffers_error # "" THEN im
        ELSE IF ~into.alpha THEN Killed
        ELSE Painted(into, IF bm.type = "YUV8B" THEN yuvb_live_to_cd_rgba(frame, bm, frame.bmo, skip)
                           ELSE palette_to_rgba(frame, bm, skip), <<"bitmap", frame, skip>>)

\* The bytes handed in, if there are as many as needed, or new ones.
Target(old, size) == IF DOMAIN old = 0..(size - 1) THEN old ELSE [i \in 0..(size - 1) |-> "garbage"]

pimg_to_packed(im, depth, old) ==
    LET target == Target(old, im.w * im.h * depth)
    IN  [i \in DOMAIN target |->
           LET row == i \div (im.w * depth)   col == (i \div depth) % im.w
               px == im.px[(im.h - 1 - row) * im.w + col]
           IN  IF row >= im.h THEN target[i]
               ELSE IF (i % depth) + 1 \in DOMAIN px THEN px[(i % depth) + 1] ELSE 255]

LiveInit ==
    /\ live = [frame |-> BaseFrame, img |-> NoImg, lb |-> NoLbuf]
    /\ liveLeft = LiveOps

LiveFrame == \E f \in Frames : live' = [live EXCEPT !.frame = f]
LiveViewport == \E skip \in BOOLEAN :
    live' = [live EXCEPT !.img = get_viewport_pimg(@, live.frame, skip)]
LiveBitmap == \E skip \in BOOLEAN :
    live' = [live EXCEPT !.img = get_bitmap_pimg(@, live.frame, skip)]
LivePack == \E depth \in {3, 4}, old \in {<<>>, live.lb.data} :
    /\ live.img # NoImg
    /\ live' = [live EXCEPT !.lb = [data |-> pimg_to_packed(live.img, depth, old), of |-> live.img.of,
                                    depth |-> depth, w |-> live.img.w, h |-> live.img.h]]
LiveKill == live' = [live EXCEPT !.img = NoImg]

LiveNext ==
    /\ live.img # Killed
    /\ liveLeft > 0 /\ liveLeft' = liveLeft - 1
    /\ (LiveFrame \/ LiveViewport \/ LiveBitmap \/ LivePack \/ LiveKill)

(***************************************************************************)
(* Properties.                                                             *)
(***************************************************************************)
\* An image has a value for each of its pixels, of its number of channels.
ImgOK(im) == /\ DOMAIN im.px = 0..(im.w * im.h - 1) \/ im.px = <<>>
             /\ \A n \in DOMAIN im.px : Len(im.px[n]) = IF im.alpha THEN 4 ELSE 3
LiveTypeOK == liveLeft \in 0..LiveOps /\ ImgOK(live.img)

\* The colour of a source pixel, independent of how the code walks the buffer:
\* ITU-R BT.601 in thousandths, for the luma of the pixel and the chroma of
\* its group.
Near(c, exact) == LET e == IF exact < 0 THEN 0 ELSE IF exact > 255000 THEN 255000 ELSE exact
                  IN  e - 1000 <= c * 1000 /\ c * 1000 <= e + 1000
YuvPixel(frame, d, row, col) ==
    LET six == d.type = "YUV8"
        base == d.start + row * row_inc(d)
        p == IF six THEN base + 6 * (col \div 4) ELSE base + 4 * (col \div 2)
        y == IF six THEN <<1, 3, 4, 5>>[(col % 4) + 1] ELSE 1 + 2 * (col % 2)
    IN  [y |-> Byte(frame, p + y), u |-> Chroma(d.type, Byte(frame, p)),
         v |-> Chroma(d.type, Byte(frame, p + 2))]
IsColour(rgb, s) == /\ Near(rgb[1], 1000 * s.y + 1402 * s.v)
                    /\ Near(rgb[2], 1000 * s.y - 344 * s.u - 714 * s.v)
                    /\ Near(rgb[3], 1000 * s.y + 1772 * s.u)

\* With skip a group of four shows its first two pixels, one of two its first.
SourceCol(type, skip, col) ==
    IF ~skip THEN col
    ELSE IF type = "YUV8" THEN 4 * (col \div 2) + (col % 2) ELSE 2 * col

\* What the channels px of a packed pixel show: the source pixel of that row and column.
PixelShown(kind, frame, d, skip, depth, px, row, col) ==
    LET at == SourceCol(d.type, skip, col)
    IN  IF d.type = "PAL8"
        THEN \A i \in 1..depth :
               px[i] = Colour(frame, Byte(frame, d.start + row * d.buffer_width + at))[i]
        ELSE /\ IsColour(px, YuvPixel(frame, d, row, at))
             /\ depth = 4 /\ kind = "bitmap" /\ frame.bmo.start # 0 =>
                  px[4] = Byte(frame, frame.bmo.start + row * frame.bmo.buffer_width + at)
PackedPx(data, w, depth, row, col) == [i \in 1..depth |-> data[(row * w + col) * depth + i - 1]]
Described(kind, frame) == IF kind = "viewport" THEN frame.vp ELSE frame.bm
ShowsFrame(data, depth, kind, frame, skip) ==
    LET d == Described(kind, frame)   w == d.visible_width \div par(skip)
    IN  /\ DOMAIN data = 0..(w * d.visible_height * depth - 1)
        /\ \A row \in 0..(d.visible_height - 1), col \in 0..(w - 1) :
             PixelShown(kind, frame, d, skip, depth, PackedPx(data, w, depth, row, col), row, col)

\* The sides of an image, or of what one was packed into, are those of its frame.
HasSides(x) ==
    LET d == Described(x.of[1], x.of[2])
    IN  x.w = d.visible_width \div par(x.of[3]) /\ x.h = d.visible_height

PackedIsFrame ==
    live.lb # NoLbuf /\ HasSides(live.lb) =>
      ShowsFrame(live.lb.data, live.lb.depth, live.lb.of[1], live.lb.of[2], live.lb.of[3])

Shows(im) == im \notin {NoImg, Killed}
ViewportSides == Shows(live.img) /\ live.img.of[1] = "viewport" => HasSides(live.img)

\* The end of a buffer with so many bits to a pixel, and whether the bytes an
\* image was made from were all received.
FbEnd(d, bits) == d.start + (d.buffer_width * d.visible_height * bits) \div 8
Inside(kind, frame) ==
    IF kind = "viewport" THEN FbEnd(frame.vp, IF frame.vp.type = "YUV8" THEN 12 ELSE 16) <= frame.len
    ELSE IF frame.bm.type = "YUV8B"
    THEN FbEnd(frame.bm, 16) <= frame.len /\ FbEnd(frame.bmo, 8) <= frame.len
    ELSE /\ FbEnd(frame.bm, 8) <= frame.len
         /\ frame.palette_type \in 1..5 =>
              frame.palette_start + 4 * num_entries[frame.palette_type] <= frame.len

FrameInside == Shows(live.img) => Inside(live.img.of[1], live.img.of[2])

\* A packed image shows the frame it was made from, whatever buffer was handed in
\* for reuse and however large the margins of the camera's buffers are: rows from
\* the top, and every pixel its own colour.  It does if the image has the sides of
\* the frame: an image of a viewport has them whatever image was handed in, one of
\* an overlay does not always (OverlaySides).  And no image is made from bytes
\* beyond the end of the frame that was received, whether they are pixels, opacity
\* or palette (liveimg.c:264-401, 531-841, 912-964).
LiveSound == PackedIsFrame /\ ViewportSides /\ FrameInside

\* What liveimg.c says of the image handed in to get_bitmap_pimg: "created if nil,
\* replaced if size doesn't match" (733).  It is false, as only the areas are
\* compared (788): an overlay of equal area keeps the sides of the image before.
OverlaySides == Shows(live.img) /\ live.img.of[1] = "bitmap" => HasSides(live.img)

=============================================================================
