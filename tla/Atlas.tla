--------------------------------- MODULE Atlas ---------------------------------
(***************************************************************************)
(* The glyphs of a window's text (velacritty/src/renderer/text): the cache *)
(* of glyph_cache.rs, the textures of atlas.rs that the glyphs are packed  *)
(* into row by row, and the batches of mod.rs, glsl3.rs and gles2.rs that  *)
(* are drawn from one texture at a time.  A key is a character in a face;  *)
(* rasterized, it has a width and a height that depend on the font.        *)
(***************************************************************************)
EXTENDS Arith, Sequences, SequencesExt, FiniteSets

CONSTANTS
    ATLAS_SIZE,
    BATCH_MAX,
    GlyphSize,    \* font -> key -> <<width, height>>, or Missing if there is no glyph
    Missing,
    MaxCells      \* bound: cells drawn in a frame

VARIABLES
    atlases,      \* sequence of Atlas; its index is the texture's name
    current,      \* current_atlas
    cache,        \* GlyphCache::cache
    font,         \* [loaded, pending]: of the cache, and whether it has to be cleared
    batch,        \* Batch: tex, instances
    gl            \* [active: active_tex, bound: the texture that is bound, wrong]

atlasVars == <<atlases, current, cache, font, batch, gl>>

NewAtlas == [row_extent |-> 0, row_baseline |-> 0, row_tallest |-> 0]

-----------------------------------------------------------------------------
(* Atlas: operators on the record [atlases, current, gl] *)

room_in_row(a, w, h) ==
    a.row_extent + w <= ATLAS_SIZE /\ h < ATLAS_SIZE - a.row_baseline

CanAdvance(a) == ATLAS_SIZE - (a.row_baseline + a.row_tallest) > 0

advance_row(a) ==
    [row_extent |-> 0, row_baseline |-> a.row_baseline + a.row_tallest, row_tallest |-> 0]

(* Atlas::insert: the rows it may go into, none if the atlas is full.  A row
   that was begun stays begun when the glyph does not fit there either. *)
RowFor(a, w, h) ==
    IF room_in_row(a, w, h) THEN [atlas |-> a, fits |-> TRUE]
    ELSE IF ~CanAdvance(a) THEN [atlas |-> a, fits |-> FALSE]
    ELSE [atlas |-> advance_row(a), fits |-> room_in_row(advance_row(a), w, h)]

(* Faulty variant: the cached name of the bound texture is kept. *)
bind_for_upload_KeepsActive(g) == [g EXCEPT !.bound = 0]

(* Loading data binds the atlas and then no texture. *)
bind_for_upload(g) == [g EXCEPT !.bound = 0, !.active = 0]

insert_inner(a, w, h) ==
    [a EXCEPT !.row_extent = a.row_extent + w, !.row_tallest = MaxOf(a.row_tallest, h)]

Placed(tex, a, w, h) == [tex |-> tex, x |-> a.row_extent, y |-> a.row_baseline, w |-> w, h |-> h]
TooLarge(tex) == [tex |-> tex, x |-> 0, y |-> 0, w |-> 0, h |-> 0]

(* Atlas::load_glyph: the current atlas, or else the next, which is empty,
   and created when there is none.  One that is empty and cannot take the
   glyph is followed by others like it, for ever. *)
load_glyph(s, w, h) ==
    LET row   == RowFor(s.atlases[s.current], w, h)
        left  == [s.atlases EXCEPT ![s.current] = row.atlas]
        next  == s.current + 1
        more  == IF next > Len(left) THEN Append(left, NewAtlas) ELSE left
        fresh == RowFor(more[next], w, h)
    IN  IF w > ATLAS_SIZE \/ h > ATLAS_SIZE
        THEN [state |-> s, glyph |-> TooLarge(s.current), endless |-> FALSE]
        ELSE IF row.fits
        THEN [state |-> [s EXCEPT !.atlases = [left EXCEPT ![s.current] = insert_inner(row.atlas, w, h)],
                                  !.gl = bind_for_upload(s.gl)],
              glyph |-> Placed(s.current, row.atlas, w, h), endless |-> FALSE]
        ELSE [state |-> [atlases |-> [more EXCEPT ![next] = insert_inner(fresh.atlas, w, h)],
                         current |-> next, gl |-> bind_for_upload(s.gl)],
              glyph |-> Placed(next, fresh.atlas, w, h), endless |-> ~fresh.fits]

clear_atlas(s) == [s EXCEPT !.atlases = [i \in DOMAIN s.atlases |-> NewAtlas], !.current = 1]

-----------------------------------------------------------------------------
(* GlyphCache: [cache, atlases, current, gl, endless] *)

Loaded(s, key, size) ==
    LET With(l) ==
            [cache |-> s.cache @@ (key :> l.glyph), atlases |-> l.state.atlases,
             current |-> l.state.current, gl |-> l.state.gl, endless |-> s.endless \/ l.endless]
    IN  With(load_glyph([atlases |-> s.atlases, current |-> s.current, gl |-> s.gl],
                        size[1], size[2]))

(* A key that no font has shares the glyph cached under the missing key. *)
get(s, key, sizes) ==
    LET Shared(t) == [t EXCEPT !.cache = @ @@ (key :> t.cache[Missing])]
    IN  IF key \in DOMAIN s.cache THEN s
        ELSE IF sizes[key] # Missing THEN Loaded(s, key, sizes[key])
        ELSE Shared(IF Missing \in DOMAIN s.cache THEN s ELSE Loaded(s, Missing, sizes[Missing]))

NoGlyphs == [k \in {} |-> 0]

-----------------------------------------------------------------------------
(* Batches *)

(* The texture of the batch is bound unless it is known to be. *)
render_batch(g, b) ==
    LET bound == IF g.active # b.tex THEN b.tex ELSE g.bound
    IN  [active |-> b.tex, bound |-> bound,
         wrong |-> g.wrong \/ \E i \in DOMAIN b.instances : b.instances[i].tex # bound]

EmptyBatch == [tex |-> 0, instances |-> <<>>]

FlushFirst(b, glyph) == b.instances # <<>> /\ b.tex # glyph.tex

add_render_item(glyph, g) ==
    LET g1 == IF FlushFirst(batch, glyph) THEN render_batch(g, batch) ELSE g
        b  == IF FlushFirst(batch, glyph) THEN EmptyBatch ELSE batch
        b1 == [tex |-> IF b.instances = <<>> THEN glyph.tex ELSE b.tex,
               instances |-> Append(b.instances, glyph)]
    IN  IF Len(b1.instances) >= BATCH_MAX THEN [batch |-> EmptyBatch, gl |-> render_batch(g1, b1)]
        ELSE [batch |-> b1, gl |-> g1]

-----------------------------------------------------------------------------
(* Actions *)

Fonts == DOMAIN GlyphSize
Keys == DOMAIN GlyphSize[CHOOSE f \in Fonts : TRUE] \ {Missing}
State == [cache |-> cache, atlases |-> atlases, current |-> current, gl |-> gl, endless |-> font.endless]

DrawCell(key) ==
    /\ ~font.pending /\ font.cells < MaxCells
    /\ \E s \in {get(State, key, GlyphSize[font.loaded])} :
       \E item \in {add_render_item(s.cache[key], s.gl)} :
         /\ cache' = s.cache /\ atlases' = s.atlases /\ current' = s.current
         /\ batch' = item.batch /\ gl' = item.gl
         /\ font' = [font EXCEPT !.cells = font.cells + 1, !.endless = s.endless]

(* The renderer is dropped at the end of a frame and draws what is left. *)
EndFrame ==
    /\ font.cells > 0
    /\ gl' = IF batch.instances # <<>> THEN render_batch(gl, batch) ELSE gl
    /\ batch' = EmptyBatch
    /\ font' = [font EXCEPT !.cells = 0]
    /\ UNCHANGED <<atlases, current, cache>>

(* Display::update_font_size and the clear_font_cache it leaves pending. *)
UpdateFont(new) ==
    /\ font.cells = 0 /\ new # font.loaded
    /\ font' = [font EXCEPT !.loaded = new, !.pending = TRUE]
    /\ UNCHANGED <<atlases, current, cache, batch, gl>>

reset_glyph_cache(s) ==
    LET c == clear_atlas([atlases |-> s.atlases, current |-> s.current, gl |-> s.gl])
    IN  [s EXCEPT !.cache = NoGlyphs, !.atlases = c.atlases, !.current = c.current]

(* Display::process_renderer_update, before a frame; the common glyphs are
   loaded again, here one of them. *)
ClearFontCache ==
    /\ font.pending
    /\ \E common \in Keys :
       \E s \in {get(reset_glyph_cache(State), common, GlyphSize[font.loaded])} :
         /\ cache' = s.cache /\ atlases' = s.atlases /\ current' = s.current /\ gl' = s.gl
         /\ font' = [font EXCEPT !.pending = FALSE, !.endless = s.endless]
    /\ UNCHANGED batch

AtlasInit ==
    /\ atlases = <<NewAtlas>> /\ current = 1 /\ cache = NoGlyphs /\ batch = EmptyBatch
    /\ font = [loaded |-> CHOOSE f \in Fonts : TRUE, pending |-> FALSE, cells |-> 0, endless |-> FALSE]
    /\ gl = [active |-> 0, bound |-> 0, wrong |-> FALSE]

AtlasNext ==
    \/ \E key \in Keys : DrawCell(key)
    \/ EndFrame \/ ClearFontCache
    \/ \E new \in Fonts : UpdateFont(new)

-----------------------------------------------------------------------------

Overlap(a, b) ==
    /\ a.tex = b.tex
    /\ a.x < b.x + b.w /\ b.x < a.x + a.w /\ a.y < b.y + b.h /\ b.y < a.y + a.h

(* The glyphs of the cache lie inside their textures and never on top of each
   other, however rows of unequal glyphs fill up, atlases follow one another
   and are used again after a change of the font; and the search for a texture
   ends, with glyphs lower than a texture (Atlas::insert and load_glyph in
   atlas.rs, GlyphCache::reset_glyph_cache). *)
GlyphsIntact ==
    /\ ~font.endless
    /\ \A k \in DOMAIN cache :
         /\ cache[k].x + cache[k].w <= ATLAS_SIZE /\ cache[k].y + cache[k].h <= ATLAS_SIZE
         /\ \A l \in DOMAIN cache : cache[k] # cache[l] => ~Overlap(cache[k], cache[l])

(* Every glyph is drawn from the texture that it was loaded into, although
   loading a glyph in the middle of a batch binds another one and forgets which
   one is bound (render_batch and with_loader in glsl3.rs and gles2.rs). *)
DrawnFromOwnTexture == ~gl.wrong

=============================================================================
