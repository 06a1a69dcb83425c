--------------------------- MODULE MCAssetStorage ---------------------------
(***************************************************************************)
(* Small instances of AssetStorage.                                        *)
(***************************************************************************)
EXTENDS AssetStorage, TLC

CONSTANTS r1, r2, seed, avatar, photo, cert, png, pdf, svg, exe

MCMedia == png :> "image" @@ pdf :> "pdf" @@ svg :> "svg" @@ exe :> "unsupported"

Of(asset, content, source) ==
    [asset |-> asset, content |-> content, declared |-> Media[content],
     source |-> source, sound |-> TRUE]

\* A bundled file and a custom avatar.
MCSeedOrder == << Of(seed, png, "seed"), Of(avatar, svg, "custom_avatar") >>

\* A file of the type it declares and one that the signature check refuses.
MCOffers ==
    { Of(photo, png, "upload"),
      [Of(photo, exe, "upload") EXCEPT !.declared = "none"],
      [Of(photo, pdf, "upload") EXCEPT !.declared = "image"] }

\* A bundle whose files fit, two of which may have to be restored and taken
\* back; one whose second file contradicts the bundled file of the same id;
\* one with a broken entry after a good one.
MCBundles ==
    { << Of(seed, png, "seed"), Of(photo, png, "upload"), Of(cert, pdf, "upload") >>,
      << Of(photo, png, "upload"), Of(seed, pdf, "seed") >>,
      << Of(photo, png, "upload"), [Of(cert, pdf, "upload") EXCEPT !.sound = FALSE] >> }

\* Once cert has been stored, which takes an import of two files, the writers
\* and removers are explored, without stops and readers, and only photo may
\* be deleted by an administrator: what a stop and a reader meet they meet
\* with photo alone.
TwoFilesWithoutStops ==
    cert \in dirs \/ removed[cert] # "never" =>
        /\ crashes = 0
        /\ cert \notin deleted
        /\ \A r \in Requests : job[r].op \notin {"fetch", "preview"}
=============================================================================
