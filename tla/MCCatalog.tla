----------------------------- MODULE MCCatalog -----------------------------
(* Catalog with two requests at a time about three products, a category    *)
(* and a brand.  "Box 2" is the name that collides with the second slug of *)
(* "Box".  Clients are alike, and so are the products yet to be created.  *)
EXTENDS Catalog, TLC

CONSTANTS s1, s2, p1, p2, p3, food, acme

MCClients == {s1, s2}
MCProducts == {p1, p2, p3}
MCNames == {<<>>, <<2>>}

Body(name, slug, image, groups) ==
    [name |-> name, slug |-> slug, image |-> image, groups |-> groups]

MCBodies ==
    {Body(<<>>, Same, "new", {food}), Body(<<>>, Same, "keep", {}),
     Body(<<2>>, Same, "keep", {}), Body(<<>>, Same, "keep", {food}),
     Body(Same, <<2>>, "keep", {}), Body(Same, Same, "remove", {}),
     Body(<<2>>, Same, "new", {food, acme})}

MCSymmetry == Permutations(MCClients) \union Permutations({p2, p3})
=============================================================================
