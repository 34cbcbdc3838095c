------------------------------ MODULE Catalogue ------------------------------
(***************************************************************************)
(* All functions that make or read files: the program of each, its outputs    *)
(* and the temporary files, and what is known of where they fall short.        *)
(***************************************************************************)
EXTENDS BuilderPrograms, ImagePrograms, AnalysisPrograms, ReaderPrograms

Code ==
  LET bodies == BuilderCode @@ ImageCode @@ AnalysisCode @@ ReaderCode
  IN [p \in DOMAIN bodies |-> bodies[p] \o Return]
Programs == DOMAIN Code
\* Of a thread that runs nothing.
Idle == Step("idle", "")
Outputs(p) == (BuilderOutputs @@ ImageOutputs @@ AnalysisOutputs @@ ReaderOutputs)[p]
Temps == BuilderTemps \union ImageTemps \union AnalysisTemps

\* The files in the caches of the user.
Cached == {"download", "tif", "tif.tmp", "thumb"}

------------------------------------------------------------------------------
\* What is known to stay open, where a function returns ...
KeptOnReturn(p) ==
  CASE p \in {"geoProject", "toGeoTIFF", "getTile", "runTiler"} -> {"vsi.dst"}
    [] p = "getAltitude" -> {"hDataset"}
    [] OTHER -> {}

\* ... and where it throws.
Drawing == {"ct.hSrc", "ct.hTgt", "ict.hSrc", "ict.hTgt"}
Tiling == {"vsi.dst", "hSrcDataset", "inputDataset", "origDataset", "inputSrs", "outputSrs", "dsTile"}
KeptOnThrow(p) ==
  CASE p \in {"buildCog", "generateImageThumbEx"} -> {"hSrcDataset"}
    [] p = "generateThumb" -> {"hDataset", "ict.hSrc", "ict.hTgt"}
    [] p \in {"geoProject", "toGeoTIFF"} -> {"hSrcDataset", "vsi.dst"}
    [] p \in {"getTile", "runTiler"} -> Tiling \union Drawing
    [] p = "alignRaster" -> {"hS", "hR", "hSrcDataset"}
    [] p \in {"extractAll", "zipFolder"} -> {"pZip"}
    [] p = "extractAllFromBuffer" -> {"pZip", "buf"}
    [] p \in {"getAltitude", "parseGeoRaster"} -> {"hDataset", "hSrs", "hWgs84", "hTransform"}
    [] p = "coordsTransform" -> {"hSrc", "hTgt"}
    [] p = "convertGltfTo3dModel" -> {"base"}
    [] OTHER -> {}

\* The outputs that are made aside and then moved to their place.
PublishedAside == {"vec", "mvt", "tiles"}

\* The functions that leave the output of the run before as it was when they fail;
\* those that refuse to run where it is there are not among them.
KeepOld == {"buildVector", "overwriteVector", "geoProject"}

\* The temporary files that a function that fails is known to leave: the folder that is
\* made before its source is looked at (pointcloud.cpp:713), the folders of a vector
\* whose tiles cannot be looked at, what a program that fails leaves beside its input.
LeftBehind(p) ==
  CASE p = "buildCopc" -> {"tmp"}
    [] p \in {"buildVector", "overwriteVector"} -> {"stage.vec", "stage.mvt"}
    [] p = "buildGsplat" -> {"lod.rad"}
    [] OTHER -> {}

\* The functions that return only when they have made all their outputs.  alignRaster
\* is not one: what fails of its offset fails silently (align.cpp:565, 574, 619, 634-650).
Reliable ==
  {"buildVector", "overwriteVector", "buildCog", "maskBorders", "buildNexus", "buildModel3DTiles",
   "buildCopc", "buildGsplat", "convertToSpz", "mergeMultispectral", "zipFolder",
   "convertGltfTo3dModel"}
==============================================================================
