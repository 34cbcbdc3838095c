---------------------------- MODULE ImagePrograms ----------------------------
(***************************************************************************)
(* Pictures: thumbnails (thumbs.cpp), tiles (tilerhelper.cpp, gdaltiler.cpp,  *)
(* pctiler.cpp), projected images (geoproject.cpp), regions of a raster       *)
(* (raster_region.cpp) and merged bands (merge_multispectral.cpp), as         *)
(* sequences of Steps.                                                        *)
(***************************************************************************)
EXTENDS ReaderPrograms

\* What is made goes to a file, or to memory that the caller is given.
ToMemory(created) == Open(created) \o Close({created})

\* thumbs.cpp ----------------------------------------------------------------
WriteWebPFromDataset(dest) ==
  May \o Either(Written(dest, {}) \o Take("hOut") \o Close({"hOut"}), ToMemory("vsi.webp"))

BuildRGBAMemDataset == May \o Open("hMem") \o Guarded({"hMem"}, May \o May \o May) \o Take("hMem")

\* Every handle has an owner that closes it.
GenerateImageThumb(dest) ==
  Open("hSrc")
  \o Guarded({"hSrc"},
       May \o May \o Open("psOptions") \o Take("vsi.tif")
       \o Guarded({"vsi.tif", "hIntermediate", "hMem"},
            Take("hIntermediate") \o Close({"psOptions"}) \o May
            \o Optional(May)
            \o Either(WriteWebPFromDataset(dest) \o Return,
                      BuildRGBAMemDataset \o WriteWebPFromDataset(dest))))

\* The bands that are asked for: by number, by preset, or by the sensor; the
\* source stays open when they cannot be told.
SelectBands == May \o May

FormulaThumb(dest) ==
  May \o MayOr({"hSrcDataset"}) \o MayOr({"hSrcDataset"}) \o May \o MayOr({"hSrcDataset"})
  \o MayOr({"hSrcDataset"}) \o Close({"hSrcDataset"})
  \o May \o Open("hMem") \o MayOr({"hMem"})
  \o Either(OpenOr("vsi.webp", {"hMem"}) \o Close({"vsi.webp"}), Written(dest, {"hMem"}))
  \o Close({"hMem"}) \o Return

StretchedThumb(dest) ==
  MayOr({"hSrcDataset"}) \o OpenOr("psOptions", {"hSrcDataset"})
  \o Either(OpenOr("vsi.webp", {"psOptions", "hSrcDataset"}) \o Close({"vsi.webp"}),
            Written(dest, {"psOptions", "hSrcDataset"}))
  \o Close({"psOptions", "hSrcDataset"})

GenerateImageThumbEx(dest) ==
  Open("hSrcDataset") \o SelectBands \o Optional(FormulaThumb(dest)) \o StretchedThumb(dest)

\* The dataset in memory stays open however this fails.
RenderImage(dest) ==
  May \o May \o Open("hDataset") \o May \o Optional(May)
  \o Either(ToMemory("vsi.webp"), Written(dest, {}))
  \o Close({"hDataset"})

\* What is to be seen of a cloud, and its points; a transformer lives on the stack.
CloudView == May \o May \o May \o May
RenderPoints == Optional(CoordsTransform("ict.hSrc", "ict.hTgt", "ict", <<>>))

GeneratePointCloudThumb(dest) == CloudView \o RenderPoints \o RenderImage(dest)
RasterizeSplatPreview(dest) == May \o May \o May \o RenderImage(dest)
GenerateSplatThumb(dest) == May \o May \o RasterizeSplatPreview(dest)
GenerateSplatThumbFromRad(dest) == May \o RasterizeSplatPreview(dest)

\* What is there is taken for the thumbnail; what is not is written in place.
GenerateThumb(dest) ==
  May \o May
  \o Optional(IfThere(dest, Return))
  \o Either(Call(GenerateImageThumb(dest)),
       Either(GeneratePointCloudThumb(dest),
         Either(GenerateSplatThumbFromRad(dest), GenerateSplatThumb(dest))))

\* geoproject.cpp ------------------------------------------------------------
\* An image with a place; how large it will be, which is asked with it open.
ProjectedImage == May \o May \o May \o Open("hSrcDataset")
ScaledSize == Optional(May)

\* What a translation or a warp answers is not looked at, and the picture in memory
\* is never given back.
GeoProject(dest, tmpOut) ==
  ProjectedImage \o ScaledSize
  \o Take("psOptions") \o Take("vsi.dst") \o Take("hDstDataset") \o Close({"psOptions"})
  \o Take("waOptions") \o Optional(Begin(tmpOut) \o Settle(tmpOut)) \o Close({"waOptions"})
  \o Close({"hSrcDataset", "hDstDataset"})
  \o Move(tmpOut, dest)

\* tilerhelper.cpp -----------------------------------------------------------
Download == Begin("download") \o Settle("download")

Localize ==
  Locked("download", Either(Download, IfMissing("download", Download)))

\* The lock keeps the threads of a process from projecting one image twice.
ToGeoTIFF ==
  Optional(Localize)
  \o May \o Optional(Return)
  \o May
  \o Either(IfMissing("tif", Locked("tif", IfMissing("tif", GeoProject("tif", "tif.tmp")))),
            Locked("tif", IfMissing("tif", GeoProject("tif", "tif.tmp"))))

\* gdaltiler.cpp, pctiler.cpp --------------------------------------------------
\* A constructor that throws closes nothing of what it opened; the options of the
\* warp are freed.
CreateWarpedVrt == May \o Take("opts") \o OpenOr("origDataset", {"opts"}) \o Close({"opts"})

NewGDALTiler ==
  May \o May \o Open("inputDataset") \o May \o Take("inputSrs") \o May \o Take("outputSrs") \o May
  \o Optional(CreateWarpedVrt) \o Close({"inputSrs", "outputSrs"}) \o May

NewPointCloudTiler == May \o May \o May

TilerHolds == {"inputDataset", "origDataset"}

\* The window of the raster that a tile shows.
GeoQuery == May \o May

\* What is read of the window, made bytes of if it is none.
Rescale == May
TilePixels == May \o Optional(May \o Rescale) \o May \o May

EncodeJpeg == Open("dsRgbTemp") \o MayOr({"dsRgbTemp"})

\* A tile goes to a file in place, or to memory.
WriteTile(dest, closes) ==
  Either(OpenOr("vsi.tile", closes) \o Close({"vsi.tile"}), Written(dest, closes))

\* A tile that fails halfway leaves its picture in memory open.
GDALTile(dest) ==
  May \o Open("dsTile") \o Optional(GeoQuery \o Optional(TilePixels))
  \o Optional(EncodeJpeg) \o WriteTile(dest, {"dsRgbTemp"}) \o Close({"dsRgbTemp", "dsTile"})

EmptyTile(dest) ==
  Open("dsTileEmpty") \o WriteTile(dest, {"dsTileEmpty"}) \o Close({"dsTileEmpty"})

\* The way of a tile by bands: those that are asked for, one by one, whose failure
\* leaves the tile open, or the first ones, whose failure closes it, but for the
\* statistics of bytes that are none.
TileBands == Optional(May)
SelectedPixels == May
FirstPixels == MayOr({"dsTile"}) \o Optional(Rescale) \o MayOr({"dsTile"})

BandsTile(dest) ==
  TileBands \o Open("dsTile")
  \o Either(SelectedPixels, FirstPixels)
  \o MayOr({"dsTile"}) \o WriteTile(dest, {"dsTile"}) \o Close({"dsTile"})

\* The way of a tile by a formula: its filter, its values, their range and colours.
FormulaValues == May \o May \o May
FormulaColours == May \o May

FormulaTile(dest) ==
  FormulaValues \o FormulaColours
  \o Open("dsTile") \o WriteTile(dest, {"dsTile"}) \o Close({"dsTile"})

GDALTileEx(dest) ==
  Either(GDALTile(dest),
         May \o GeoQuery \o Either(EmptyTile(dest), Either(FormulaTile(dest), BandsTile(dest))))

\* The points that a tile shows are asked for in the coordinates of the cloud; each
\* is brought back to those of the tile.
TilePoints(body) ==
  May \o CoordsTransform("ct.hSrc", "ct.hTgt", "ct", May \o May \o body)
DrawPoints(body) == CoordsTransform("ict.hSrc", "ict.hTgt", "ict", body)

PointCloudTile(dest) ==
  TilePoints(DrawPoints(
    Open("dsTile") \o May \o May \o WriteTile(dest, {}) \o Close({"dsTile"})))

\* tilerhelper.cpp: a tiler on the stack is destroyed however the tile ends ...
GetTile(dest) ==
  Either(Call(NewPointCloudTiler \o PointCloudTile(dest)),
         Call(ToGeoTIFF) \o NewGDALTiler
         \o Guarded(TilerHolds, Either(GDALTile(dest), GDALTileEx(dest))))

GetTileFromUserCache(dest) == May \o Optional(IfThere(dest, Return)) \o GetTile(dest)

\* ... one on the heap is not, when a tile throws.
RunTiler(dest) ==
  Either(NewPointCloudTiler \o PointCloudTile(dest),
         Call(ToGeoTIFF) \o NewGDALTiler \o May \o GDALTile(dest) \o Close(TilerHolds))

\* raster_region.cpp -----------------------------------------------------------
\* As it must not be: the source stays open when there are no options.
RenderRasterRegionOpen ==
  May \o Open("hSrc") \o MayOr({"hSrc"}) \o Open("opts")
  \o Take("vsiPath") \o Take("hOut") \o Close({"opts"}) \o Close({"hSrc"})
  \o MayOr({"hOut", "vsiPath"}) \o Close({"hOut"}) \o Close({"vsiPath"}) \o May

RenderRasterRegion ==
  May \o Open("hSrc") \o MayOr({"hSrc"}) \o OpenOr("opts", {"hSrc"})
  \o Take("vsiPath") \o Take("hOut") \o Close({"opts"}) \o Close({"hSrc"})
  \o MayOr({"hOut", "vsiPath"}) \o Close({"hOut"}) \o Close({"vsiPath"}) \o May

QueryRasterPoint ==
  May \o Open("hDS") \o MayOr({"hDS"}) \o Take("hDsSrs") \o Take("hReqSrs")
  \o MayOr({"hDsSrs", "hReqSrs", "hDS"})
  \o Optional(OpenOr("hT", {"hDsSrs", "hReqSrs", "hDS"})
              \o MayOr({"hT", "hDsSrs", "hReqSrs", "hDS"}) \o Close({"hT"}))
  \o Take("hWgs84") \o Optional(Take("hT") \o Close({"hT"})) \o Close({"hWgs84"})
  \o Close({"hDsSrs", "hReqSrs"}) \o MayOr({"hDS"}) \o Close({"hDS"})

\* The bands of an index, in the window that is asked for; its colours as a picture.
WarpWindow ==
  May \o Open("hSrc") \o MayOr({"hSrc"}) \o OpenOr("opts", {"hSrc"})
  \o Take("vsiTif") \o Take("hWarp") \o Close({"opts"}) \o Close({"hSrc"})
  \o MayOr({"hWarp", "vsiTif"})
IndexBands ==
  Rethrows(May, Close({"hWarp"}) \o Close({"vsiTif"})) \o Close({"hWarp"}) \o Close({"vsiTif"})
IndexPicture ==
  May \o Open("hRgba") \o MayOr({"hRgba"}) \o Take("vsiOut") \o Take("hOut") \o Close({"hRgba"})
  \o MayOr({"hOut", "vsiOut"}) \o Close({"hOut"}) \o Close({"vsiOut"}) \o May

RenderRasterIndex == May \o WarpWindow \o IndexBands \o IndexPicture

\* merge_multispectral.cpp -----------------------------------------------------
\* What a picture tells of its camera; what cannot be read is left out.
ReadBand == Try(May, <<>>)
DetectBandAlignment == Optional(ReadBand)

\* A list of what is wrong; nothing is thrown, and all is closed.
ValidateMerge ==
  Optional(Take("hRef") \o Take("refSrs")
           \o Optional(Take("hDs") \o Take("srs") \o Close({"srs"}) \o Close({"hDs"}))
           \o Close({"refSrs", "hRef"}) \o DetectBandAlignment)

PreviewMergeMultispectral ==
  May \o Take("vrtOpts") \o OpenOr("datasets", {"vrtOpts"})
  \o MayOr({"datasets", "vrtOpts"}) \o Take("vsiVrt") \o Take("hVrt") \o Close({"vrtOpts"})
  \o MayOr({"datasets", "hVrt", "vsiVrt"})
  \o Take("transOpts") \o Take("hOut") \o Close({"transOpts"})
  \o MayOr({"hOut", "hVrt", "datasets", "vsiVrt"})
  \o Close({"hOut", "hVrt", "datasets"}) \o Close({"vsiVrt"})

\* The bands, as one raster in memory.
BandsVrt ==
  Take("vrtOpts") \o OpenOr("datasets", {"vrtOpts"})
  \o Take("vsiVrt") \o Take("hVrt") \o Close({"vrtOpts"})
  \o MayOr({"datasets", "hVrt", "vsiVrt"})

\* Bands with a place are warped; others are shifted against one another, each cut in
\* memory first, or taken as they are.
MergeByWarp(dest) == Take("warpOpts") \o Optional(Begin(dest)) \o Close({"warpOpts"})

CutBands ==
  Close({"hVrt", "datasets"}) \o Close({"vsiVrt"})
  \o OpenOr("srcDs", {"shifted", "vsi.shifted"})
  \o MayOr({"srcDs", "shifted", "vsi.shifted"})
  \o Take("srcOpts") \o Take("shifted") \o Take("vsi.shifted") \o Close({"srcOpts"}) \o Close({"srcDs"})
  \o MayOr({"shifted", "vsi.shifted"})

MergeShifted(dest) ==
  CutBands \o Take("vrtOpts") \o Take("vsiVrt") \o Take("hVrt") \o Close({"vrtOpts"})
  \o MayOr({"shifted", "vsi.shifted", "hVrt", "vsiVrt"})
  \o Take("transOpts") \o Optional(Begin(dest)) \o Close({"transOpts"})
  \o Close({"hVrt", "shifted"}) \o Close({"vsi.shifted", "vsiVrt"})

MergeByTranslate(dest) == Take("transOpts") \o Optional(Begin(dest)) \o Close({"transOpts"})

\* The place of the first picture, moved with its bands; its failures change nothing.
ReadGps == Try(May, <<>>)
ShiftGps == Optional(Try(May, <<>>))
WriteGps == Optional(Try(May, <<>>))

FinishMerge(dest) ==
  IfMissing(dest, FailOr({"hVrt", "datasets", "vsiVrt"}))
  \o Finish(dest, {"hVrt", "datasets", "vsiVrt"})
  \o Close({"hVrt", "datasets"}) \o Close({"vsiVrt"}) \o WriteGps

MergeMultispectral(dest) ==
  May \o IfThere(dest, Fail) \o ValidateMerge \o May \o ReadGps \o BandsVrt
  \o Either(MergeByWarp(dest), Either(MergeShifted(dest) \o ShiftGps, MergeByTranslate(dest)))
  \o FinishMerge(dest)

ImageCode ==
  [generateThumb |-> GenerateThumb("thumb"),
   generateImageThumbEx |-> GenerateImageThumbEx("thumb.webp"),
   geoProject |-> GeoProject("projected.tif", "projected.tif.tmp"),
   toGeoTIFF |-> ToGeoTIFF,
   localize |-> Localize,
   getTile |-> GetTileFromUserCache("tile.png"),
   runTiler |-> RunTiler("tile.png"),
   renderRasterRegion |-> RenderRasterRegion,
   queryRasterPoint |-> QueryRasterPoint,
   renderRasterIndex |-> RenderRasterIndex,
   previewMergeMultispectral |-> PreviewMergeMultispectral,
   mergeMultispectral |-> MergeMultispectral("merged.tif")]

ImageOutputs ==
  [generateThumb |-> {"thumb"},
   generateImageThumbEx |-> {"thumb.webp"},
   geoProject |-> {"projected.tif"},
   toGeoTIFF |-> {"tif"},
   localize |-> {"download"},
   getTile |-> {"tile.png"},
   runTiler |-> {"tile.png"},
   renderRasterRegion |-> {},
   queryRasterPoint |-> {},
   renderRasterIndex |-> {},
   previewMergeMultispectral |-> {},
   mergeMultispectral |-> {"merged.tif"}]

ImageTemps == {"tif.tmp", "projected.tif.tmp"}
==============================================================================
